----------------------------- MODULE CockpitProofs -----------------------------
(***************************************************************************)
(* What is derived of one cockpit: the flight phase and the checklist, for *)
(* every checklist, every set of pictures and every choice of dwell times; *)
(* the Hornet's reports, gear and speeds, for every set of images, of      *)
(* phases and every dwell and health timeout; and what the spatial coach   *)
(* says and reports, for every set of exercises and pictures and every     *)
(* choice of holds and cooldowns.                                          *)
(***************************************************************************)
EXTENDS CockpitContext, Hornet, Coach, FiniteSetTheorems, SequenceTheorems, TLAPS

\* The detector's candidate is the phase inferred last, and it notes since when
\* it has been inferred exactly while it differs from the phase taken.
DetectorInv ==
    /\ detector.current \in Phases /\ detector.candidate = steady.phase
    /\ detector.since = Never <=> detector.current = detector.candidate
    /\ detector.since # Never => detector.since = steady.since
    /\ PhaseFollows

ClockTyped ==
    /\ now \in Nat /\ steady.phase \in Phases /\ steady.since \in Nat /\ steady.at \in Nat
    /\ detector \in [current : Phases, candidate : Phases, since : Int, phaseSince : Int]

PhaseInv == DetectorInv /\ ClockTyped

------------------------------------------------------------------------------
(* Flight phase.                                                           *)

LEMMA Inferred == ASSUME NEW d, NEW w, NEW c PROVE Infer(d, w, c) \in Phases
<1>1. OnWheels(d, w, c) \in Phases
  <2>1. CASE c.ias >= 80 /\ c.engines = "running"
    BY <2>1 DEF OnWheels, Phases
  <2>2. CASE /\ ~(c.ias >= 80 /\ c.engines = "running")
             /\ \/ ChangedWithin(w.touchdown)
                \/ d.current = "POST_LANDING" /\ c.engines # "off" /\ c.ground >= 0
    BY <2>2 DEF OnWheels, Phases
  <2>3. CASE /\ ~(c.ias >= 80 /\ c.engines = "running")
             /\ ~\/ ChangedWithin(w.touchdown)
                 \/ d.current = "POST_LANDING" /\ c.engines # "off" /\ c.ground >= 0
    BY <2>3 DEF OnWheels, Phases
  <2>. QED
    BY <2>1, <2>2, <2>3
<1>2. InTheAir(d, w, c) \in Phases
  BY DEF InTheAir, Phases
<1>3. "UNKNOWN" \in Phases
  BY DEF Phases
<1>. QED
  BY <1>1, <1>2, <1>3 DEF Infer

\* One update of the detector with phase p, inferred without interruption since
\* `run`: it takes p once its dwell time has passed, and otherwise waits for it.
LEMMA DetectedSteady ==
    ASSUME ContextAssumption, now \in Nat, NEW p \in Phases, NEW d, NEW run \in Nat,
           d \in [current : Phases, candidate : Phases, since : Int, phaseSince : Int],
           d.since = Never <=> d.current = d.candidate,
           p # d.candidate => run = now,
           p = d.candidate /\ d.since # Never => run = d.since
    PROVE  LET e == Detected(d, p) IN
           /\ e \in [current : Phases, candidate : Phases, since : Int, phaseSince : Int]
           /\ e.candidate = p
           /\ e.since = Never <=> e.current = e.candidate
           /\ e.since # Never => e.since = run
           /\ e.current # p => now - run < Dwell[p]
           /\ e.current # d.current => e.current = p /\ now - run >= Dwell[p]
<1> DEFINE since == IF p # d.candidate THEN now ELSE d.since
<1>1. Dwell[p] \in Nat
  BY DEF ContextAssumption
<1>2. CASE p = d.current
  <2>1. Detected(d, p) = [d EXCEPT !.candidate = p, !.since = Never]
    BY <1>2 DEF Detected
  <2>2. Never \in Int
    BY DEF Never
  <2>. QED
    BY <1>2, <2>1, <2>2
<1>3. CASE p # d.current
  <2>1. since # Never /\ since = run
    BY <1>3 DEF Never
  <2>2. CASE now - since >= Dwell[p]
    <3>1. Detected(d, p) = [current |-> p, candidate |-> p, since |-> Never, phaseSince |-> now]
      BY <1>3, <2>1, <2>2 DEF Detected
    <3>. QED
      BY <2>1, <2>2, <3>1 DEF Never
  <2>3. CASE ~(now - since >= Dwell[p])
    <3>1. Detected(d, p) = [d EXCEPT !.candidate = p, !.since = since]
      BY <1>3, <2>3 DEF Detected
    <3>2. since \in Int
      OBVIOUS
    <3>3. now - run < Dwell[p]
      BY <1>1, <2>1, <2>3
    <3>. QED
      BY <1>3, <2>1, <3>1, <3>2, <3>3
  <2>. QED
    BY <2>2, <2>3
<1>. QED
  BY <1>2, <1>3

LEMMA UpdatePhase ==
    ASSUME ContextAssumption, PhaseInv, NEW a \in Aircraft, NEW c \in Cockpits, Update(a, c)
    PROVE  /\ PhaseInv'
           /\ aircraft' = aircraft /\ detector'.current # detector.current
              => /\ detector'.current = steady'.phase
                 /\ now - steady'.since >= Dwell[steady'.phase]
<1>1. PICK d : d = IF Fresh(a) THEN FreshDetector ELSE detector
  OBVIOUS
<1>2. PICK p : p = Infer(d, Recorded(IF Fresh(a) THEN NoWheels ELSE wheels, c), c)
  OBVIOUS
<1>3. p \in Phases
  BY <1>2, Inferred
<1>4. /\ detector' = Detected(d, p) /\ now' = now /\ aircraft' = a
      /\ steady' = [phase |-> p, at |-> now,
                    since |-> IF Fresh(a) \/ steady.phase # p THEN now ELSE steady.since]
  BY <1>1, <1>2 DEF Update
<1>5. now \in Nat /\ steady'.since \in Nat /\ steady'.phase = p /\ steady'.at = now
  BY <1>4 DEF PhaseInv, ClockTyped
<1>6. FreshDetector \in [current : Phases, candidate : Phases, since : Int, phaseSince : Int]
  BY DEF FreshDetector, Phases, Never
<1>7. /\ d \in [current : Phases, candidate : Phases, since : Int, phaseSince : Int]
      /\ d.since = Never <=> d.current = d.candidate
  <2>1. CASE Fresh(a)
    BY <1>1, <1>6, <2>1 DEF FreshDetector
  <2>2. CASE ~Fresh(a)
    BY <1>1, <2>2 DEF PhaseInv, DetectorInv, ClockTyped
  <2>. QED
    BY <2>1, <2>2
<1>8. p # d.candidate => steady'.since = now
  BY <1>1, <1>4 DEF PhaseInv, DetectorInv
<1>9. p = d.candidate /\ d.since # Never => steady'.since = d.since
  BY <1>1, <1>4 DEF PhaseInv, DetectorInv, FreshDetector
<1>10. LET e == Detected(d, p) IN
       /\ e \in [current : Phases, candidate : Phases, since : Int, phaseSince : Int]
       /\ e.candidate = p
       /\ e.since = Never <=> e.current = e.candidate
       /\ e.since # Never => e.since = steady'.since
       /\ e.current # p => now - steady'.since < Dwell[p]
       /\ e.current # d.current => e.current = p /\ now - steady'.since >= Dwell[p]
  BY <1>3, <1>5, <1>7, <1>8, <1>9, DetectedSteady, SMTT(30)
<1>11. PhaseInv'
  BY <1>3, <1>4, <1>5, <1>10 DEF PhaseInv, DetectorInv, ClockTyped, PhaseFollows
<1>12. aircraft' = aircraft => d = detector
  BY <1>1, <1>4 DEF Fresh
<1>. QED
  BY <1>4, <1>5, <1>10, <1>11, <1>12

LEMMA PhaseStep ==
    ASSUME ContextAssumption, PhaseInv, [Next]_vars
    PROVE  /\ PhaseInv'
           /\ aircraft' = aircraft /\ aircraft # None /\ detector'.current # detector.current
              => /\ detector'.current = steady'.phase
                 /\ now - steady'.since >= Dwell[steady'.phase]
<1>1. ASSUME NEW a \in Aircraft, NEW c \in Cockpits, Update(a, c)
      PROVE  /\ PhaseInv'
             /\ aircraft' = aircraft /\ detector'.current # detector.current
                => /\ detector'.current = steady'.phase
                   /\ now - steady'.since >= Dwell[steady'.phase]
  BY <1>1, UpdatePhase
<1>2. CASE Disconnect
  <2>1. PhaseInv'
    BY <1>2 DEF Disconnect, PhaseInv, DetectorInv, ClockTyped, PhaseFollows, FreshDetector,
                Phases, Never
  <2>. QED
    BY <1>2, <2>1 DEF Disconnect
<1>3. CASE /\ UNCHANGED <<detector, steady>>
           /\ now' \in Nat
  BY <1>3 DEF PhaseInv, DetectorInv, ClockTyped, PhaseFollows
<1>4. Tick => now' \in Nat /\ UNCHANGED <<detector, steady>>
  BY DEF Tick, PhaseInv, ClockTyped, historyVars
<1>5. Age \/ StartGuidedChecklist \/ StopGuidedChecklist \/ ConfirmChecklistItem \/ UNCHANGED vars
      => now' \in Nat /\ UNCHANGED <<detector, steady>>
  BY DEF Age, StartGuidedChecklist, StopGuidedChecklist, ConfirmChecklistItem, vars, historyVars,
         PhaseInv, ClockTyped
<1>. QED
  BY <1>1, <1>2, <1>3, <1>4, <1>5 DEF Next

LEMMA PhaseInit == ContextAssumption /\ Init => PhaseInv
BY DEF Init, PhaseInv, DetectorInv, ClockTyped, PhaseFollows, FreshDetector, Phases, Never

\* What has been inferred for its dwell time has been taken
\* (FlightPhaseDetector.update).
THEOREM PhaseAlwaysFollows == Spec => []PhaseFollows
<1>1. PhaseInv => PhaseFollows
  BY DEF PhaseInv, DetectorInv
<1>. QED
  BY <1>1, PhaseInit, PhaseStep, ContextAssumption, PTL DEF Spec

\* Within one cockpit a phase is taken only when every update of its dwell time
\* has inferred it (FlightPhaseDetector.update).
THEOREM PhaseAlwaysHeld == Spec => PhaseHeld
<1>1. PhaseInv /\ [Next]_vars
      => [aircraft' = aircraft /\ aircraft # None /\ detector'.current # detector.current
          => /\ detector'.current = steady'.phase
             /\ now - steady'.since >= Dwell[steady'.phase]]_vars
  BY PhaseStep, ContextAssumption
<1>. QED
  BY <1>1, PhaseInit, PhaseStep, ContextAssumption, PTL DEF Spec, PhaseHeld

------------------------------------------------------------------------------
(* Checklist.                                                              *)

LEMMA VerdictReading ==
    ASSUME NEW c, NEW i
    PROVE  /\ Verdict(c, i) \in Statuses
           /\ Verdict(c, i) = "COMPLETE" <=> Kind[i] # "manual" /\ c.items[i] = "good"
<1>1. CASE Kind[i] = "manual"
  BY <1>1 DEF Verdict, Statuses
<1>2. CASE Kind[i] = "derived"
  BY <1>2 DEF Verdict, Statuses
<1>3. CASE Kind[i] # "manual" /\ Kind[i] # "derived"
  <2>1. CASE c.items[i] = "good"
    BY <1>3, <2>1 DEF Verdict, Statuses
  <2>2. CASE c.items[i] = "bad"
    BY <1>3, <2>2 DEF Verdict, Statuses
  <2>3. CASE c.items[i] # "good" /\ c.items[i] # "bad"
    BY <1>3, <2>3 DEF Verdict, Statuses
  <2>. QED
    BY <2>1, <2>2, <2>3
<1>. QED
  BY <1>1, <1>2, <1>3

\* Progress is a record of these fields, and a usable picture one that was normalized.
ProgressTyped ==
    progress = [stage |-> progress.stage, confirmed |-> progress.confirmed,
                latched |-> progress.latched]

LEMMA UpdateProgress ==
    ASSUME ProgressIsOfThisCockpit, ProgressTyped, NEW a, NEW c, Update(a, c)
    PROVE  ProgressIsOfThisCockpit' /\ ProgressTyped'
<1>1. PICK p : p = StartingProgress(a)
  OBVIOUS
<1>2. /\ p.confirmed = IF Fresh(a) THEN {} ELSE said
      /\ p.latched = IF Fresh(a) THEN {} ELSE seen
      /\ p = [stage |-> p.stage, confirmed |-> p.confirmed, latched |-> p.latched]
  BY <1>1 DEF StartingProgress, FreshProgress, ProgressIsOfThisCockpit, ProgressTyped
<1>3. progress' = Observed(p, a, c)
  BY <1>1 DEF Update
<1>4. progress' = [stage |-> p.stage, confirmed |-> p.confirmed,
                   latched |-> p.latched
                      \cup {i \in Latching : a = Hornet /\ Verdict(c, i) = "COMPLETE"}]
  <2>1. CASE a = Hornet
    BY <1>2, <1>3, <2>1 DEF Observed
  <2>2. CASE a # Hornet
    BY <1>2, <1>3, <2>2 DEF Observed
  <2>. QED
    BY <2>1, <2>2
<1>5. progress'.latched = p.latched
         \cup {i \in Latching : a = Hornet /\ Kind[i] # "manual" /\ c.items[i] = "good"}
  BY <1>4, VerdictReading
<1>6. progress'.confirmed = said' /\ progress'.latched = seen'
  BY <1>2, <1>4, <1>5 DEF Update
<1>7. ProgressTyped'
  BY <1>4 DEF ProgressTyped
<1>. QED
  BY <1>6, <1>7 DEF ProgressIsOfThisCockpit

LEMMA ProgressStep ==
    ASSUME ProgressIsOfThisCockpit, ProgressTyped, [Next]_vars
    PROVE  ProgressIsOfThisCockpit' /\ ProgressTyped'
<1>1. ASSUME NEW a \in Aircraft, NEW c \in Cockpits, Update(a, c)
      PROVE  ProgressIsOfThisCockpit' /\ ProgressTyped'
  BY <1>1, UpdateProgress
<1>2. CASE Disconnect
  BY <1>2 DEF Disconnect, FreshProgress, ProgressIsOfThisCockpit, ProgressTyped
<1>3. CASE StartGuidedChecklist
  <2>1. PICK s \in Stages : progress' = [progress EXCEPT !.stage = s]
    BY <1>3 DEF StartGuidedChecklist
  <2>. QED
    BY <1>3, <2>1 DEF StartGuidedChecklist, ProgressIsOfThisCockpit, ProgressTyped, historyVars
<1>4. CASE StopGuidedChecklist
  BY <1>4 DEF StopGuidedChecklist, ProgressIsOfThisCockpit, ProgressTyped, historyVars
<1>5. CASE ConfirmChecklistItem
  BY <1>5 DEF ConfirmChecklistItem, ProgressIsOfThisCockpit, ProgressTyped
<1>6. CASE Age \/ Tick \/ UNCHANGED vars
  BY <1>6 DEF Age, Tick, vars, historyVars, ProgressIsOfThisCockpit, ProgressTyped
<1>. QED
  BY <1>1, <1>2, <1>3, <1>4, <1>5, <1>6 DEF Next

LEMMA ProgressInit == Init => ProgressIsOfThisCockpit /\ ProgressTyped
BY DEF Init, FreshProgress, ProgressIsOfThisCockpit, ProgressTyped

\* What the guide takes as done is what telemetry has shown or the pilot has said in
\* this very cockpit (ChecklistEngine, reset by AircraftStateStore).
THEOREM ProgressAlwaysOfThisCockpit == Spec => []ProgressIsOfThisCockpit
BY ProgressInit, ProgressStep, PTL DEF Spec

------------------------------------------------------------------------------
(* Readiness.                                                              *)

LEMMA ReadyItems ==
    ASSUME ProgressIsOfThisCockpit, BeforeTaxi = "READY",
           NEW i \in ToSet(ChainItems(DefaultStage))
    PROVE  Verified(i)
<1> DEFINE statuses == {Status(x) : x \in ToSet(ChainItems(DefaultStage))}
<1>1. Report(statuses) = "READY"
  BY DEF BeforeTaxi
<1>2. "INCOMPLETE" \notin statuses /\ "UNCONFIRMED" \notin statuses
  BY <1>1 DEF Report
<1>3. Status(i) # "INCOMPLETE" /\ Status(i) # "UNCONFIRMED"
  BY <1>2
<1>4. CASE i \in progress.confirmed \cup progress.latched
  BY <1>4 DEF ProgressIsOfThisCockpit, Verified
<1>5. CASE i \notin progress.confirmed \cup progress.latched
  <2>1. Verdict(view, i) = "COMPLETE"
    BY <1>3, <1>5, VerdictReading DEF Status, Statuses
  <2>. QED
    BY <2>1, VerdictReading DEF Verified
<1>. QED
  BY <1>4, <1>5

LEMMA ReadyGround ==
    ASSUME view \in Picture, GroundPhase = "READY_FOR_TAXI"
    PROVE  view.wow = "wheels" /\ view.engines = "running" /\ BeforeTaxi = "READY"
<1>1. view.wow \in {"air", "wheels", "none"}
      /\ view.engines \in {"off", "starting", "running", "none"}
  BY DEF Picture
<1>. QED
  BY <1>1 DEF GroundPhase

LEMMA ViewStep ==
    ASSUME ContextAssumption, view \in Picture, [Next]_vars
    PROVE  view' \in Picture
<1>1. Dark \in Picture
  BY DEF Dark, Picture, Readings
<1>2. Cockpits \subseteq Picture
  BY DEF ContextAssumption
<1>. QED
  BY <1>1, <1>2 DEF Next, Update, Disconnect, Age, StartGuidedChecklist, StopGuidedChecklist,
                    ConfirmChecklistItem, Tick, vars

LEMMA ReadyInit == Init => view \in Picture
BY DEF Init, Dark, Picture, Readings

\* Neither the before-taxi report nor the ground phase calls the aircraft ready while
\* an item of the whole chain is unverified (ground_ops.py over checklists/engine.py).
THEOREM ReadyIsAlwaysVerified == Spec => []ReadyIsVerified
<1> DEFINE Inv == ProgressIsOfThisCockpit /\ ProgressTyped /\ view \in Picture
<1>1. Init => Inv
  BY ProgressInit, ReadyInit
<1>2. Inv /\ [Next]_vars => Inv'
  BY ProgressStep, ViewStep, ContextAssumption
<1>3. Inv => ReadyIsVerified
  BY ReadyItems, ReadyGround DEF ReadyIsVerified
<1>. QED
  BY <1>1, <1>2, <1>3, PTL DEF Spec

------------------------------------------------------------------------------
(* The Hornet adapter.                                                     *)


\* The adapter notes exactly since when the gear looks up.
GearInv ==
    /\ now \in Nat
    /\ upFor = adapter.upSince /\ upFor \in Nat \cup {Never}
    /\ GearUpHeld

\* A validated clock shows the time seen last, which has advanced when it was
\* first seen and was not set back.
ClockInv ==
    /\ now \in Nat
    /\ still.time # -1 => still.time = clock.last
    /\ clock.valid => /\ still.time # -1 /\ still.time = clock.last
                      /\ still.since = clock.advanced /\ ~still.rewound
    /\ SpeedsAreLive

\* The clock's record keeps its fields.
ModelClockTyped ==
    /\ clock \in [last : Int, advanced : Int, valid : BOOLEAN, position : Int]
    /\ still \in [time : Int, since : Int, at : Int, rewound : BOOLEAN]

LEMMA DarkGear == DarkPicture.gear = "none" /\ DarkPicture.ias = -1 /\ DarkPicture.ground = -1
BY DEF DarkPicture

------------------------------------------------------------------------------
(* What a picture shows.                                                   *)

LEMMA NormalizeGear ==
    ASSUME GearInv, NEW image, Normalize(image), UNCHANGED now
    PROVE  GearInv'
<1> DEFINE s == image.switches
<1>1. adapter'.upSince = UpSince(s) /\ shown'.gear = GearState(s, UpSince(s))
  BY DEF Normalize
<1>2. upFor' = UpSince(s)
  BY DEF GearInv, Normalize, UpSince
<1>3. UpSince(s) \in Nat \cup {Never}
  BY DEF GearInv, UpSince
<1>4. ASSUME shown'.gear = "up" PROVE UpSince(s) # Never /\ now - UpSince(s) >= GearDwell
  <2>1. LooksUp(s) /\ now - UpSince(s) >= GearDwell
    BY <1>1, <1>4 DEF GearState
  <2>2. UpSince(s) # Never
    BY <2>1 DEF UpSince, GearInv, Never
  <2>. QED
    BY <2>1, <2>2
<1>. QED
  BY <1>1, <1>2, <1>3, <1>4 DEF GearInv, GearUpHeld

\* What _observe_model_time makes of a time, against what has been seen of it.
LEMMA AdvancedClock ==
    ASSUME ClockInv, ModelClockTyped, NEW image \in Images, HornetAssumption,
           Normalize(image), UNCHANGED now
    PROVE  /\ clock'.last = Advanced(image.numbers.time).last
           /\ clock'.valid = Advanced(image.numbers.time).valid
           /\ clock'.advanced = Advanced(image.numbers.time).advanced
           /\ still'.at = now
           /\ still'.time # -1 => still'.time = clock'.last
           /\ clock'.valid => /\ still'.time # -1 /\ still'.time = clock'.last
                              /\ still'.since = clock'.advanced /\ ~still'.rewound
           /\ ModelClockTyped'
<1> DEFINE time == image.numbers.time
<1>0. time \in Int /\ image.numbers.speed \in Int
  BY DEF HornetAssumption, Numbers
<1>a. PICK c : c = Advanced(time)
  OBVIOUS
<1>b. PICK position \in Int : clock' = [c EXCEPT !.position = position]
  <2>1. CASE Healthy(c) /\ image.numbers.speed # -1
    BY <1>0, <1>a, <2>1 DEF Normalize
  <2>2. CASE ~(Healthy(c) /\ image.numbers.speed # -1)
    <3>1. clock' = [c EXCEPT !.position = -1]
      BY <1>a, <2>2 DEF Normalize
    <3>. QED
      BY <3>1
  <2>. QED
    BY <2>1, <2>2
<1>c. c \in [last : Int, advanced : Int, valid : BOOLEAN, position : Int]
  <2>1. now \in Int
    BY DEF ClockInv
  <2>. QED
    BY <1>0, <1>a, <2>1 DEF Advanced, ModelClockTyped
<1>1. /\ clock'.last = Advanced(time).last /\ clock'.valid = Advanced(time).valid
      /\ clock'.advanced = Advanced(time).advanced
      /\ clock' \in [last : Int, advanced : Int, valid : BOOLEAN, position : Int]
  BY <1>a, <1>b, <1>c
<1>2. /\ clock'.last = IF time = -1 THEN clock.last ELSE time
      /\ clock'.valid <=> /\ time # -1 /\ clock.last # -1
                          /\ time > clock.last \/ (time = clock.last /\ clock.valid)
      /\ clock'.advanced = IF time # -1 /\ clock.last # -1 /\ time > clock.last
                           THEN now ELSE clock.advanced
  BY <1>1 DEF Advanced, ModelClockTyped
<1>3. /\ still'.time = time /\ still'.at = now
      /\ still'.since = IF still.time = time THEN still.since ELSE now
      /\ still'.rewound <=> IF still.time = time THEN still.rewound
                            ELSE time # -1 /\ time =< clock.last
      /\ still' \in [time : Int, since : Int, at : Int, rewound : BOOLEAN]
  <2>0. now \in Int
    BY DEF ClockInv
  <2>1. CASE still.time = time
    <3>1. still' = [still EXCEPT !.at = now]
      BY <2>1 DEF Normalize
    <3>. QED
      BY <2>0, <2>1, <3>1 DEF ModelClockTyped
  <2>2. CASE still.time # time
    <3>1. still' = [time |-> time, since |-> now, at |-> now,
                    rewound |-> time # -1 /\ time =< clock.last]
      BY <2>2 DEF Normalize
    <3>. QED
      BY <1>0, <2>0, <2>2, <3>1
  <2>. QED
    BY <2>1, <2>2
<1>4. clock.last \in Int
  BY DEF ModelClockTyped
<1>5. ASSUME clock'.valid
      PROVE  still'.since = clock'.advanced /\ ~still'.rewound
  <2>1. CASE time > clock.last
    <3>1. still.time # time
      BY <1>0, <1>2, <1>4, <1>5, <2>1 DEF ClockInv
    <3>. QED
      BY <1>0, <1>2, <1>3, <1>4, <1>5, <2>1, <3>1
  <2>2. CASE time = clock.last /\ clock.valid
    BY <1>2, <1>3, <1>4, <2>2 DEF ClockInv
  <2>. QED
    BY <1>2, <1>5, <2>1, <2>2
<1>. QED
  BY <1>1, <1>2, <1>3, <1>5 DEF ModelClockTyped

LEMMA NormalizeSpeeds ==
    ASSUME ClockInv, ModelClockTyped, NEW image \in Images, HornetAssumption,
           Normalize(image), UNCHANGED now
    PROVE  ClockInv' /\ ModelClockTyped'
<1>1. ASSUME shown'.ias # -1 \/ shown'.ground # -1
      PROVE  Healthy(Advanced(image.numbers.time))
  BY <1>1 DEF Normalize
<1>2. ASSUME Healthy(Advanced(image.numbers.time))
      PROVE  clock'.valid /\ now - clock'.advanced =< Health
  BY <1>2, AdvancedClock DEF Healthy
<1>3. SpeedsAreLive'
  BY <1>1, <1>2, AdvancedClock DEF SpeedsAreLive
<1>. QED
  BY <1>3, AdvancedClock DEF ClockInv

------------------------------------------------------------------------------
(* The gear and the speeds.                                                *)

\* Before the gear is shown up, every picture of a whole dwell time had the lever
\* up and no light lit (FA18CAdapter's candidate timer, aircraft/fa18c.py).
THEOREM GearIsHeld == HornetSpec => []GearUpHeld
<1>1. HornetInit => GearInv
  BY DarkGear DEF HornetInit, GearInv, GearUpHeld, Never
<1>2. GearInv /\ [HornetNext]_hornetVars => GearInv'
  <2> SUFFICES ASSUME GearInv, [HornetNext]_hornetVars PROVE GearInv'
    OBVIOUS
  <2>1. ASSUME NEW image \in Images, UpdateHornet(image) \/ Snapshot(image) PROVE GearInv'
    BY <2>1, NormalizeGear DEF UpdateHornet, Snapshot
  <2>2. CASE Leave
    BY <2>2, DarkGear DEF Leave, GearInv, GearUpHeld
  <2>3. CASE HornetTick
    <3>1. now' = now + 1 /\ shown' = shown /\ upFor' = upFor /\ adapter' = adapter
      BY <2>3 DEF HornetTick, history
    <3>. QED
      BY <3>1, HornetAssumption DEF GearInv, GearUpHeld, HornetAssumption, Never
  <2>4. CASE UNCHANGED hornetVars
    BY <2>4 DEF hornetVars, history, GearInv, GearUpHeld
  <2>. QED
    BY <2>1, <2>2, <2>3, <2>4 DEF HornetNext
<1>3. GearInv => GearUpHeld
  BY DEF GearInv
<1>. QED
  BY <1>1, <1>2, <1>3, PTL DEF HornetSpec

\* Airspeed and ground speed are shown only from a model clock that is usable, has
\* advanced within the health timeout and was not set back (aircraft/generic.py).
THEOREM SpeedsAreAlwaysLive == HornetSpec => []SpeedsAreLive
<1> DEFINE Inv == ClockInv /\ ModelClockTyped
<1>1. HornetInit => Inv
  BY DarkGear DEF HornetInit, ClockInv, ModelClockTyped, SpeedsAreLive, Never
<1>2. Inv /\ [HornetNext]_hornetVars => Inv'
  <2> SUFFICES ASSUME ClockInv, ModelClockTyped, [HornetNext]_hornetVars PROVE ClockInv' /\ ModelClockTyped'
    OBVIOUS
  <2>1. ASSUME NEW image \in Images, UpdateHornet(image) \/ Snapshot(image) PROVE ClockInv' /\ ModelClockTyped'
    BY <2>1, NormalizeSpeeds, HornetAssumption DEF UpdateHornet, Snapshot
  <2>2. CASE Leave
    BY <2>2, DarkGear DEF Leave, ClockInv, ModelClockTyped, SpeedsAreLive
  <2>3. CASE HornetTick
    BY <2>3 DEF HornetTick, history, ClockInv, ModelClockTyped, SpeedsAreLive
  <2>4. CASE UNCHANGED hornetVars
    BY <2>4 DEF hornetVars, history, ClockInv, ModelClockTyped, SpeedsAreLive
  <2>. QED
    BY <2>1, <2>2, <2>3, <2>4 DEF HornetNext
<1>3. Inv => SpeedsAreLive
  BY DEF ClockInv
<1>. QED
  BY <1>1, <1>2, <1>3, PTL DEF HornetSpec

\* Whatever the adapter derives over time stands on a live history: gear up on a
\* dwell time of pictures, speeds on a clock that runs (fa18c.py, generic.py).
THEOREM DerivedAlwaysHeld == HornetSpec => []DerivedAreHeld
<1>1. GearUpHeld /\ SpeedsAreLive => DerivedAreHeld
  BY DEF DerivedAreHeld
<1>. QED
  BY <1>1, GearIsHeld, SpeedsAreAlwaysLive, PTL

------------------------------------------------------------------------------
(* Reports and rules.                                                      *)

\* A report is READY only when each of its items is complete.
LEMMA ReportReady ==
    ASSUME NEW statuses, Report(statuses) = "READY"
    PROVE  "INCOMPLETE" \notin statuses /\ "UNCONFIRMED" \notin statuses
BY DEF Report

LEMMA ExpectedComplete ==
    ASSUME NEW value, NEW wanted,
           Expected(value, wanted) # "INCOMPLETE", Expected(value, wanted) # "UNCONFIRMED"
    PROVE  value = wanted /\ value # "none"
BY DEF Expected

\* An aircraft that is ready for takeoff has everything as the gate wants it.
LEMMA ReadyPicture ==
    ASSUME NEW p, NEW op, p.brake \in Int, TakeoffReadiness(p, op) = "READY"
    PROVE  /\ p.switches.flaps = "half" /\ p.gear = "down" /\ p.switches.hook = "no"
           /\ p.switches.arm = "safe" /\ p.switches.seat = "yes" /\ p.switches.obogs = "yes"
           /\ p.switches.canopy = "closed" /\ p.trim = "yes" /\ p.switches.wings = "yes"
           /\ p.switches.caution = "no" /\ p.brake =< 5
<1> DEFINE statuses == TakeoffGate(p) \cup {LaunchBar(p, op)}
<1>1. Report(statuses) = "READY"
  BY DEF TakeoffReadiness
<1>2. \A x \in TakeoffGate(p) : x # "INCOMPLETE" /\ x # "UNCONFIRMED"
  BY <1>1, ReportReady
<1>3. \A value, wanted : Expected(value, wanted) \in TakeoffGate(p) => value = wanted
  BY <1>2, ExpectedComplete
<1>4. p.brake =< 5
  BY <1>2 DEF TakeoffGate
<1>. QED
  BY <1>3, <1>4 DEF TakeoffGate

LEMMA ReadyUnwarned ==
    ASSUME NEW p, NEW op, NEW f, NEW held, p.brake \in Int, TakeoffReadiness(p, op) = "READY"
    PROVE  Issues(p, f, held) \cap Readies = {}
<1> SUFFICES ASSUME NEW rule \in Readies PROVE rule \notin Issues(p, f, held)
  OBVIOUS
<1>1. rule \notin LaunchIssues(p, f)
  BY ReadyPicture DEF LaunchIssues, If, Readies
<1>2. rule \notin DepartureIssues(p, f)
  BY DEF DepartureIssues, If, Readies
<1>3. rule \notin FlightIssues(p, f)
  BY ReadyPicture DEF FlightIssues, If, Readies
<1>4. rule \notin RecoveryIssues(p, f)
  BY DEF RecoveryIssues, If, Readies
<1>5. rule \notin MovingIssues(p, f, held)
  BY ReadyPicture DEF MovingIssues, If, Readies
<1>6. rule \notin PhaseIssues(p, f)
  BY ReadyPicture DEF PhaseIssues, If, Readies
<1>. QED
  BY <1>1, <1>2, <1>3, <1>4, <1>5, <1>6 DEF Issues

LEMMA CleanUnwarned ==
    ASSUME NEW p, NEW f, NEW held, DepartureCleanup(p, f) = "READY"
    PROVE  DepartureIssues(p, f) \cup (Issues(p, f, held) \cap {"FA18_GEAR_OVERSPEED"}) = {}
<1>1. Report({Expected(p.gear, "up"), Expected(p.switches.flaps, "auto"),
              Expected(p.switches.bar, "no")}) = "READY"
  BY DEF DepartureCleanup
<1>2. p.gear = "up" /\ p.switches.flaps = "auto" /\ p.switches.bar = "no"
  BY <1>1, ReportReady, ExpectedComplete
<1>3. DepartureIssues(p, f) = {}
  BY <1>2 DEF DepartureIssues, If
<1>4. "FA18_GEAR_OVERSPEED" \notin Issues(p, f, held)
  BY <1>2, <1>3 DEF Issues, LaunchIssues, FlightIssues, RecoveryIssues, MovingIssues, PhaseIssues, If
<1>. QED
  BY <1>3, <1>4

\* No picture the adapter can show is reported ready for takeoff, or cleaned up
\* after it, while a rule covered by that report is violated (ground_ops.py and
\* flight_ops.py against rules/fa18c).
THEOREM ReportsAlwaysAgree == HornetSpec => []ReportsAgreeWithRules
<1>1. HornetInit => shown.brake \in Int
  BY DEF HornetInit, DarkPicture
<1>2. shown.brake \in Int /\ [HornetNext]_hornetVars => (shown.brake \in Int)'
  <2> SUFFICES ASSUME shown.brake \in Int, [HornetNext]_hornetVars PROVE shown'.brake \in Int
    OBVIOUS
  <2>1. ASSUME NEW image \in Images, Normalize(image) PROVE shown'.brake \in Int
    <3>1. image.numbers.brake \in Int
      BY HornetAssumption DEF HornetAssumption, Numbers
    <3>. QED
      BY <2>1, <3>1 DEF Normalize
  <2>. QED
    BY <2>1 DEF HornetNext, UpdateHornet, Snapshot, Leave, HornetTick, DarkPicture, hornetVars
<1>3. shown.brake \in Int => ReportsAgreeWithRules
  BY ReadyUnwarned, CleanUnwarned DEF ReportsAgreeWithRules
<1>. QED
  BY <1>1, <1>2, <1>3, PTL DEF HornetSpec

------------------------------------------------------------------------------
(* The spatial coach.                                                      *)

\* Samples are taken at different times, none of them to come.
SamplesInOrder(x) ==
    \A i \in DOMAIN x.samples :
        /\ x.samples[i].at <= now
        /\ \A j \in DOMAIN x.samples : i < j => x.samples[i].at < x.samples[j].at

\* The exercise's condition is that of its last sample, and of every sample
\* since the condition began.
ConditionSteady(x) ==
    /\ x.samples = <<>> => x.condition = Nothing
    /\ x.samples # <<>> =>
          \E i \in DOMAIN x.samples :
              /\ x.samples[i].at = x.conditionSince
              /\ \A k \in i .. Len(x.samples) : x.samples[k].condition = x.condition

\* The exercise remembers when it spoke last and whether that was a low call.
SpeechRemembered(x, heard) ==
    /\ heard = <<>> => ~x.lowSpoken
    /\ heard # <<>> => /\ heard[Len(heard)].at = x.lastSpokenAt
                       /\ x.lowSpoken <=> heard[Len(heard)].code = "low"

\* In an echelon every sample has its zone and a closure warning stands while the
\* last sample shows one.
WarningStands(x) ==
    x.id \in Echelons =>
        /\ \A i \in DOMAIN x.samples : x.samples[i].zone \in Zones
        /\ x.warning <=> x.condition = "closure"

\* No segment begins after the last sample.
SegmentsStarted(x) ==
    x.id = "CASE1_PATTERN" => \A i \in DOMAIN x.segments : x.segments[i].started <= x.samples[Len(x.samples)].at

ExerciseInv(x, heard) ==
    /\ SamplesInOrder(x) /\ ConditionSteady(x)
    /\ HeldAndSpaced(x, heard) /\ SpeechRemembered(x, heard)
    /\ ZonesAddUp(x) /\ WarningStands(x)
    /\ SegmentsOrdered(x) /\ SegmentsStarted(x)

LEMMA PatternLength == Len(PatternPhases) = 9
BY DEF PatternPhases

LEMMA ConditionNamed ==
    ASSUME NEW e \in ExerciseId, NEW r \in Reading
    PROVE  Condition(e, r) \in Conditions
<1>1. r.formation \in Conditions /\ r.approach \in {"low", "diverging", "lineup", "fine"}
  BY DEF Reading, Conditions
<1>. QED
  BY <1>1 DEF Condition, Conditions, ExerciseId

LEMMA HoldsTyped ==
    ASSUME CoachAssumption, NEW e, NEW c
    PROVE  HoldTime(e, c) \in Nat /\ Cooldown(e) \in Nat
BY DEF CoachAssumption, HoldTime, Cooldown

LEMMA Created ==
    ASSUME CoachAssumption, now \in Times, NEW e \in ExerciseId
    PROVE  CreateExercise(e) \in Exercise /\ ExerciseInv(CreateExercise(e), <<>>)
<1>. DEFINE x == CreateExercise(e)
<1>1. x \in Exercise
  <2>1. -Cooldown(e) \in Int
    BY HoldsTyped
  <2>2. [z \in Zones |-> 0] \in [Zones -> Nat]
    OBVIOUS
  <2>3. 1 \in 1 .. Len(PatternPhases)
    BY PatternLength
  <2>. QED
    BY <2>1, <2>2, <2>3 DEF CreateExercise, Exercise
<1>2. /\ x.samples = <<>> /\ x.segments = <<>> /\ x.condition = Nothing /\ ~x.lowSpoken
      /\ ~x.warning /\ x.overshoots = 0 /\ \A z \in Zones : x.zoneSeconds[z] = 0
  BY DEF CreateExercise
<1>3. Nothing # "closure"
  BY DEF CoachAssumption, Conditions
<1>. HIDE DEF x
<1>4. Closures(x) = {} /\ \A z \in Zones : InZone(x, z) = {}
  BY <1>2 DEF InZone, Closures
<1>5. ZonesAddUp(x) /\ WarningStands(x)
  <2>1. ZonesAddUp(x)
    BY <1>2, <1>4, FS_EmptySet DEF ZonesAddUp
  <2>2. DOMAIN x.samples = {}
    BY <1>2
  <2>3. WarningStands(x)
    BY <1>2, <1>3, <2>2 DEF WarningStands
  <2>. QED
    BY <2>1, <2>3
<1>6. SegmentsOrdered(x) /\ SegmentsStarted(x)
  BY <1>2 DEF SegmentsOrdered, SegmentsStarted
<1>7. SamplesInOrder(x) /\ ConditionSteady(x) /\ HeldAndSpaced(x, <<>>) /\ SpeechRemembered(x, <<>>)
  BY <1>2 DEF SamplesInOrder, ConditionSteady, HeldAndSpaced, SpeechRemembered
<1>. QED
  BY <1>1, <1>5, <1>6, <1>7 DEF ExerciseInv, x

Extended(x, state, samples, zoneSeconds, condition, conditionSince, lastSpokenAt, lowSpoken,
         overshoots, warning, leg, segments) ==
    [x EXCEPT !.state = state, !.zoneSeconds = zoneSeconds, !.samples = samples,
        !.condition = condition, !.conditionSince = conditionSince,
        !.lastSpokenAt = lastSpokenAt, !.lowSpoken = lowSpoken,
        !.overshoots = overshoots, !.warning = warning, !.phase = leg,
        !.segments = segments]

LEMMA SegmentRecorded ==
    ASSUME now \in Times, NEW s \in Seq(Segment), NEW p \in 1 .. Len(PatternPhases)
    PROVE  LET g == Record(s, p)
               n == Len(s)
           IN  /\ g \in Seq(Segment)
               /\ n > 0 /\ s[n].phase = p =>
                     /\ Len(g) = n
                     /\ \A i \in 1 .. n :
                           /\ g[i].phase = s[i].phase /\ g[i].started = s[i].started
                           /\ g[i].ended = s[i].ended
                           /\ g[i].count = IF i = n THEN s[i].count + 1 ELSE s[i].count
               /\ ~(n > 0 /\ s[n].phase = p) =>
                     /\ Len(g) = n + 1
                     /\ \A i \in 1 .. n :
                           /\ g[i].phase = s[i].phase /\ g[i].started = s[i].started
                           /\ g[i].ended = IF i = n THEN now ELSE s[i].ended
                           /\ g[i].count = s[i].count
                     /\ g[n + 1] = [phase |-> p, started |-> now, ended |-> Nothing, count |-> 1]
<1>. DEFINE n == Len(s)
            new == [phase |-> p, started |-> now, ended |-> Nothing, count |-> 1]
            closed == [i \in 1 .. n |-> IF i = n THEN [s[n] EXCEPT !.ended = now] ELSE s[i]]
<1>1. n \in Nat /\ \A i \in 1 .. n : s[i] \in Segment
  OBVIOUS
<1>2. ASSUME NEW g \in Segment
      PROVE  /\ [g EXCEPT !.count = @ + 1] \in Segment /\ [g EXCEPT !.ended = now] \in Segment
             /\ [g EXCEPT !.count = @ + 1].phase = g.phase
             /\ [g EXCEPT !.count = @ + 1].started = g.started
             /\ [g EXCEPT !.count = @ + 1].ended = g.ended
             /\ [g EXCEPT !.count = @ + 1].count = g.count + 1
             /\ [g EXCEPT !.ended = now].phase = g.phase
             /\ [g EXCEPT !.ended = now].started = g.started
             /\ [g EXCEPT !.ended = now].ended = now
             /\ [g EXCEPT !.ended = now].count = g.count
  <2>1. g.count + 1 \in Nat
    BY DEF Segment
  <2>2. [g EXCEPT !.count = g.count + 1] \in Segment
    BY <2>1 DEF Segment
  <2>3. [g EXCEPT !.ended = now] \in Segment
    BY DEF Segment
  <2>. QED
    BY <2>2, <2>3 DEF Segment
<1>3. CASE n > 0 /\ s[n].phase = p
  <2>1. Record(s, p) = [s EXCEPT ![n] = [s[n] EXCEPT !.count = @ + 1]]
    BY <1>3 DEF Record
  <2>2. s[n] \in Segment /\ n \in 1 .. Len(s)
    BY <1>1, <1>3
  <2>. DEFINE g == [s[n] EXCEPT !.count = @ + 1]
  <2>3. /\ g \in Segment /\ g.phase = s[n].phase /\ g.started = s[n].started
        /\ g.ended = s[n].ended /\ g.count = s[n].count + 1
    BY <1>2, <2>2
  <2>. HIDE DEF g
  <2>4. /\ [s EXCEPT ![n] = g] \in Seq(Segment) /\ Len([s EXCEPT ![n] = g]) = n
        /\ \A i \in 1 .. n : [s EXCEPT ![n] = g][i] = IF i = n THEN g ELSE s[i]
    BY <2>2, <2>3, ExceptSeq
  <2>5. PICK h : h = [s EXCEPT ![n] = g]
    OBVIOUS
  <2>6. h = Record(s, p)
    BY <2>1, <2>5 DEF g
  <2>. HIDE DEF n
  <2>7. /\ h \in Seq(Segment) /\ Len(h) = n
        /\ \A i \in 1 .. n : h[i] = IF i = n THEN g ELSE s[i]
    BY <2>4, <2>5
  <2>. QED
    BY <1>3, <2>3, <2>6, <2>7 DEF n
<1>4. CASE ~(n > 0 /\ s[n].phase = p)
  <2>1. new \in Segment
    BY DEF Segment
  <2>2. closed \in Seq(Segment) /\ Len(closed) = n
    <3>1. \A i \in 1 .. n : (IF i = n THEN [s[n] EXCEPT !.ended = now] ELSE s[i]) \in Segment
      BY <1>1, <1>2
    <3>. QED
      BY <3>1, <1>1, IsASeq
  <2>3. Record(s, p) = Append(closed, new)
    BY <1>4 DEF Record
  <2>4. \A i \in 1 .. n :
           /\ closed[i].phase = s[i].phase /\ closed[i].started = s[i].started
           /\ closed[i].ended = IF i = n THEN now ELSE s[i].ended
           /\ closed[i].count = s[i].count
    BY <1>1, <1>2
  <2>. HIDE DEF closed, new
  <2>5. PICK h : h = Append(closed, new)
    OBVIOUS
  <2>6. /\ h \in Seq(Segment) /\ Len(h) = n + 1 /\ h[n + 1] = new
        /\ \A i \in 1 .. n : h[i] = closed[i]
    BY <2>1, <2>2, <2>5, AppendProperties
  <2>. QED
    BY <1>4, <2>3, <2>4, <2>5, <2>6 DEF new
<1>. QED
  BY <1>3, <1>4

LEMMA ZonesTyped ==
    ASSUME NEW zs \in [Zones -> Nat], NEW z \in Zones, NEW d \in Nat
    PROVE  [zs EXCEPT ![z] = @ + d] \in [Zones -> Nat]
<1>1. zs[z] + d \in Nat
  OBVIOUS
<1>. DEFINE v == zs[z] + d
<1>2. [zs EXCEPT ![z] = v] \in [Zones -> Nat]
  <2>. HIDE DEF v
  <2>. QED
    BY <1>1 DEF v
<1>. QED
  BY <1>2

\* One more sample leaves an exercise an exercise, with these fields.
LEMMA SampledFields ==
    ASSUME CoachAssumption, now \in Times, NEW x \in Exercise, NEW r \in Reading,
           SamplesInOrder(x), WarningStands(x)
    PROVE  LET y == Sampled(x, r)
               c == Condition(x.id, r)
               says == FeedbackFor(x, r) # <<>>
           IN  /\ y \in Exercise
               /\ y.id = x.id
               /\ y.samples = Append(x.samples, SampleOf(x, r))
               /\ y.zoneSeconds = ZoneTimes(x)
               /\ y.condition = c
               /\ y.conditionSince = IF c # x.condition THEN now ELSE x.conditionSince
               /\ y.lastSpokenAt = IF says THEN now ELSE x.lastSpokenAt
               /\ y.lowSpoken = IF says THEN c = "low" ELSE x.lowSpoken
               /\ y.overshoots = IF x.id \in Echelons /\ c = "closure" /\ ~x.warning
                                 THEN x.overshoots + 1 ELSE x.overshoots
               /\ y.warning = (x.id \in Echelons /\ c = "closure")
               /\ y.phase = PhaseAfter(x, r)
               /\ y.segments = IF x.id = "CASE1_PATTERN" THEN Record(x.segments, PhaseAfter(x, r))
                               ELSE x.segments
               /\ SampleOf(x, r) \in Sample /\ PhaseAfter(x, r) \in 1 .. Len(PatternPhases)
<1>. DEFINE c == Condition(x.id, r)
            says == FeedbackFor(x, r) # <<>>
            closing == x.id \in Echelons /\ c = "closure"
            samples == Append(x.samples, SampleOf(x, r))
            since == IF c # x.condition THEN now ELSE x.conditionSince
            spoken == IF says THEN now ELSE x.lastSpokenAt
            low == IF says THEN c = "low" ELSE x.lowSpoken
            over == IF closing /\ ~x.warning THEN x.overshoots + 1 ELSE x.overshoots
            segments == IF x.id = "CASE1_PATTERN" THEN Record(x.segments, PhaseAfter(x, r))
                        ELSE x.segments
<1>1. /\ x.id \in ExerciseId /\ x.samples \in Seq(Sample) /\ x.zoneSeconds \in [Zones -> Nat]
      /\ x.conditionSince \in Times /\ x.lastSpokenAt \in Int /\ x.lowSpoken \in BOOLEAN
      /\ x.overshoots \in Nat /\ x.phase \in 1 .. Len(PatternPhases) /\ x.segments \in Seq(Segment)
  BY DEF Exercise
<1>2. c \in Conditions
  BY <1>1, ConditionNamed
<1>3. SampleOf(x, r) \in Sample
  <2>1. r.zone \in Zones
    BY DEF Reading
  <2>. QED
    BY <1>2, <2>1 DEF SampleOf, Sample
<1>4. samples \in Seq(Sample)
  BY <1>1, <1>3, AppendProperties
<1>5. PhaseAfter(x, r) \in 1 .. Len(PatternPhases)
  <2>1. CASE x.id = "CASE1_PATTERN" /\ r.advance /\ x.phase < Len(PatternPhases)
    <3>1. PhaseAfter(x, r) = x.phase + 1
      BY <2>1 DEF PhaseAfter
    <3>2. x.phase \in 1 .. Len(PatternPhases) /\ x.phase < Len(PatternPhases)
      BY <2>1, <1>1
    <3>. QED
      BY ONLY <3>1, <3>2, PatternLength
  <2>2. CASE ~(x.id = "CASE1_PATTERN" /\ r.advance /\ x.phase < Len(PatternPhases))
    <3>1. PhaseAfter(x, r) = x.phase
      BY <2>2 DEF PhaseAfter
    <3>. QED
      BY <3>1, <1>1
  <2>. QED
    BY <2>1, <2>2
<1>6. segments \in Seq(Segment)
  BY <1>1, <1>5, SegmentRecorded
<1>7. ZoneTimes(x) \in [Zones -> Nat]
  <2>1. CASE x.id \in Echelons /\ x.samples # <<>>
    <3>. DEFINE n == Len(x.samples)
    <3>1. n \in DOMAIN x.samples /\ x.samples[n] \in Sample
      BY <2>1, <1>1
    <3>2. x.samples[n].zone \in Zones /\ x.samples[n].at <= now /\ x.samples[n].at \in Nat /\ now \in Nat
      BY <2>1, <3>1 DEF SamplesInOrder, WarningStands, Sample, Times, CoachAssumption
    <3>3. now - x.samples[n].at \in Nat
      BY <3>2
    <3>4. ZoneTimes(x) = [x.zoneSeconds EXCEPT ![x.samples[n].zone] = @ + (now - x.samples[n].at)]
      BY <2>1 DEF ZoneTimes, Last
    <3>. DEFINE z == x.samples[n].zone
                d == now - x.samples[n].at
    <3>5. ZoneTimes(x) = [x.zoneSeconds EXCEPT ![z] = @ + d] /\ z \in Zones /\ d \in Nat
      BY <3>2, <3>3, <3>4
    <3>. HIDE DEF z, d
    <3>. QED
      BY <3>5, <1>1, ZonesTyped, SMTT(30)
  <2>2. CASE ~(x.id \in Echelons /\ x.samples # <<>>)
    BY <2>2, <1>1 DEF ZoneTimes
  <2>. QED
    BY <2>1, <2>2
<1>8. since \in Times /\ spoken \in Int /\ low \in BOOLEAN /\ over \in Nat /\ closing \in BOOLEAN
  <2>1. now \in Int
    BY DEF Times, CoachAssumption
  <2>2. since \in Times
    BY <1>1
  <2>3. spoken \in Int
    BY <1>1, <2>1
  <2>4. low \in BOOLEAN
    BY <1>1, Zenon
  <2>5. over \in Nat
    BY <1>1
  <2>6. closing \in BOOLEAN
    BY Zenon
  <2>. QED
    BY <2>2, <2>3, <2>4, <2>5, <2>6
<1>9. Sampled(x, r) =
        Extended(x, "ACTIVE", samples, ZoneTimes(x), c, since, spoken, low, over, closing,
                 PhaseAfter(x, r), segments)
  BY Zenon DEF Sampled, Extended
<1>10. /\ Sampled(x, r) \in Exercise /\ Sampled(x, r).id = x.id /\ Sampled(x, r).samples = samples
       /\ Sampled(x, r).zoneSeconds = ZoneTimes(x) /\ Sampled(x, r).condition = c
       /\ Sampled(x, r).conditionSince = since /\ Sampled(x, r).lastSpokenAt = spoken
       /\ Sampled(x, r).lowSpoken = low /\ Sampled(x, r).overshoots = over
       /\ Sampled(x, r).warning = closing /\ Sampled(x, r).phase = PhaseAfter(x, r)
       /\ Sampled(x, r).segments = segments
  <2>. HIDE DEF c, since, spoken, low, over, closing, samples, segments
  <2>1. "ACTIVE" \in {"ACTIVE", "PAUSED"} /\ c \in Conditions \cup {Nothing}
    BY <1>2
  <2>. DEFINE y == Extended(x, "ACTIVE", samples, ZoneTimes(x), c, since, spoken, low, over, closing,
                 PhaseAfter(x, r), segments)
  <2>2. /\ y \in Exercise /\ y.id = x.id /\ y.samples = samples
        /\ y.zoneSeconds = ZoneTimes(x) /\ y.condition = c
        /\ y.conditionSince = since /\ y.lastSpokenAt = spoken
        /\ y.lowSpoken = low /\ y.overshoots = over
        /\ y.warning = closing /\ y.phase = PhaseAfter(x, r) /\ y.segments = segments
    BY ONLY <2>1, <1>4, <1>5, <1>6, <1>7, <1>8, x \in Exercise DEF Exercise, Extended
  <2>3. Sampled(x, r) = y
    BY <1>9
  <2>. HIDE DEF y
  <2>. QED
    BY <2>2, <2>3
<1>. QED
  BY <1>3, <1>5, <1>10

\* What is said is of the condition that has held, after the cooldown, and still
\* low only after a low call.
LEMMA FeedbackGiven ==
    ASSUME CoachAssumption, now \in Times, NEW x \in Exercise, NEW r \in Reading
    PROVE  LET c == Condition(x.id, r)
               s == [code |-> c, at |-> now,
                     still |-> x.id = "CARRIER_APPROACH" /\ x.lowSpoken /\ r.approach = "diverging"]
           IN  /\ s \in Said
               /\ s.still => c = "low" /\ x.lowSpoken
               /\ FeedbackFor(x, r) # <<>> =>
                     /\ FeedbackFor(x, r) = <<s>> /\ c = x.condition
                     /\ now - x.conditionSince >= HoldTime(x.id, c)
                     /\ now - x.lastSpokenAt >= Cooldown(x.id)
<1>. DEFINE c == Condition(x.id, r)
            s == [code |-> c, at |-> now,
                  still |-> x.id = "CARRIER_APPROACH" /\ x.lowSpoken /\ r.approach = "diverging"]
<1>1. x.id \in ExerciseId /\ x.conditionSince \in Int /\ x.lastSpokenAt \in Int /\ now \in Int
  BY DEF Exercise, Times, CoachAssumption
<1>2. c \in Conditions
  BY <1>1, ConditionNamed
<1>3. s \in Said
  <2>1. (x.id = "CARRIER_APPROACH" /\ x.lowSpoken /\ r.approach = "diverging") \in BOOLEAN
    BY Zenon
  <2>. QED
    BY <1>2, <2>1 DEF Said
<1>4. ASSUME s.still PROVE c = "low" /\ x.lowSpoken
  <2>1. x.id = "CARRIER_APPROACH" /\ x.lowSpoken /\ r.approach = "diverging"
    BY <1>4, Zenon
  <2>2. x.id \notin Echelons
    BY <2>1 DEF Echelons
  <2>. QED
    BY <2>1, <2>2 DEF Condition
<1>5. ASSUME FeedbackFor(x, r) # <<>>
      PROVE  /\ FeedbackFor(x, r) = <<s>> /\ c = x.condition
             /\ ~(now - x.conditionSince < HoldTime(x.id, c))
             /\ ~(now - x.lastSpokenAt < Cooldown(x.id))
  BY <1>5, Zenon DEF FeedbackFor
<1>6. ASSUME FeedbackFor(x, r) # <<>>
      PROVE  /\ now - x.conditionSince >= HoldTime(x.id, c)
             /\ now - x.lastSpokenAt >= Cooldown(x.id)
  <2>. HIDE DEF c
  <2>. QED
    BY <1>1, <1>5, <1>6, HoldsTyped, SMTT(30)
<1>. QED
  BY <1>3, <1>4, <1>5, <1>6

LEMMA SpeechSampled ==
    ASSUME CoachAssumption, now \in Times, NEW x \in Exercise, NEW r \in Reading,
           NEW heard \in Seq(Said), ExerciseInv(x, heard),
           x.samples # <<>> => now > Last(x.samples).at
    PROVE  LET y == Sampled(x, r)
               g == heard \o FeedbackFor(x, r)
           IN  /\ SamplesInOrder(y) /\ ConditionSteady(y)
               /\ HeldAndSpaced(y, g) /\ SpeechRemembered(y, g)
               /\ g \in Seq(Said)
<1>. DEFINE c == Condition(x.id, r)
            n == Len(x.samples)
<1>0. SamplesInOrder(x) /\ ConditionSteady(x) /\ HeldAndSpaced(x, heard) /\ SpeechRemembered(x, heard)
      /\ WarningStands(x)
  BY DEF ExerciseInv
<1>1. PICK y : /\ y = Sampled(x, r) /\ y \in Exercise /\ y.id = x.id
               /\ y.samples = Append(x.samples, SampleOf(x, r)) /\ y.condition = c
               /\ y.conditionSince = IF c # x.condition THEN now ELSE x.conditionSince
               /\ y.lastSpokenAt = IF FeedbackFor(x, r) # <<>> THEN now ELSE x.lastSpokenAt
               /\ y.lowSpoken = IF FeedbackFor(x, r) # <<>> THEN c = "low" ELSE x.lowSpoken
               /\ SampleOf(x, r) \in Sample
  BY <1>0, SampledFields
<1>2. /\ x.samples \in Seq(Sample) /\ n \in Nat
      /\ \A i \in 1 .. n : x.samples[i].at \in Nat
      /\ now \in Nat /\ x.id \in ExerciseId /\ x.conditionSince \in Nat /\ x.lastSpokenAt \in Int
  <2>1. /\ x.samples \in Seq(Sample) /\ x.id \in ExerciseId /\ x.conditionSince \in Times
        /\ x.lastSpokenAt \in Int
    BY DEF Exercise
  <2>2. now \in Nat /\ x.conditionSince \in Nat
    BY <2>1 DEF Times, CoachAssumption
  <2>3. n \in Nat /\ \A i \in 1 .. n : x.samples[i] \in Sample
    BY <2>1
  <2>4. \A i \in 1 .. n : x.samples[i].at \in Nat
    BY <2>3 DEF Times, CoachAssumption, Sample
  <2>. QED
    BY <2>1, <2>2, <2>3, <2>4
<1>3. /\ Len(y.samples) = n + 1 /\ DOMAIN y.samples = 1 .. n + 1 /\ DOMAIN x.samples = 1 .. n
      /\ \A i \in 1 .. n : y.samples[i] = x.samples[i]
      /\ y.samples[n + 1].at = now /\ y.samples[n + 1].condition = c
  <2>1. SampleOf(x, r).at = now /\ SampleOf(x, r).condition = c
    BY DEF SampleOf
  <2>. HIDE DEF c
  <2>. QED
    BY <1>1, <1>2, <2>1, AppendProperties, SMTT(30)
<1>4. \A i \in 1 .. n : x.samples[i].at < now
  <2>1. ASSUME NEW i \in 1 .. n PROVE x.samples[i].at < now
    <3>1. x.samples # <<>> /\ n \in 1 .. n
      BY <1>2
    <3>2. x.samples[n].at < now
      BY <3>1, <1>2 DEF Last
    <3>3. i < n => x.samples[i].at < x.samples[n].at
      BY <3>1, <1>0, <1>3 DEF SamplesInOrder
    <3>4. x.samples[i].at \in Nat /\ x.samples[n].at \in Nat /\ now \in Nat
      BY <3>1, <1>2
    <3>5. i < n \/ i = n
      BY <1>2
    <3>. QED
      BY ONLY <3>2, <3>3, <3>4, <3>5
  <2>. QED
    BY <2>1
<1>5. c \in Conditions /\ c # Nothing
  <2>0. x.id \in ExerciseId
    BY <1>2
  <2>1. c \in Conditions
    BY <2>0, ConditionNamed
  <2>. HIDE DEF c
  <2>. QED
    BY <2>1 DEF CoachAssumption
<1>. HIDE DEF c, n
<1>6. SamplesInOrder(y)
  <2>1. ASSUME NEW i \in 1 .. n + 1
        PROVE  y.samples[i].at <= now /\ \A j \in 1 .. n + 1 : i < j => y.samples[i].at < y.samples[j].at
    <3>1. CASE i = n + 1
      <4>1. y.samples[i].at = now /\ \A j \in 1 .. n + 1 : ~(i < j)
        BY <3>1, <1>2, <1>3
      <4>2. y.samples[i].at <= now
        BY <4>1, <1>2
      <4>. QED
        BY ONLY <4>1, <4>2
    <3>2. CASE i \in 1 .. n
      <4>1. y.samples[i].at < now
        BY <3>2, <1>3, <1>4
      <4>2. \A j \in 1 .. n : i < j => y.samples[i].at < y.samples[j].at
        BY <3>2, <1>0, <1>3 DEF SamplesInOrder
      <4>3. y.samples[i].at \in Nat
        BY <3>2, <1>2, <1>3
      <4>4. ASSUME NEW j \in 1 .. n + 1, i < j PROVE y.samples[i].at < y.samples[j].at
        <5>1. CASE j = n + 1
          BY <4>1, <5>1, <1>3
        <5>2. CASE j \in 1 .. n
          BY <4>2, <4>4, <5>2
        <5>. QED
          BY <5>1, <5>2, <1>2
      <4>5. y.samples[i].at <= now
        <5>1. now \in Nat
          BY <1>2
        <5>. QED
          BY ONLY <4>1, <4>3, <5>1
      <4>. QED
        BY <4>4, <4>5
    <3>. QED
      BY <3>1, <3>2, <1>2, SMTT(30)
  <2>. QED
    BY <2>1, <1>3 DEF SamplesInOrder
<1>7. \E i \in 1 .. n + 1 : /\ y.samples[i].at = y.conditionSince
                            /\ \A k \in i .. n + 1 : y.samples[k].condition = c
  <2>1. CASE c = x.condition
    <3>1. x.samples # <<>>
      BY <2>1, <1>0, <1>5 DEF ConditionSteady
    <3>2. PICK i \in 1 .. n : /\ x.samples[i].at = x.conditionSince
                              /\ \A k \in i .. n : x.samples[k].condition = x.condition
      BY <3>1, <1>0, <1>3 DEF ConditionSteady, n
    <3>3. \A k \in i .. n + 1 : y.samples[k].condition = c
      <4>1. ASSUME NEW k \in i .. n + 1 PROVE y.samples[k].condition = c
        <5>1. CASE k = n + 1
          BY <5>1, <1>3
        <5>2. CASE k # n + 1
          <6>1. k \in i .. n /\ k \in 1 .. n
            BY <5>2, <1>2
          <6>. QED
            BY <6>1, <3>2, <2>1, <1>3
        <5>. QED
          BY <5>1, <5>2
      <4>. QED
        BY <4>1
    <3>4. i \in 1 .. n + 1 /\ y.samples[i].at = y.conditionSince
      BY <3>2, <2>1, <1>1, <1>2, <1>3
    <3>. QED
      BY <3>3, <3>4
  <2>2. CASE c # x.condition
    <3>1. n + 1 \in 1 .. n + 1 /\ y.samples[n + 1].at = y.conditionSince
      BY <2>2, <1>1, <1>2, <1>3
    <3>2. \A k \in n + 1 .. n + 1 : y.samples[k].condition = c
      BY <1>2, <1>3
    <3>. QED
      BY <3>1, <3>2
  <2>. QED
    BY <2>1, <2>2
<1>8. ConditionSteady(y)
  <2>1. y.samples # <<>>
    BY <1>2, <1>3
  <2>. QED
    BY <2>1, <1>1, <1>3, <1>7 DEF ConditionSteady
<1>9. ASSUME NEW f, HeldBefore(x, f) PROVE HeldBefore(y, f)
  <2>1. PICK i \in 1 .. n, j \in 1 .. n :
          /\ i <= j /\ x.samples[j].at = f.at
          /\ \A k \in i .. j : x.samples[k].condition = f.code
          /\ x.samples[j].at - x.samples[i].at >= HoldTime(x.id, f.code)
    BY <1>3, <1>9 DEF HeldBefore
  <2>2. i \in 1 .. n + 1 /\ j \in 1 .. n + 1 /\ \A k \in i .. j : k \in 1 .. n
    BY <1>2
  <2>3. \A k \in i .. j : y.samples[k].condition = f.code
    BY <2>1, <2>2, <1>3
  <2>. QED
    BY <2>1, <2>2, <2>3, <1>1, <1>3 DEF HeldBefore
<1>10. CASE FeedbackFor(x, r) = <<>>
  <2>1. heard \o FeedbackFor(x, r) = heard
    BY <1>10, ConcatEmptySeq
  <2>2. HeldAndSpaced(y, heard)
    BY <1>0, <1>1, <1>9 DEF HeldAndSpaced
  <2>3. SpeechRemembered(y, heard)
    BY <1>0, <1>1, <1>10 DEF SpeechRemembered
  <2>. QED
    BY <2>1, <2>2, <2>3, <1>1, <1>6, <1>8
<1>11. CASE FeedbackFor(x, r) # <<>>
  <2>. DEFINE m == Len(heard)
  <2>1. PICK s : /\ s \in Said /\ s.code = c /\ s.at = now
                 /\ s.still => c = "low" /\ x.lowSpoken
                 /\ FeedbackFor(x, r) = <<s>> /\ c = x.condition
                 /\ now - x.conditionSince >= HoldTime(x.id, c)
                 /\ now - x.lastSpokenAt >= Cooldown(x.id)
    <3>. DEFINE t == [code |-> Condition(x.id, r), at |-> now,
                      still |-> x.id = "CARRIER_APPROACH" /\ x.lowSpoken /\ r.approach = "diverging"]
    <3>1. t.code = c /\ t.at = now
      BY DEF c
    <3>2. /\ t \in Said
          /\ t.still => c = "low" /\ x.lowSpoken
          /\ FeedbackFor(x, r) = <<t>> /\ c = x.condition
          /\ now - x.conditionSince >= HoldTime(x.id, c)
          /\ now - x.lastSpokenAt >= Cooldown(x.id)
      BY <1>11, FeedbackGiven, Zenon DEF c
    <3>. HIDE DEF t
    <3>. QED
      BY <3>1, <3>2
  <2>2. PICK g : g = heard \o FeedbackFor(x, r)
    OBVIOUS
  <2>3. /\ g \in Seq(Said) /\ Len(g) = m + 1 /\ m \in Nat
        /\ \A i \in 1 .. m : g[i] = heard[i]
        /\ g[m + 1] = s
    <3>1. <<s>> \in Seq(Said) /\ Len(<<s>>) = 1 /\ <<s>>[1] = s /\ m \in Nat
      BY <2>1
    <3>2. g = heard \o <<s>>
      BY <2>1, <2>2
    <3>. QED
      BY <3>1, <3>2, ConcatProperties
  <2>. HIDE DEF m
  <2>4. HeldBefore(y, s)
    <3>1. PICK i \in 1 .. n + 1 : /\ y.samples[i].at = y.conditionSince
                                  /\ \A k \in i .. n + 1 : y.samples[k].condition = c
      BY <1>7
    <3>2. n + 1 \in 1 .. n + 1 /\ i <= n + 1 /\ y.samples[n + 1].at = s.at
      BY <2>1, <1>2, <1>3
    <3>3. y.samples[n + 1].at - y.samples[i].at >= HoldTime(y.id, s.code)
      BY <3>1, <2>1, <1>1, <1>3
    <3>4. \A k \in i .. n + 1 : y.samples[k].condition = s.code
      BY <3>1, <2>1
    <3>. QED
      BY <3>2, <3>3, <3>4, <1>3 DEF HeldBefore
  <2>5. HeldAndSpaced(y, g)
    <3>1. ASSUME NEW i \in 1 .. m + 1
          PROVE  /\ HeldBefore(y, g[i])
                 /\ i > 1 => g[i].at - g[i - 1].at >= Cooldown(y.id)
                 /\ g[i].still => g[i].code = "low" /\ (i > 1 => g[i - 1].code = "low")
      <4>1. CASE i \in 1 .. m
        <5>1. /\ HeldBefore(x, heard[i])
              /\ i > 1 => heard[i].at - heard[i - 1].at >= Cooldown(x.id)
              /\ heard[i].still => heard[i].code = "low" /\ (i > 1 => heard[i - 1].code = "low")
          BY <4>1, <1>0, <2>3, SMTT(30) DEF HeldAndSpaced, m
        <5>2. g[i] = heard[i] /\ (i > 1 => g[i - 1] = heard[i - 1])
          <6>1. i > 1 => i - 1 \in 1 .. m
            BY <4>1, <2>3
          <6>. QED
            BY <4>1, <6>1, <2>3
        <5>3. HeldBefore(y, g[i])
          BY <5>1, <5>2, <1>9
        <5>. QED
          BY <5>1, <5>2, <5>3, <1>1
      <4>2. CASE i = m + 1
        <5>1. g[i] = s
          BY <4>2, <2>3
        <5>2. CASE i > 1
          <6>1. heard # <<>> /\ m \in 1 .. m /\ i - 1 = m
            BY <4>2, <5>2, <2>3 DEF m
          <6>2. g[i - 1] = heard[m]
            BY <6>1, <2>3
          <6>3. heard[m].at = x.lastSpokenAt /\ (x.lowSpoken <=> heard[m].code = "low")
            BY ONLY <6>1, <1>0, Zenon DEF SpeechRemembered, m
          <6>. QED
            BY <5>1, <6>2, <6>3, <2>1, <2>4, <1>1
        <5>3. CASE ~(i > 1)
          BY <5>1, <5>3, <2>1, <2>4
        <5>. QED
          BY <5>2, <5>3
      <4>. QED
        BY <4>1, <4>2, <2>3
    <3>2. DOMAIN g = 1 .. m + 1
      BY <2>3
    <3>. QED
      BY <3>1, <3>2 DEF HeldAndSpaced
  <2>6. SpeechRemembered(y, g)
    <3>1. g # <<>>
      BY <2>3
    <3>2. y.lastSpokenAt = now /\ y.lowSpoken = (c = "low")
      BY <1>1, <1>11
    <3>. QED
      BY <3>1, <3>2, <2>1, <2>3 DEF SpeechRemembered
  <2>. QED
    BY <2>2, <2>3, <2>5, <2>6, <1>1, <1>6, <1>8
<1>. QED
  BY <1>10, <1>11

\* Instants since the last sample join the zone it was in.
LEMMA ZonesSampled ==
    ASSUME CoachAssumption, now \in Times, NEW x \in Exercise, NEW r \in Reading,
           ZonesAddUp(x), WarningStands(x), SamplesInOrder(x), ConditionSteady(x),
           x.samples # <<>> => now > Last(x.samples).at
    PROVE  LET y == Sampled(x, r) IN ZonesAddUp(y) /\ WarningStands(y)
<1>. DEFINE c == Condition(x.id, r)
            n == Len(x.samples)
<1>1. PICK y : /\ y = Sampled(x, r) /\ y \in Exercise /\ y.id = x.id
               /\ y.samples = Append(x.samples, SampleOf(x, r)) /\ y.condition = c
               /\ y.zoneSeconds = ZoneTimes(x)
               /\ y.overshoots = IF x.id \in Echelons /\ c = "closure" /\ ~x.warning
                                 THEN x.overshoots + 1 ELSE x.overshoots
               /\ y.warning = (x.id \in Echelons /\ c = "closure")
               /\ SampleOf(x, r) \in Sample
  BY SampledFields
<1>2. CASE x.id \notin Echelons
  BY <1>1, <1>2 DEF ZonesAddUp, WarningStands
<1>3. CASE x.id \in Echelons
  <2>1. /\ x.samples \in Seq(Sample) /\ n \in Nat
        /\ x.zoneSeconds \in [Zones -> Nat] /\ x.overshoots \in Nat
        /\ now \in Nat /\ MaxTime \in Nat /\ now <= MaxTime
        /\ \A i \in 1 .. n : x.samples[i].at \in Nat
    <3>1. /\ x.samples \in Seq(Sample) /\ x.zoneSeconds \in [Zones -> Nat] /\ x.overshoots \in Nat
      BY DEF Exercise
    <3>2. n \in Nat /\ \A i \in 1 .. n : x.samples[i] \in Sample
      BY <3>1
    <3>3. \A i \in 1 .. n : x.samples[i].at \in Nat
      BY <3>2 DEF Times, CoachAssumption, Sample
    <3>4. now \in Nat /\ MaxTime \in Nat /\ now <= MaxTime
      BY DEF Times, CoachAssumption
    <3>. QED
      BY <3>1, <3>2, <3>3, <3>4
  <2>2. /\ Len(y.samples) = n + 1 /\ DOMAIN y.samples = 1 .. n + 1 /\ DOMAIN x.samples = 1 .. n
        /\ y.samples[n + 1].at = now /\ y.samples[n + 1].condition = c
        /\ y.samples[n + 1].zone = r.zone
        /\ \A i \in 1 .. n : y.samples[i] = x.samples[i]
    <3>1. SampleOf(x, r).at = now /\ SampleOf(x, r).condition = c /\ SampleOf(x, r).zone = r.zone
      BY <1>3 DEF SampleOf
    <3>. HIDE DEF c
    <3>. QED
      BY <1>1, <2>1, <3>1, AppendProperties
  <2>3. r.zone \in Zones
    BY DEF Reading
  <2>. HIDE DEF c, n
  <2>4. WarningStands(y)
    <3>1. \A i \in 1 .. n : y.samples[i].zone \in Zones
      BY <1>3, <2>2 DEF WarningStands
    <3>2. \A i \in 1 .. n + 1 : y.samples[i].zone \in Zones
      <4>1. ASSUME NEW i \in 1 .. n + 1 PROVE y.samples[i].zone \in Zones
        <5>1. CASE i = n + 1
          BY <5>1, <2>2, <2>3
        <5>2. CASE i \in 1 .. n
          BY <5>2, <3>1
        <5>. QED
          BY <5>1, <5>2, <2>1
      <4>. QED
        BY <4>1
    <3>3. y.warning <=> y.condition = "closure"
      BY <1>1, <1>3
    <3>. QED
      BY <3>2, <3>3, <2>2 DEF WarningStands
  <2>5. CASE n = 0
    <3>1. x.samples = <<>>
      BY <2>1, <2>5 DEF n
    <3>2. y.zoneSeconds = x.zoneSeconds
      BY <1>1, <3>1 DEF ZoneTimes
    <3>3. \A z \in Zones : InZone(y, z) = InZone(x, z)
      BY <2>1, <2>2, <2>5, <3>1 DEF InZone
    <3>4. Closures(y) = IF c = "closure" THEN {1} ELSE {}
      BY <2>1, <2>2, <2>5 DEF Closures
    <3>5. x.overshoots = 0
      <4>1. Closures(x) = {}
        BY <2>2, <2>5 DEF Closures
      <4>. QED
        BY <4>1, <1>3, FS_EmptySet DEF ZonesAddUp
    <3>6. ~x.warning
      BY <1>3, <3>1 DEF WarningStands, ConditionSteady, CoachAssumption, Conditions
    <3>7. y.overshoots = IF c = "closure" THEN 1 ELSE 0
      BY <1>1, <1>3, <3>5, <3>6
    <3>8. y.overshoots = Cardinality(Closures(y))
      BY <3>4, <3>7, FS_EmptySet, FS_Singleton
    <3>9. \A z \in Zones : y.zoneSeconds[z] = Cardinality(InZone(y, z))
      BY <1>3, <3>2, <3>3 DEF ZonesAddUp
    <3>. QED
      BY <1>1, <2>4, <3>8, <3>9 DEF ZonesAddUp
  <2>6. CASE n > 0
    <3>. DEFINE a == x.samples[n].at
                w == x.samples[n].zone
    <3>1. /\ n \in 1 .. n /\ a \in Nat /\ a < now /\ w \in Zones /\ Last(x.samples) = x.samples[n]
          /\ x.samples # <<>>
      <4>1. n \in 1 .. n /\ a \in Nat
        BY <2>1, <2>6
      <4>2. x.samples # <<>> /\ Last(x.samples) = x.samples[n]
        BY <4>1, <2>1 DEF Last, n
      <4>3. a < now
        BY <4>1, <4>2, <2>1
      <4>4. w \in Zones
        BY <4>1, <1>3, <2>2 DEF WarningStands
      <4>. QED
        BY <4>1, <4>2, <4>3, <4>4
    <3>2. y.zoneSeconds = [x.zoneSeconds EXCEPT ![w] = @ + (now - a)]
      BY <1>1, <1>3, <3>1 DEF ZoneTimes
    <3>3. y.samples[n].at = a /\ y.samples[n].zone = w
      BY <2>2, <3>1
    <3>4. \A i \in 1 .. n : x.samples[i].at <= a
      <4>1. ASSUME NEW i \in 1 .. n PROVE x.samples[i].at <= a
        <5>1. i < n => x.samples[i].at < x.samples[n].at
          BY <2>2, <3>1 DEF SamplesInOrder
        <5>2. (i < n \/ i = n) /\ x.samples[i].at \in Nat /\ a \in Nat
          BY <2>1, <3>1, SMTT(30)
        <5>. QED
          BY <5>1, <5>2
      <4>. QED
        BY <4>1
    <3>. HIDE DEF a, w
    <3>5. ASSUME NEW z \in Zones PROVE y.zoneSeconds[z] = Cardinality(InZone(y, z))
      <4>. DEFINE old == InZone(x, z)
                  new == IF w = z THEN a .. now - 1 ELSE {}
      <4>1. InZone(y, z) \subseteq old \cup new
        <5>1. ASSUME NEW t \in Times, NEW i \in 1 .. n, y.samples[i].zone = z,
                     y.samples[i].at <= t, t < y.samples[i + 1].at
              PROVE  t \in old \cup new
          <6>1. t \in Nat
            BY <2>1 DEF Times
          <6>2. CASE i = n
            <7>1. w = z /\ a <= t /\ t < now
              BY <5>1, <6>2, <2>2, <3>3
            <7>. QED
              BY <7>1, <6>1, <2>1, <3>1
          <6>3. CASE i # n
            <7>1. i \in 1 .. n - 1 /\ i + 1 \in 1 .. n /\ i \in 1 .. n
              BY <6>3, <2>1
            <7>2. y.samples[i] = x.samples[i] /\ y.samples[i + 1] = x.samples[i + 1]
              BY <7>1, <2>2
            <7>. QED
              BY <5>1, <7>1, <7>2 DEF InZone, n
          <6>. QED
            BY <6>2, <6>3
        <5>2. Len(y.samples) - 1 = n
          BY <2>1, <2>2
        <5>. HIDE DEF old, new
        <5>. QED
          BY <5>1, <5>2 DEF InZone
      <4>2. old \subseteq InZone(y, z)
        <5>1. ASSUME NEW t \in Times, NEW i \in 1 .. n - 1, x.samples[i].zone = z,
                     x.samples[i].at <= t, t < x.samples[i + 1].at
              PROVE  t \in InZone(y, z)
          <6>1. i \in 1 .. Len(y.samples) - 1 /\ i \in 1 .. n /\ i + 1 \in 1 .. n
            BY <2>1, <2>2
          <6>2. y.samples[i] = x.samples[i] /\ y.samples[i + 1] = x.samples[i + 1]
            BY <6>1, <2>2
          <6>. QED
            BY <5>1, <6>1, <6>2 DEF InZone
        <5>. QED
          BY <5>1 DEF InZone, n
      <4>3. new \subseteq InZone(y, z)
        <5>1. ASSUME w = z, NEW t \in a .. now - 1 PROVE t \in InZone(y, z)
          <6>1. t \in Times /\ a <= t /\ t < now
            BY <2>1, <3>1, SMTT(30) DEF Times
          <6>2. n \in 1 .. Len(y.samples) - 1
            BY <2>1, <2>2, <3>1
          <6>. QED
            BY <5>1, <6>1, <6>2, <2>2, <3>3 DEF InZone
        <5>. QED
          BY <5>1
      <4>4. old \cap new = {}
        <5>1. ASSUME NEW t \in Times, NEW i \in 1 .. n - 1, t < x.samples[i + 1].at
              PROVE  t \notin new
          <6>1. i + 1 \in 1 .. n
            BY <2>1
          <6>2. x.samples[i + 1].at <= a /\ x.samples[i + 1].at \in Nat /\ t \in Nat
            BY <6>1, <2>1, <3>4 DEF Times
          <6>3. t < x.samples[i + 1].at /\ a \in Nat /\ now \in Nat
            BY <5>1, <2>1, <3>1
          <6>4. t \notin a .. now - 1
            BY ONLY <6>2, <6>3
          <6>. QED
            BY <6>4
        <5>. HIDE DEF new
        <5>. QED
          BY <5>1 DEF InZone, n
      <4>5. IsFiniteSet(old)
        <5>1. old \subseteq 0 .. MaxTime
          BY DEF InZone, Times
        <5>2. IsFiniteSet(0 .. MaxTime)
          BY <2>1, FS_Interval
        <5>. HIDE DEF old
        <5>. QED
          BY <5>1, <5>2, FS_Subset
      <4>6. IsFiniteSet(new) /\ Cardinality(new) = IF w = z THEN now - a ELSE 0
        <5>0. a \in Nat /\ now \in Nat /\ a < now
          BY <2>1, <3>1
        <5>1. a \in Int /\ now - 1 \in Int /\ ~(a > now - 1) /\ (now - 1) - a + 1 = now - a
          BY ONLY <5>0
        <5>2. IsFiniteSet(a .. now - 1) /\ Cardinality(a .. now - 1) = now - a
          BY <5>1, FS_Interval
        <5>. QED
          BY <5>2, FS_EmptySet
      <4>7. Cardinality(old) = x.zoneSeconds[z]
        BY <1>3 DEF ZonesAddUp
      <4>8. InZone(y, z) = old \cup new
        BY <4>1, <4>2, <4>3
      <4>. HIDE DEF old, new
      <4>9. Cardinality(old \cup new) = Cardinality(old) + Cardinality(new)
        <5>1. Cardinality(old \cup new) = Cardinality(old) + Cardinality(new) - Cardinality(old \cap new)
          BY <4>5, <4>6, FS_Union
        <5>2. Cardinality(old \cap new) = 0
          BY <4>4, FS_EmptySet
        <5>3. Cardinality(old) \in Nat /\ Cardinality(new) \in Nat
          BY <4>5, <4>6, FS_CardinalityType
        <5>. QED
          BY <5>1, <5>2, <5>3
      <4>10. y.zoneSeconds[z] = IF w = z THEN x.zoneSeconds[z] + (now - a) ELSE x.zoneSeconds[z]
        BY <3>1, <3>2, <2>1
      <4>11. x.zoneSeconds[z] \in Nat
        BY <2>1
      <4>. QED
        BY <4>6, <4>7, <4>8, <4>9, <4>10, <4>11
    <3>6. y.overshoots = Cardinality(Closures(y))
      <4>. DEFINE first == c = "closure" /\ x.samples[n].condition # "closure"
                  new == IF first THEN {n + 1} ELSE {}
      <4>1. Closures(y) = Closures(x) \cup new
        <5>1. ASSUME NEW i \in 1 .. n PROVE i \in Closures(y) <=> i \in Closures(x)
          <6>1. y.samples[i] = x.samples[i] /\ (i > 1 => i - 1 \in 1 .. n)
            BY <2>1, <2>2
          <6>2. i > 1 => y.samples[i - 1] = x.samples[i - 1]
            BY <6>1, <2>2
          <6>3. i \in DOMAIN y.samples /\ i \in DOMAIN x.samples
            BY <2>1, <2>2
          <6>. QED
            BY <6>1, <6>2, <6>3 DEF Closures
        <5>2. n + 1 \in Closures(y) <=> first
          <6>1. n + 1 > 1 /\ (n + 1) - 1 = n /\ n + 1 \in 1 .. n + 1
            <7>1. n \in Nat /\ n > 0
              BY <2>1, <2>6
            <7>. QED
              BY ONLY <7>1
          <6>2. y.samples[n] = x.samples[n]
            BY <2>2, <3>1
          <6>. QED
            BY <6>1, <6>2, <2>2 DEF Closures
        <5>3. Closures(y) \subseteq 1 .. n + 1 /\ Closures(x) \subseteq 1 .. n /\ n + 1 \notin 1 .. n
          BY <2>1, <2>2 DEF Closures
        <5>4. \A i \in 1 .. n + 1 : i \in 1 .. n \/ i = n + 1
          BY <2>1
        <5>. HIDE DEF first
        <5>. QED
          BY <5>1, <5>2, <5>3, <5>4
      <4>2. x.warning <=> x.samples[n].condition = "closure"
        <5>1. x.samples[n].condition = x.condition
          <6>1. PICK i \in 1 .. n : \A k \in i .. n : x.samples[k].condition = x.condition
            BY <2>2, <3>1 DEF ConditionSteady, n
          <6>. QED
            BY <6>1, <2>1
        <5>. QED
          BY <5>1, <1>3 DEF WarningStands
      <4>3. IsFiniteSet(Closures(x)) /\ n + 1 \notin Closures(x)
        <5>1. Closures(x) \subseteq 1 .. n
          BY <2>2 DEF Closures
        <5>2. IsFiniteSet(1 .. n)
          BY <2>1, FS_Interval
        <5>. QED
          BY <5>1, <5>2, <2>1, FS_Subset
      <4>4. y.overshoots = IF first THEN x.overshoots + 1 ELSE x.overshoots
        BY <1>1, <1>3, <4>2
      <4>5. x.overshoots = Cardinality(Closures(x))
        BY <1>3 DEF ZonesAddUp
      <4>6. CASE first
        <5>1. Cardinality(Closures(x) \cup {n + 1}) = Cardinality(Closures(x)) + 1
          BY ONLY <4>3, FS_AddElement
        <5>2. Closures(y) = Closures(x) \cup {n + 1}
          BY ONLY <4>1, <4>6
        <5>. QED
          BY ONLY <4>4, <4>5, <4>6, <5>1, <5>2
      <4>7. CASE ~first
        BY <4>1, <4>4, <4>5, <4>7
      <4>. QED
        BY <4>6, <4>7
    <3>. QED
      BY <1>1, <2>4, <3>5, <3>6 DEF ZonesAddUp
  <2>. QED
    BY <2>1, <2>5, <2>6
<1>. QED
  BY <1>2, <1>3

\* The sample counts for the open segment, or closes it and opens the next.
LEMMA SegmentsSampled ==
    ASSUME CoachAssumption, now \in Times, NEW x \in Exercise, NEW r \in Reading,
           SegmentsOrdered(x), SegmentsStarted(x), WarningStands(x), SamplesInOrder(x),
           x.samples # <<>> => now > Last(x.samples).at
    PROVE  LET y == Sampled(x, r) IN SegmentsOrdered(y) /\ SegmentsStarted(y)
<1>. DEFINE n == Len(x.samples)
            s == x.segments
            m == Len(s)
            p == PhaseAfter(x, r)
<1>1. PICK y : /\ y = Sampled(x, r) /\ y \in Exercise /\ y.id = x.id
               /\ y.samples = Append(x.samples, SampleOf(x, r))
               /\ y.phase = p
               /\ y.segments = IF x.id = "CASE1_PATTERN" THEN Record(s, p) ELSE s
               /\ SampleOf(x, r) \in Sample /\ p \in 1 .. Len(PatternPhases)
  BY SampledFields
<1>2. CASE x.id # "CASE1_PATTERN"
  BY <1>1, <1>2 DEF SegmentsOrdered, SegmentsStarted
<1>3. CASE x.id = "CASE1_PATTERN"
  <2>1. /\ x.samples \in Seq(Sample) /\ n \in Nat /\ s \in Seq(Segment) /\ m \in Nat
        /\ now \in Nat /\ x.phase \in Nat
        /\ \A i \in 1 .. n : x.samples[i].at \in Nat
        /\ \A i \in 1 .. m : s[i].started \in Nat /\ s[i].count \in Nat
    <3>1. x.samples \in Seq(Sample) /\ s \in Seq(Segment) /\ x.phase \in Nat
      BY PatternLength, SMTT(30) DEF Exercise
    <3>2. n \in Nat /\ m \in Nat /\ now \in Nat
      BY <3>1 DEF Times, CoachAssumption
    <3>3. \A i \in 1 .. n : x.samples[i] \in Sample
      BY <3>1
    <3>4. \A i \in 1 .. n : x.samples[i].at \in Nat
      BY <3>3 DEF Times, CoachAssumption, Sample
    <3>5. \A i \in 1 .. m : s[i] \in Segment
      BY <3>1
    <3>6. \A i \in 1 .. m : s[i].started \in Nat /\ s[i].count \in Nat
      BY <3>5, SMTT(30) DEF Times, CoachAssumption, Segment
    <3>. QED
      BY <3>1, <3>2, <3>4, <3>6
  <2>2. /\ Len(y.samples) = n + 1 /\ DOMAIN y.samples = 1 .. n + 1 /\ DOMAIN x.samples = 1 .. n
        /\ y.samples[n + 1].at = now /\ y.samples # <<>>
        /\ \A i \in 1 .. n : y.samples[i] = x.samples[i]
    <3>1. SampleOf(x, r).at = now
      BY DEF SampleOf
    <3>2. PICK e : e = SampleOf(x, r)
      OBVIOUS
    <3>3. x.samples \in Seq(Sample) /\ e \in Sample /\ y.samples = Append(x.samples, e)
      BY <1>1, <2>1, <3>2
    <3>4. /\ y.samples \in Seq(Sample) /\ y.samples # <<>> /\ Len(y.samples) = n + 1
          /\ \A i \in 1 .. n : y.samples[i] = x.samples[i]
          /\ y.samples[n + 1] = e
      BY ONLY <3>3, AppendProperties
    <3>. QED
      BY <2>1, <3>1, <3>2, <3>4
  <2>3. \A i \in 1 .. n : x.samples[i].at < now
    <3>1. ASSUME NEW i \in 1 .. n PROVE x.samples[i].at < now
      <4>1. x.samples # <<>> /\ n \in 1 .. n
        BY <2>1
      <4>2. x.samples[n].at < now
        BY <4>1, <2>1 DEF Last
      <4>3. i < n => x.samples[i].at < x.samples[n].at
        BY <4>1, <2>2 DEF SamplesInOrder
      <4>4. x.samples[i].at \in Nat /\ x.samples[n].at \in Nat /\ now \in Nat /\ (i < n \/ i = n)
        BY <4>1, <2>1
      <4>. QED
        BY ONLY <4>2, <4>3, <4>4
    <3>. QED
      BY <3>1
  <2>4. p = x.phase \/ p = x.phase + 1
    BY DEF PhaseAfter
  <2>5. /\ DOMAIN s = 1 .. m
        /\ m = 0 <=> n = 0
        /\ m > 0 => /\ s[1].started = x.samples[1].at
                    /\ s[m].ended = Nothing /\ s[m].phase = x.phase
        /\ \A i \in 1 .. m - 1 : s[i].ended = s[i + 1].started /\ s[i + 1].phase = s[i].phase + 1
        /\ \A i \in 1 .. m : s[i].count = Cardinality(Spanned(x, i))
        /\ \A i \in 1 .. m : s[i].started <= x.samples[n].at
    <3>1. DOMAIN s = 1 .. m /\ (s = <<>> <=> m = 0) /\ (x.samples = <<>> <=> n = 0)
      BY <2>1
    <3>2. /\ s = <<>> <=> x.samples = <<>>
          /\ s # <<>> => /\ s[1].started = x.samples[1].at
                         /\ s[m].ended = Nothing /\ s[m].phase = x.phase
          /\ \A i \in 1 .. m - 1 : s[i].ended = s[i + 1].started /\ s[i + 1].phase = s[i].phase + 1
          /\ \A i \in DOMAIN s : s[i].count = Cardinality(Spanned(x, i))
      BY <1>3, Zenon DEF SegmentsOrdered
    <3>3. \A i \in DOMAIN s : s[i].started <= x.samples[n].at
      BY <1>3, Zenon DEF SegmentsStarted
    <3>4. m \in Nat
      BY <2>1
    <3>. HIDE DEF s, m, n
    <3>5. m = 0 <=> n = 0
      BY ONLY <3>1, <3>2
    <3>6. m > 0 => /\ s[1].started = x.samples[1].at
                  /\ s[m].ended = Nothing /\ s[m].phase = x.phase
      BY ONLY <3>1, <3>2, <3>4
    <3>7. \A i \in 1 .. m : s[i].count = Cardinality(Spanned(x, i)) /\ s[i].started <= x.samples[n].at
      BY ONLY <3>1, <3>2, <3>3
    <3>. QED
      BY <3>1, <3>2, <3>5, <3>6, <3>7
  <2>6. PICK g : g = y.segments
    OBVIOUS
  <2>7. g = Record(s, p)
    BY <1>1, <1>3, <2>6
  <2>8. /\ g \in Seq(Segment)
        /\ m > 0 /\ s[m].phase = p =>
              /\ Len(g) = m
              /\ \A i \in 1 .. m :
                    /\ g[i].phase = s[i].phase /\ g[i].started = s[i].started
                    /\ g[i].ended = s[i].ended
                    /\ g[i].count = IF i = m THEN s[i].count + 1 ELSE s[i].count
        /\ ~(m > 0 /\ s[m].phase = p) =>
              /\ Len(g) = m + 1
              /\ \A i \in 1 .. m :
                    /\ g[i].phase = s[i].phase /\ g[i].started = s[i].started
                    /\ g[i].ended = IF i = m THEN now ELSE s[i].ended
                    /\ g[i].count = s[i].count
              /\ g[m + 1] = [phase |-> p, started |-> now, ended |-> Nothing, count |-> 1]
    <3>1. s \in Seq(Segment)
      BY <2>1
    <3>2. p \in 1 .. Len(PatternPhases)
      BY <1>1
    <3>. HIDE DEF p, s
    <3>. QED
      BY ONLY <2>7, <3>1, <3>2, now \in Times, SegmentRecorded, ZenonT(60)
  <2>. HIDE DEF n, m, s, p
  \* A segment's span gains the sample exactly if it is open at `now`.
  <2>9. ASSUME NEW i \in 1 .. m, i \in 1 .. Len(g), g[i].started = s[i].started,
               i < m => i < Len(g) /\ g[i].ended = s[i].ended
        PROVE  /\ i < m => Spanned(y, i) = Spanned(x, i)
               /\ i = m /\ Len(g) = m => Spanned(y, i) = Spanned(x, i) \cup {n + 1}
               /\ i = m /\ Len(g) = m + 1 /\ g[i].ended = now => Spanned(y, i) = Spanned(x, i)
    <3>1. /\ n \in 1 .. n /\ s[i].started \in Nat /\ x.samples[n].at \in Nat
          /\ s[i].started <= x.samples[n].at /\ x.samples[n].at < now
      <4>1. n \in 1 .. n
        BY <2>1, <2>5
      <4>. QED
        BY <4>1, <2>1, <2>3, <2>5
    <3>2. s[i].started <= now
      <4>1. now \in Nat
        BY <2>1
      <4>. QED
        BY ONLY <3>1, <4>1
    <3>3. \A k \in 1 .. n + 1 :
             k \in Spanned(y, i) <=> /\ s[i].started <= y.samples[k].at
                                     /\ i < Len(g) => y.samples[k].at < g[i].ended
      BY <2>2, <2>6, <2>9 DEF Spanned
    <3>4. \A k \in 1 .. n :
             k \in Spanned(x, i) <=> /\ s[i].started <= x.samples[k].at
                                     /\ i < m => x.samples[k].at < s[i].ended
      BY <2>2 DEF Spanned, s, m
    <3>5. Spanned(y, i) \subseteq 1 .. n + 1 /\ Spanned(x, i) \subseteq 1 .. n
      BY <2>2 DEF Spanned
    <3>6. /\ \A k \in 1 .. n + 1 : k \in 1 .. n \/ k = n + 1
          /\ \A k \in 1 .. n : k \in 1 .. n + 1
          /\ n + 1 \in 1 .. n + 1 /\ n + 1 \notin 1 .. n
      BY <2>1
    <3>7. ASSUME i < m PROVE Spanned(y, i) = Spanned(x, i)
      <4>1. i \in 1 .. m - 1 /\ i + 1 \in 1 .. m
        BY <2>1, <3>7, SMTT(30)
      <4>2. s[i].ended = s[i + 1].started /\ s[i].ended \in Nat /\ s[i].ended <= x.samples[n].at
        BY <2>1, <2>5, <4>1
      <4>3. n + 1 \notin Spanned(y, i)
        <5>1. now \in Nat /\ x.samples[n].at < now /\ x.samples[n].at \in Nat
          BY <2>1, <3>1
        <5>2. ~(now < s[i].ended)
          BY ONLY <4>2, <5>1
        <5>. QED
          BY <2>2, <2>9, <3>3, <3>6, <3>7, <5>2
      <4>4. \A k \in 1 .. n : k \in Spanned(y, i) <=> k \in Spanned(x, i)
        BY <2>2, <2>9, <3>3, <3>4, <3>6, <3>7
      <4>. QED
        BY <3>5, <3>6, <4>3, <4>4
    <3>8. ASSUME i = m, Len(g) = m PROVE Spanned(y, i) = Spanned(x, i) \cup {n + 1}
      <4>1. ~(i < m) /\ ~(i < Len(g))
        BY <2>1, <3>8
      <4>2. n + 1 \in Spanned(y, i)
        BY <2>2, <3>2, <3>3, <3>6, <4>1
      <4>3. \A k \in 1 .. n : k \in Spanned(y, i) <=> k \in Spanned(x, i)
        BY <2>2, <3>3, <3>4, <3>6, <4>1
      <4>. QED
        BY <3>5, <3>6, <4>2, <4>3
    <3>9. ASSUME i = m, Len(g) = m + 1, g[i].ended = now PROVE Spanned(y, i) = Spanned(x, i)
      <4>1. ~(i < m) /\ i < Len(g)
        BY <2>1, <3>9
      <4>2. n + 1 \notin Spanned(y, i)
        BY <2>1, <2>2, <3>3, <3>6, <3>9, <4>1
      <4>3. \A k \in 1 .. n : k \in Spanned(y, i) <=> k \in Spanned(x, i)
        <5>1. ASSUME NEW k \in 1 .. n PROVE k \in Spanned(y, i) <=> k \in Spanned(x, i)
          <6>1. y.samples[k] = x.samples[k] /\ x.samples[k].at < now /\ k \in 1 .. n + 1
            BY <2>2, <2>3, <3>6
          <6>. QED
            BY <3>3, <3>4, <3>9, <4>1, <6>1
        <5>. QED
          BY <5>1
      <4>. QED
        BY <3>5, <3>6, <4>2, <4>3
    <3>. QED
      BY <3>7, <3>8, <3>9
  <2>10. \A i \in 1 .. m : IsFiniteSet(Spanned(x, i)) /\ n + 1 \notin Spanned(x, i)
    <3>1. ASSUME NEW i \in 1 .. m PROVE IsFiniteSet(Spanned(x, i)) /\ n + 1 \notin Spanned(x, i)
      <4>1. Spanned(x, i) \subseteq 1 .. n
        BY <2>2 DEF Spanned
      <4>2. IsFiniteSet(1 .. n)
        BY <2>1, FS_Interval
      <4>. QED
        BY <4>1, <4>2, <2>1, FS_Subset
    <3>. QED
      BY <3>1
  <2>11. CASE m > 0 /\ s[m].phase = p
    <3>1. /\ Len(g) = m /\ m \in 1 .. m /\ 1 \in 1 .. m
          /\ \A i \in 1 .. m :
                /\ g[i].phase = s[i].phase /\ g[i].started = s[i].started
                /\ g[i].ended = s[i].ended
                /\ g[i].count = IF i = m THEN s[i].count + 1 ELSE s[i].count
      BY <2>1, <2>8, <2>11
    <3>2. DOMAIN g = 1 .. m /\ g # <<>>
      BY <2>8, <3>1
    <3>3. n \in 1 .. n /\ 1 \in 1 .. n
      BY <2>1, <2>5, <2>11
    <3>4. g[1].started = y.samples[1].at
      BY <2>2, <2>5, <2>11, <3>1, <3>3
    <3>5. g[m].ended = Nothing /\ g[m].phase = y.phase
      BY <1>1, <2>5, <2>11, <3>1 DEF p
    <3>6. \A i \in 1 .. m - 1 : g[i].ended = g[i + 1].started /\ g[i + 1].phase = g[i].phase + 1
      <4>1. ASSUME NEW i \in 1 .. m - 1
            PROVE  g[i].ended = g[i + 1].started /\ g[i + 1].phase = g[i].phase + 1
        <5>1. i \in 1 .. m /\ i + 1 \in 1 .. m
          BY <2>1
        <5>. QED
          BY <5>1, <2>5, <3>1
      <4>. QED
        BY <4>1
    <3>7. \A i \in 1 .. m : g[i].count = Cardinality(Spanned(y, i))
      <4>1. ASSUME NEW i \in 1 .. m PROVE g[i].count = Cardinality(Spanned(y, i))
        <5>1. CASE i < m
          <6>1. Spanned(y, i) = Spanned(x, i)
            BY <5>1, <2>9, <3>1
          <6>2. i # m
            BY <5>1, <2>1
          <6>3. g[i].count = s[i].count
            BY <3>1, <6>2
          <6>. QED
            BY <6>1, <6>3, <2>5
        <5>2. CASE i = m
          <6>1. Spanned(y, i) = Spanned(x, i) \cup {n + 1}
            BY <5>2, <2>1, <2>9, <3>1
          <6>2. Cardinality(Spanned(y, i)) = Cardinality(Spanned(x, i)) + 1
            BY <6>1, <2>10, FS_AddElement
          <6>. QED
            BY <5>2, <6>2, <2>5, <3>1
        <5>. QED
          BY <5>1, <5>2, <2>1
      <4>. QED
        BY <4>1
    <3>8. \A i \in 1 .. m : g[i].started <= now
      <4>1. ASSUME NEW i \in 1 .. m PROVE g[i].started <= now
        <5>1. /\ g[i].started = s[i].started /\ s[i].started \in Nat /\ x.samples[n].at \in Nat
              /\ s[i].started <= x.samples[n].at /\ x.samples[n].at < now
          BY <2>1, <2>3, <2>5, <3>1, <3>3
        <5>2. now \in Nat
          BY <2>1
        <5>. QED
          BY ONLY <5>1, <5>2
      <4>. QED
        BY <4>1
    <3>. QED
      BY <1>1, <1>3, <2>2, <2>6, <3>1, <3>2, <3>4, <3>5, <3>6, <3>7, <3>8
         DEF SegmentsOrdered, SegmentsStarted
  <2>12. CASE ~(m > 0 /\ s[m].phase = p)
    <3>1. /\ Len(g) = m + 1 /\ m + 1 \in 1 .. m + 1
          /\ \A i \in 1 .. m :
                /\ g[i].phase = s[i].phase /\ g[i].started = s[i].started
                /\ g[i].ended = IF i = m THEN now ELSE s[i].ended
                /\ g[i].count = s[i].count
          /\ g[m + 1].phase = p /\ g[m + 1].started = now /\ g[m + 1].ended = Nothing
          /\ g[m + 1].count = 1
      BY <2>1, <2>8, <2>12
    <3>2. DOMAIN g = 1 .. m + 1 /\ g # <<>>
      BY <2>1, <2>8, <3>1
    <3>3. g[1].started = y.samples[1].at
      <4>1. CASE m = 0
        BY <4>1, <2>2, <2>5, <3>1
      <4>2. CASE m > 0
        <5>1. 1 \in 1 .. m /\ 1 \in 1 .. n
          BY <4>2, <2>1, <2>5
        <5>. QED
          BY <4>2, <5>1, <2>2, <2>5, <3>1
      <4>. QED
        BY <4>1, <4>2, <2>1
    <3>4. y.phase = p
      BY <1>1 DEF p
    <3>5. \A i \in 1 .. m : g[i].ended = g[i + 1].started /\ g[i + 1].phase = g[i].phase + 1
      <4>1. ASSUME NEW i \in 1 .. m
            PROVE  g[i].ended = g[i + 1].started /\ g[i + 1].phase = g[i].phase + 1
        <5>1. CASE i = m
          <6>1. p = s[m].phase + 1
            BY <5>1, <2>4, <2>5, <2>12
          <6>. QED
            BY <5>1, <6>1, <3>1
        <5>2. CASE i # m
          <6>1. i \in 1 .. m - 1 /\ i + 1 \in 1 .. m
            BY ONLY <5>2, <2>1, i \in 1 .. m
          <6>. QED
            BY <5>2, <6>1, <2>5, <3>1
        <5>. QED
          BY <5>1, <5>2
      <4>. QED
        BY <4>1
    <3>6. Spanned(y, m + 1) = {n + 1}
      <4>1. \A k \in 1 .. n + 1 : k \in Spanned(y, m + 1) <=> now <= y.samples[k].at
        BY <2>1, <2>2, <2>6, <3>1 DEF Spanned
      <4>2. Spanned(y, m + 1) \subseteq 1 .. n + 1
        BY <2>2 DEF Spanned
      <4>3. ASSUME NEW k \in 1 .. n PROVE k \notin Spanned(y, m + 1)
        <5>1. y.samples[k] = x.samples[k] /\ x.samples[k].at < now /\ x.samples[k].at \in Nat
              /\ k \in 1 .. n + 1
          BY <2>1, <2>2, <2>3, SMTT(30)
        <5>2. now \in Nat
          BY <2>1
        <5>3. ~(now <= y.samples[k].at)
          BY ONLY <5>1, <5>2
        <5>. QED
          BY <4>1, <5>1, <5>3
      <4>4. n + 1 \in Spanned(y, m + 1)
        <5>1. n + 1 \in 1 .. n + 1 /\ now <= y.samples[n + 1].at
          BY <2>1, <2>2
        <5>. QED
          BY <4>1, <5>1
      <4>5. \A k \in 1 .. n + 1 : k \in 1 .. n \/ k = n + 1
        BY <2>1
      <4>. QED
        BY <4>2, <4>3, <4>4, <4>5
    <3>7. \A i \in 1 .. m + 1 : g[i].count = Cardinality(Spanned(y, i))
      <4>1. ASSUME NEW i \in 1 .. m + 1 PROVE g[i].count = Cardinality(Spanned(y, i))
        <5>1. CASE i = m + 1
          BY <5>1, <3>1, <3>6, FS_Singleton
        <5>2. CASE i \in 1 .. m
          <6>1. /\ i \in 1 .. Len(g) /\ g[i].started = s[i].started
                /\ i < m \/ i = m
                /\ i < m => i < Len(g) /\ g[i].ended = s[i].ended
                /\ i = m => g[i].ended = now
            <7>1. i \in 1 .. m + 1 /\ (i < m \/ i = m) /\ i < m + 1 /\ (i < m => i # m)
              BY <5>2, <2>1
            <7>. QED
              BY <5>2, <7>1, <3>1
          <6>2. Spanned(y, i) = Spanned(x, i)
            BY <5>2, <6>1, <2>9, <3>1
          <6>. QED
            BY <5>2, <6>2, <2>5, <3>1
        <5>. QED
          BY <5>1, <5>2, <2>1
      <4>. QED
        BY <4>1
    <3>8. \A i \in 1 .. m + 1 : g[i].started <= now
      <4>1. ASSUME NEW i \in 1 .. m + 1 PROVE g[i].started <= now
        <5>1. CASE i = m + 1
          BY <5>1, <2>1, <3>1
        <5>2. CASE i \in 1 .. m
          <6>1. n \in 1 .. n
            BY <5>2, <2>1, <2>5
          <6>2. /\ g[i].started = s[i].started /\ s[i].started \in Nat /\ x.samples[n].at \in Nat
                /\ s[i].started <= x.samples[n].at /\ x.samples[n].at < now
            BY <5>2, <6>1, <2>1, <2>3, <2>5, <3>1
          <6>3. now \in Nat
            BY <2>1
          <6>. QED
            BY ONLY <6>2, <6>3
        <5>. QED
          BY <5>1, <5>2, <2>1
      <4>. QED
        BY <4>1
    <3>9. (m + 1) - 1 = m
      BY <2>1
    <3>10. SegmentsOrdered(y)
      BY <2>2, <2>6, <3>1, <3>2, <3>3, <3>4, <3>5, <3>7, <3>9 DEF SegmentsOrdered
    <3>11. SegmentsStarted(y)
      BY <2>2, <2>6, <3>2, <3>8 DEF SegmentsStarted
    <3>. QED
      BY <1>1, <3>10, <3>11
  <2>. QED
    BY <2>11, <2>12
<1>. QED
  BY <1>2, <1>3

LEMMA ExerciseSampled ==
    ASSUME CoachAssumption, now \in Times, NEW x \in Exercise, NEW r \in Reading,
           NEW heard \in Seq(Said), ExerciseInv(x, heard),
           x.samples # <<>> => now > Last(x.samples).at
    PROVE  LET y == Sampled(x, r)
               g == heard \o FeedbackFor(x, r)
           IN  y \in Exercise /\ g \in Seq(Said) /\ ExerciseInv(y, g)
<1>. USE DEF ExerciseInv
<1>1. Sampled(x, r) \in Exercise
  BY SampledFields
<1>2. LET y == Sampled(x, r)
          g == heard \o FeedbackFor(x, r)
      IN  /\ SamplesInOrder(y) /\ ConditionSteady(y)
          /\ HeldAndSpaced(y, g) /\ SpeechRemembered(y, g)
          /\ g \in Seq(Said)
  BY SpeechSampled
<1>3. ZonesAddUp(Sampled(x, r)) /\ WarningStands(Sampled(x, r))
  BY ZonesSampled
<1>4. SegmentsOrdered(Sampled(x, r)) /\ SegmentsStarted(Sampled(x, r))
  BY SegmentsSampled
<1>. QED
  BY <1>1, <1>2, <1>3, <1>4

\* The deque keeps the end of what was said.
LEMMA KeptSaid ==
    ASSUME CoachAssumption, NEW x, NEW heard \in Seq(Said),
           HeldAndSpaced(x, heard), SpeechRemembered(x, heard)
    PROVE  /\ Kept(heard) \in Seq(Said) /\ Len(Kept(heard)) <= KeptFeedback
           /\ Len(heard) <= KeptFeedback => Kept(heard) = heard
           /\ HeldAndSpaced(x, Kept(heard)) /\ SpeechRemembered(x, Kept(heard))
<1>. DEFINE n == Len(heard)
            d == IF n > KeptFeedback THEN n - KeptFeedback ELSE 0
<1>1. n \in Nat /\ KeptFeedback \in Nat /\ KeptFeedback > 0
  BY DEF CoachAssumption
<1>2. d \in Nat /\ d <= n /\ n - d <= KeptFeedback /\ (n > 0 => n - d > 0)
      /\ (n <= KeptFeedback => d = 0)
  BY <1>1
<1>3. PICK k : k = Kept(heard)
  OBVIOUS
<1>4. k = SubSeq(heard, 1 + d, n)
  BY <1>3 DEF Kept
<1>. HIDE DEF d
<1>5. \A i \in 1 + d .. n : heard[i] \in Said
  BY <1>1, <1>2
<1>6. 1 + d \in Int /\ n \in Int
  BY <1>1, <1>2
<1>. HIDE DEF n
<1>7. /\ k \in Seq(Said)
      /\ Len(k) = IF 1 + d <= n THEN n - (1 + d) + 1 ELSE 0
      /\ \A i \in 1 .. n - (1 + d) + 1 : k[i] = heard[(1 + d) + i - 1]
  BY ONLY <1>4, <1>5, <1>6, SubSeqProperties
<1>8. Len(k) = n - d /\ \A i \in 1 .. n - d : k[i] = heard[d + i]
  <2>1. n - (1 + d) + 1 = n - d /\ \A i \in Nat : (1 + d) + i - 1 = d + i
    BY <1>1, <1>2
  <2>2. Len(k) = n - d
    BY <1>1, <1>2, <1>7
  <2>3. ASSUME NEW i \in 1 .. n - d PROVE k[i] = heard[d + i]
    <3>1. i \in Nat
      BY <1>1, <1>2
    <3>. QED
      BY <2>1, <3>1, <1>7
  <2>. QED
    BY <2>2, <2>3
<1>9. DOMAIN k = 1 .. n - d /\ DOMAIN heard = 1 .. n
  BY <1>1, <1>2, <1>7, <1>8 DEF n
<1>10. HeldAndSpaced(x, k)
  <2>1. ASSUME NEW i \in 1 .. n - d
        PROVE  /\ HeldBefore(x, k[i])
               /\ i > 1 => k[i].at - k[i - 1].at >= Cooldown(x.id)
               /\ k[i].still => k[i].code = "low" /\ (i > 1 => k[i - 1].code = "low")
    <3>1. d + i \in 1 .. n /\ k[i] = heard[d + i]
      BY <1>1, <1>2, <1>8
    <3>2. i > 1 => d + i > 1 /\ i - 1 \in 1 .. n - d /\ d + (i - 1) = (d + i) - 1
      BY <1>1, <1>2
    <3>3. i > 1 => k[i - 1] = heard[(d + i) - 1]
      BY <3>2, <1>8
    <3>4. /\ HeldBefore(x, heard[d + i])
          /\ d + i > 1 => heard[d + i].at - heard[(d + i) - 1].at >= Cooldown(x.id)
          /\ heard[d + i].still => heard[d + i].code = "low" /\ (d + i > 1 => heard[(d + i) - 1].code = "low")
      BY <3>1, <1>9 DEF HeldAndSpaced
    <3>. QED
      BY <3>1, <3>2, <3>3, <3>4
  <2>. QED
    BY <2>1, <1>9 DEF HeldAndSpaced
<1>11. SpeechRemembered(x, k)
  <2>1. CASE n = 0
    <3>1. heard = <<>> /\ k = <<>>
      BY <2>1, <1>1, <1>2, <1>7, <1>8 DEF n
    <3>. QED
      BY <3>1 DEF SpeechRemembered
  <2>2. CASE n > 0
    <3>1. heard # <<>> /\ k # <<>> /\ k[Len(k)] = heard[n]
      <4>1. n - d \in 1 .. n - d /\ d + (n - d) = n
        BY <2>2, <1>1, <1>2
      <4>2. heard # <<>>
        BY <2>2 DEF n
      <4>. QED
        BY <4>1, <4>2, <1>8
    <3>. QED
      BY <3>1 DEF SpeechRemembered, n
  <2>. QED
    BY <2>1, <2>2, <1>1
<1>12. n <= KeptFeedback => k = heard
  <2>1. ASSUME n <= KeptFeedback PROVE k = heard
    <3>1. d = 0
      BY <2>1, <1>2
    <3>2. Len(k) = Len(heard) /\ \A i \in 1 .. Len(heard) : k[i] = heard[i]
      BY <3>1, <1>1, <1>8 DEF n
    <3>. QED
      BY <3>2, <1>7, SeqEqual
  <2>. QED
    BY <2>1
<1>. QED
  BY <1>2, <1>3, <1>7, <1>8, <1>10, <1>11, <1>12 DEF n

\* Pausing an exercise changes its state only.
LEMMA Paused ==
    ASSUME NEW x \in Exercise, NEW heard, ExerciseInv(x, heard)
    PROVE  LET y == [x EXCEPT !.state = "PAUSED"] IN
           y \in Exercise /\ ExerciseInv(y, heard)
<1>. DEFINE y == [x EXCEPT !.state = "PAUSED"]
<1>1. y \in Exercise
  BY DEF Exercise
<1>2. /\ y.id = x.id /\ y.samples = x.samples /\ y.zoneSeconds = x.zoneSeconds
      /\ y.condition = x.condition /\ y.conditionSince = x.conditionSince
      /\ y.lastSpokenAt = x.lastSpokenAt /\ y.lowSpoken = x.lowSpoken
      /\ y.overshoots = x.overshoots /\ y.warning = x.warning
      /\ y.phase = x.phase /\ y.segments = x.segments
  BY DEF Exercise
<1>. HIDE DEF y
<1>3. SamplesInOrder(y) /\ ConditionSteady(y) /\ SpeechRemembered(y, heard) /\ WarningStands(y)
      /\ SegmentsStarted(y)
  BY <1>2 DEF ExerciseInv, SamplesInOrder, ConditionSteady, SpeechRemembered, WarningStands,
              SegmentsStarted
<1>4. HeldAndSpaced(y, heard)
  BY <1>2 DEF ExerciseInv, HeldAndSpaced, HeldBefore
<1>5. ZonesAddUp(y)
  <2>1. Closures(y) = Closures(x) /\ \A z \in Zones : InZone(y, z) = InZone(x, z)
    BY <1>2 DEF Closures, InZone
  <2>. QED
    BY <2>1, <1>2 DEF ExerciseInv, ZonesAddUp
<1>6. SegmentsOrdered(y)
  <2>1. ASSUME NEW i PROVE Spanned(y, i) = Spanned(x, i)
    BY <1>2 DEF Spanned
  <2>. QED
    BY <2>1, <1>2 DEF ExerciseInv, SegmentsOrdered
<1>. QED
  BY <1>1, <1>3, <1>4, <1>5, <1>6 DEF ExerciseInv, y

\* A look at a picture records a sample or pauses the exercise.
LEMMA Looked ==
    ASSUME CoachAssumption, now \in Times, NEW x \in Exercise,
           NEW ship \in [posed : BOOLEAN, reading : Pictures, at : Times], NEW at,
           NEW heard \in Seq(Said), ExerciseInv(x, heard),
           x.samples # <<>> => now > Last(x.samples).at
    PROVE  LET y == Updated(x, ship, at)
               g == heard \o Heard(x, ship, at)
           IN  /\ y \in Exercise /\ g \in Seq(Said) /\ ExerciseInv(y, g)
               /\ Heard(x, ship, at) \in Seq(Said) /\ Len(Heard(x, ship, at)) <= 1
<1>1. ship.reading \in Reading
  BY DEF CoachAssumption
<1>2. FeedbackFor(x, ship.reading) \in Seq(Said) /\ Len(FeedbackFor(x, ship.reading)) <= 1
  <2>1. CASE FeedbackFor(x, ship.reading) = <<>>
    BY <2>1
  <2>2. CASE FeedbackFor(x, ship.reading) # <<>>
    <3>1. PICK s \in Said : FeedbackFor(x, ship.reading) = <<s>>
      BY <1>1, <2>2, FeedbackGiven
    <3>. QED
      BY <3>1
  <2>. QED
    BY <2>1, <2>2
<1>3. CASE Current(ship, at)
  BY <1>1, <1>2, <1>3, ExerciseSampled DEF Updated, Heard
<1>4. CASE ~Current(ship, at)
  <2>1. Heard(x, ship, at) = <<>> /\ Updated(x, ship, at) = [x EXCEPT !.state = "PAUSED"]
    BY <1>4 DEF Updated, Heard
  <2>2. heard \o <<>> = heard
    BY ConcatEmptySeq
  <2>. QED
    BY <2>1, <2>2, Paused
<1>. QED
  BY <1>3, <1>4

\* What is true of an exercise is about its own past, and stays true.
LEMMA StaysTrue ==
    ASSUME CoachAssumption, now \in Times, now' \in Times, now <= now', NEW x \in Exercise,
           NEW heard, ExerciseInv(x, heard), active' = x, feedback' = heard
    PROVE  ExerciseInv(active, feedback)'
<1>1. SamplesInOrder(active)'
  <2>1. SamplesInOrder(x)
    BY DEF ExerciseInv
  <2>2. now \in Nat /\ now' \in Nat
    BY DEF Times, CoachAssumption
  <2>3. ASSUME NEW i \in DOMAIN x.samples PROVE x.samples[i].at <= now'
    <3>1. x.samples \in Seq(Sample)
      BY DEF Exercise
    <3>4. x.samples[i] \in Sample
      BY <3>1
    <3>2. x.samples[i].at \in Nat
      BY <3>4 DEF Sample, Times, CoachAssumption
    <3>3. x.samples[i].at <= now
      BY <2>1 DEF SamplesInOrder
    <3>. QED
      BY <2>2, <3>2, <3>3
  <2>. QED
    BY <2>1, <2>3 DEF SamplesInOrder
<1>. QED
  BY <1>1 DEF ExerciseInv

\* The inductive invariant of the coach.
CoachInv ==
    /\ CoachTypeOK /\ PermissionRespected /\ StatusTruth
    /\ active # Nothing => ExerciseInv(active, feedback)

LEMMA CoachInvInit == ASSUME CoachAssumption, CoachInit PROVE CoachInv
<1>1. now \in Times
  BY DEF CoachInit, CoachAssumption, Times
<1>2. [t \in {} |-> 0] \in [{} -> Times]
  OBVIOUS
<1>3. {} \in SUBSET References
  OBVIOUS
<1>4. \E objects \in SUBSET References : references \in [objects -> Times]
  BY <1>2, <1>3 DEF CoachInit
<1>5. caps \in [own : BOOLEAN, world : BOOLEAN] /\ starts \in 0 .. MaxStarts
  BY DEF CoachInit, CoachAssumption
<1>6. lastStatus \in [exercise : ExerciseId \cup {Nothing},
                     state : {"IDLE", "ACTIVE", "PAUSED", "STOPPED", "UNAVAILABLE"}]
  BY DEF CoachInit, Idle
<1>7. feedback \in Seq(Said) /\ Len(feedback) <= KeptFeedback
  BY DEF CoachInit, CoachAssumption
<1>8. CoachTypeOK
  BY <1>1, <1>4, <1>5, <1>6, <1>7 DEF CoachInit, CoachTypeOK
<1>. QED
  BY <1>8 DEF CoachInit, CoachInv, PermissionRespected, StatusTruth, Idle

LEMMA CapabilitiesChanged ==
    ASSUME CoachInv, NEW c \in [own : BOOLEAN, world : BOOLEAN], ChangeCapabilities(c)
    PROVE  /\ caps' \in [own : BOOLEAN, world : BOOLEAN]
           /\ lastStatus' \in [exercise : ExerciseId \cup {Nothing},
                               state : {"IDLE", "ACTIVE", "PAUSED", "STOPPED", "UNAVAILABLE"}]
           /\ active # Nothing /\ ~LosesExercise(c) => c.own /\ c.world
           /\ LosesExercise(c) => active # Nothing /\ lastStatus'.state = "UNAVAILABLE"
           /\ active = Nothing => lastStatus' = lastStatus
<1>1. CASE LosesExercise(c)
  <2>1. active \in Exercise
    BY <1>1 DEF LosesExercise, CoachInv, CoachTypeOK
  <2>2. active.id \in ExerciseId
    BY <2>1 DEF Exercise
  <2>3. lastStatus' = [exercise |-> active.id, state |-> "UNAVAILABLE"]
    BY <1>1 DEF ChangeCapabilities
  <2>4. lastStatus' \in [exercise : ExerciseId \cup {Nothing},
                         state : {"IDLE", "ACTIVE", "PAUSED", "STOPPED", "UNAVAILABLE"}]
    BY <2>2, <2>3
  <2>5. active # Nothing /\ lastStatus'.state = "UNAVAILABLE" /\ caps' = c
    BY <1>1, <2>3 DEF LosesExercise, ChangeCapabilities
  <2>. QED
    BY <1>1, <2>4, <2>5
<1>2. CASE ~LosesExercise(c)
  BY <1>2 DEF ChangeCapabilities, LosesExercise, Available, CoachInv, CoachTypeOK, PermissionRespected
<1>. QED
  BY <1>1, <1>2

LEMMA WithoutOwnship ==
    ASSUME CoachAssumption, CoachInv, TelemetryWithoutOwnship
    PROVE  CoachInv' /\ (active' = Nothing => active = Nothing \/ lastStatus'.state = "UNAVAILABLE")
<1>1. PICK c \in [own : BOOLEAN, world : BOOLEAN] :
        /\ ChangeCapabilities(c)
        /\ ownship' = Nothing
        /\ references' = KeptReferences(c)
        /\ active' = IF LosesExercise(c) THEN Nothing ELSE active
        /\ UNCHANGED <<now, feedback, lastDebrief, starts>>
  BY Zenon DEF TelemetryWithoutOwnship
<1>2. /\ caps' = c /\ caps' \in [own : BOOLEAN, world : BOOLEAN]
      /\ lastStatus' \in [exercise : ExerciseId \cup {Nothing},
                          state : {"IDLE", "ACTIVE", "PAUSED", "STOPPED", "UNAVAILABLE"}]
      /\ active # Nothing /\ ~LosesExercise(c) => c.own /\ c.world
      /\ LosesExercise(c) => active # Nothing /\ lastStatus'.state = "UNAVAILABLE"
      /\ active = Nothing => lastStatus' = lastStatus
  BY <1>1, CapabilitiesChanged DEF ChangeCapabilities
<1>3. (\E objects \in SUBSET References : references \in [objects -> Times])'
  <2>1. [t \in {} |-> 0] \in [{} -> Times] /\ {} \in SUBSET References
    OBVIOUS
  <2>2. PICK objects \in SUBSET References : references \in [objects -> Times]
    BY DEF CoachInv, CoachTypeOK
  <2>. QED
    BY <1>1, <2>1, <2>2 DEF KeptReferences
<1>4. PermissionRespected'
  BY <1>1, <1>2 DEF CoachInv, PermissionRespected, KeptReferences, CoachTypeOK
<1>5. ASSUME active' # Nothing PROVE ExerciseInv(active, feedback)'
  <2>1. active' = active /\ active # Nothing
    BY <1>1, <1>5
  <2>2. active \in Exercise /\ now \in Times /\ now <= now /\ ExerciseInv(active, feedback)
    BY <2>1 DEF CoachInv, CoachTypeOK, Times, CoachAssumption
  <2>. QED
    BY <1>1, <2>1, <2>2, StaysTrue
<1>6. (active \in Exercise \cup {Nothing})'
  BY <1>1 DEF CoachInv, CoachTypeOK
<1>7. CoachTypeOK'
  BY <1>1, <1>2, <1>3, <1>6 DEF CoachInv, CoachTypeOK
<1>8. active' = Nothing => active = Nothing \/ lastStatus'.state = "UNAVAILABLE"
  BY <1>1, <1>2
<1>9. StatusTruth'
  BY <1>2, <1>8 DEF CoachInv, StatusTruth
<1>. QED
  BY <1>4, <1>5, <1>7, <1>8, <1>9 DEF CoachInv

LEMMA WithOwnship ==
    ASSUME CoachAssumption, NothingAssumption, CoachInv, Telemetry
    PROVE  CoachInv' /\ (active' = Nothing => active = Nothing \/ lastStatus'.state = "UNAVAILABLE")
<1>1. PICK world \in BOOLEAN, posed \in BOOLEAN, objects \in SUBSET References, r \in Pictures :
        LET c    == [own |-> TRUE, world |-> world]
            ship == [posed |-> posed, reading |-> r, at |-> now]
            x    == IF LosesExercise(c) THEN Nothing ELSE active
        IN  /\ objects # {} => world
            /\ x # Nothing /\ x.samples # <<>> => now > Last(x.samples).at
            /\ ChangeCapabilities(c)
            /\ ownship' = ship
            /\ references' = [t \in objects |-> now]
            /\ IF x = Nothing
               THEN active' = Nothing /\ UNCHANGED feedback
               ELSE LET t == RequiredReference(x.id) IN
                    IF t \in objects
                    THEN /\ active' = Updated(x, ship, now)
                         /\ feedback' = Kept(feedback \o Heard(x, ship, now))
                    ELSE active' = [x EXCEPT !.state = "PAUSED"] /\ UNCHANGED feedback
            /\ UNCHANGED <<now, lastDebrief, starts>>
  BY Zenon DEF Telemetry
<1>. DEFINE c == [own |-> TRUE, world |-> world]
            ship == [posed |-> posed, reading |-> r, at |-> now]
            x == IF LosesExercise(c) THEN Nothing ELSE active
<1>2. c \in [own : BOOLEAN, world : BOOLEAN] /\ c.own /\ c.world = world
  OBVIOUS
<1>3. ship \in [posed : BOOLEAN, reading : Pictures, at : Times] /\ now \in Times
  BY DEF CoachInv, CoachTypeOK
<1>4. /\ objects # {} => world
      /\ x # Nothing /\ x.samples # <<>> => now > Last(x.samples).at
      /\ ChangeCapabilities(c) /\ ownship' = ship /\ references' = [t \in objects |-> now]
      /\ x = Nothing => active' = Nothing /\ feedback' = feedback
      /\ x # Nothing /\ RequiredReference(x.id) \in objects =>
            /\ active' = Updated(x, ship, now)
            /\ feedback' = Kept(feedback \o Heard(x, ship, now))
      /\ x # Nothing /\ RequiredReference(x.id) \notin objects =>
            active' = [x EXCEPT !.state = "PAUSED"] /\ feedback' = feedback
      /\ now' = now /\ lastDebrief' = lastDebrief /\ starts' = starts
  BY <1>1, Zenon
<1>. HIDE DEF c, ship
<1>5. /\ caps' = c /\ caps' \in [own : BOOLEAN, world : BOOLEAN]
      /\ lastStatus' \in [exercise : ExerciseId \cup {Nothing},
                          state : {"IDLE", "ACTIVE", "PAUSED", "STOPPED", "UNAVAILABLE"}]
      /\ x # Nothing => x = active /\ c.own /\ c.world
      /\ x = Nothing => active = Nothing \/ lastStatus'.state = "UNAVAILABLE"
      /\ active = Nothing => lastStatus' = lastStatus
  BY <1>2, <1>4, CapabilitiesChanged DEF ChangeCapabilities
<1>. HIDE DEF x
<1>6. (\E held \in SUBSET References : references \in [held -> Times])'
  <2>1. [t \in objects |-> now] \in [objects -> Times]
    BY <1>3
  <2>. QED
    BY <1>4, <2>1
<1>7. ~world => references' = [t \in {} |-> 0]
  <2>1. ASSUME ~world PROVE references' = [t \in {} |-> 0]
    <3>1. objects = {}
      BY <2>1, <1>4
    <3>. QED
      BY <1>4, <3>1
  <2>. QED
    BY <2>1
<1>8. feedback \in Seq(Said) /\ Len(feedback) <= KeptFeedback
  BY DEF CoachInv, CoachTypeOK
<1>9. CASE x = Nothing
  <2>1. active' = Nothing /\ feedback' = feedback
    BY <1>4, <1>9
  <2>2. CoachTypeOK'
    BY <1>3, <1>4, <1>5, <1>6, <2>1 DEF CoachInv, CoachTypeOK
  <2>3. PermissionRespected'
    BY <1>2, <1>5, <1>7, <2>1 DEF PermissionRespected
  <2>4. active = Nothing \/ lastStatus'.state = "UNAVAILABLE"
    BY <1>5, <1>9
  <2>5. StatusTruth'
    BY <1>5, <2>4 DEF CoachInv, StatusTruth
  <2>. QED
    BY <2>1, <2>2, <2>3, <2>4, <2>5 DEF CoachInv
<1>10. CASE x # Nothing
  <2>1. x = active /\ x \in Exercise /\ ExerciseInv(x, feedback) /\ c.own /\ c.world
    BY <1>5, <1>10 DEF CoachInv, CoachTypeOK
  <2>2. PICK y, g : /\ active' = y /\ feedback' = g /\ y \in Exercise /\ g \in Seq(Said)
                    /\ Len(g) <= KeptFeedback /\ ExerciseInv(y, g)
    <3>1. CASE RequiredReference(x.id) \in objects
      <4>1. PICK y, h : /\ y = Updated(x, ship, now) /\ h = feedback \o Heard(x, ship, now)
                        /\ y \in Exercise /\ h \in Seq(Said) /\ ExerciseInv(y, h)
        BY <1>3, <1>4, <1>8, <1>10, <2>1, Looked
      <4>2. /\ Kept(h) \in Seq(Said) /\ Len(Kept(h)) <= KeptFeedback
            /\ HeldAndSpaced(y, Kept(h)) /\ SpeechRemembered(y, Kept(h))
        BY <4>1, KeptSaid DEF ExerciseInv
      <4>3. ExerciseInv(y, Kept(h))
        BY <4>1, <4>2 DEF ExerciseInv
      <4>. QED
        BY <1>4, <1>10, <3>1, <4>1, <4>2, <4>3
    <3>2. CASE RequiredReference(x.id) \notin objects
      BY <1>4, <1>8, <1>10, <2>1, <3>2, Paused
    <3>. QED
      BY <3>1, <3>2
  <2>3. CoachTypeOK'
    BY <1>3, <1>4, <1>5, <1>6, <2>2 DEF CoachInv, CoachTypeOK
  <2>4. PermissionRespected'
    BY <1>5, <2>1 DEF PermissionRespected
  <2>5. now <= now /\ now' = now
    BY <1>3, <1>4 DEF Times, CoachAssumption
  <2>6. ExerciseInv(active, feedback)'
    BY <1>3, <2>2, <2>5, StaysTrue
  <2>7. active' # Nothing
    BY <2>2 DEF NothingAssumption
  <2>. QED
    BY <2>3, <2>4, <2>6, <2>7 DEF CoachInv, StatusTruth
<1>. QED
  BY <1>9, <1>10

LEMMA Started ==
    ASSUME CoachAssumption, NothingAssumption, CoachInv, NEW e \in Exercises, Start(e)
    PROVE  CoachInv'
<1>. DEFINE x == CreateExercise(e)
            at == references[RequiredReference(e)]
<1>1. now \in Times /\ e \in ExerciseId /\ now <= now /\ <<>> \in Seq(Said) /\ KeptFeedback >= 1
  BY DEF CoachInv, CoachTypeOK, CoachAssumption, Times
<1>2. x \in Exercise /\ ExerciseInv(x, <<>>) /\ x.samples = <<>>
  BY <1>1, Created DEF CreateExercise
<1>3. /\ caps.own /\ caps.world /\ caps' = caps /\ starts < MaxStarts /\ starts' = starts + 1
      /\ now' = now /\ ownship' = ownship /\ references' = references
      /\ lastDebrief' = IF active # Nothing THEN Debrief(active, "replaced") ELSE lastDebrief
      /\ active' = IF ownship # Nothing THEN Updated(x, ownship, at) ELSE x
      /\ feedback' = IF ownship # Nothing THEN Heard(x, ownship, at) ELSE <<>>
      /\ lastStatus' = StatusOf(active')
  BY DEF Start, Startable, Available
<1>. HIDE DEF x, at
<1>4. PICK y, g : /\ active' = y /\ feedback' = g /\ y \in Exercise /\ g \in Seq(Said)
                  /\ Len(g) <= KeptFeedback /\ ExerciseInv(y, g)
  <2>1. CASE ownship # Nothing
    <3>1. ownship \in [posed : BOOLEAN, reading : Pictures, at : Times]
      BY <2>1 DEF CoachInv, CoachTypeOK
    <3>2. PICK y, h : /\ y = Updated(x, ownship, at) /\ h = <<>> \o Heard(x, ownship, at)
                      /\ y \in Exercise /\ h \in Seq(Said) /\ ExerciseInv(y, h)
                      /\ Heard(x, ownship, at) \in Seq(Said) /\ Len(Heard(x, ownship, at)) <= 1
      BY <1>1, <1>2, <3>1, Looked
    <3>3. h = Heard(x, ownship, at)
      BY <3>2, ConcatEmptySeq
    <3>4. Len(h) <= KeptFeedback
      BY <1>1, <3>2, <3>3 DEF CoachAssumption
    <3>. QED
      BY <1>3, <2>1, <3>2, <3>3, <3>4
  <2>2. CASE ownship = Nothing
    <3>1. active' = x /\ feedback' = <<>> /\ Len(<<>>) <= KeptFeedback
      BY <1>1, <1>3, <2>2 DEF CoachAssumption
    <3>. QED
      BY <1>1, <1>2, <3>1
  <2>. QED
    BY <2>1, <2>2
<1>5. lastStatus' \in [exercise : ExerciseId \cup {Nothing},
                       state : {"IDLE", "ACTIVE", "PAUSED", "STOPPED", "UNAVAILABLE"}]
  <2>1. y.id \in ExerciseId /\ y.state \in {"ACTIVE", "PAUSED"}
    BY <1>4 DEF Exercise
  <2>. QED
    BY <1>3, <1>4, <2>1 DEF StatusOf
<1>6. lastDebrief' \in Flown \cup {Nothing}
  <2>1. CASE active # Nothing
    <3>1. active.id \in ExerciseId /\ active.startedAt \in Times /\ Len(active.samples) \in Nat
      BY <2>1, SMTT(30) DEF CoachInv, CoachTypeOK, Exercise
    <3>. QED
      BY <1>3, <2>1, <3>1 DEF Debrief, Flown
  <2>2. CASE active = Nothing
    BY <1>3, <2>2 DEF CoachInv, CoachTypeOK
  <2>. QED
    BY <2>1, <2>2
<1>7. starts' \in 0 .. MaxStarts
  BY <1>3 DEF CoachInv, CoachTypeOK, CoachAssumption
<1>8. CoachTypeOK'
  BY <1>3, <1>4, <1>5, <1>6, <1>7 DEF CoachInv, CoachTypeOK
<1>9. PermissionRespected'
  BY <1>3 DEF CoachInv, PermissionRespected
<1>10. ExerciseInv(active, feedback)'
  BY <1>1, <1>3, <1>4, StaysTrue
<1>11. active' # Nothing
  BY <1>4 DEF NothingAssumption
<1>. QED
  BY <1>8, <1>9, <1>10, <1>11 DEF CoachInv, StatusTruth

LEMMA Stopped ==
    ASSUME CoachAssumption, CoachInv, Stop
    PROVE  CoachInv' /\ lastDebrief' \in Flown
<1>1. active \in Exercise
  BY DEF Stop, CoachInv, CoachTypeOK
<1>2. active.id \in ExerciseId /\ active.startedAt \in Times /\ Len(active.samples) \in Nat
  BY <1>1 DEF Exercise
<1>3. lastDebrief' \in Flown
  BY <1>2 DEF Stop, Debrief, Flown
<1>4. lastStatus' \in [exercise : ExerciseId \cup {Nothing},
                       state : {"IDLE", "ACTIVE", "PAUSED", "STOPPED", "UNAVAILABLE"}]
  BY <1>2 DEF Stop
<1>5. CoachTypeOK'
  BY <1>3, <1>4 DEF Stop, CoachInv, CoachTypeOK
<1>. QED
  BY <1>3, <1>5 DEF Stop, CoachInv, PermissionRespected, StatusTruth

LEMMA ResetAll == ASSUME CoachAssumption, CoachInv, Reset PROVE CoachInv'
<1>1. [t \in {} |-> 0] \in [{} -> Times] /\ {} \in SUBSET References
  OBVIOUS
<1>2. (\E objects \in SUBSET References : references \in [objects -> Times])'
  BY <1>1 DEF Reset
<1>3. lastStatus' \in [exercise : ExerciseId \cup {Nothing},
                       state : {"IDLE", "ACTIVE", "PAUSED", "STOPPED", "UNAVAILABLE"}]
  BY DEF Reset, Idle
<1>4. feedback' \in Seq(Said) /\ Len(feedback') <= KeptFeedback
  BY DEF Reset, CoachAssumption
<1>5. CoachTypeOK'
  BY <1>2, <1>3, <1>4 DEF Reset, CoachInv, CoachTypeOK
<1>. QED
  BY <1>5 DEF Reset, CoachInv, PermissionRespected, StatusTruth, Idle

LEMMA Ticked == ASSUME CoachAssumption, CoachInv, CoachTick PROVE CoachInv'
<1>1. now \in Times /\ now' \in Times /\ now <= now'
  BY DEF CoachTick, CoachInv, CoachTypeOK, CoachAssumption, Times
<1>2. CoachTypeOK'
  BY <1>1 DEF CoachTick, CoachInv, CoachTypeOK
<1>3. PermissionRespected' /\ StatusTruth'
  BY DEF CoachTick, CoachInv, PermissionRespected, StatusTruth
<1>4. ASSUME active' # Nothing PROVE ExerciseInv(active, feedback)'
  <2>1. active \in Exercise /\ ExerciseInv(active, feedback) /\ active' = active
        /\ feedback' = feedback
    BY <1>4 DEF CoachTick, CoachInv, CoachTypeOK
  <2>. QED
    BY <1>1, <2>1, StaysTrue
<1>. QED
  BY <1>2, <1>3, <1>4 DEF CoachInv

\* What the exercise remembers is what its samples and its feedback show
\* (FormationExercise, CarrierApproachExercise, Case1Exercise).
THEOREM CoachInvariance == CoachSpec => []CoachInv
<1>1. CoachInit => CoachInv
  BY CoachInvInit, CoachAssumption
<1>2. CoachInv /\ [CoachNext]_coachVars => CoachInv'
  <2>1. SUFFICES ASSUME CoachInv, [CoachNext]_coachVars PROVE CoachInv'
    OBVIOUS
  <2>2. CASE TelemetryWithoutOwnship
    BY <2>1, <2>2, WithoutOwnship, CoachAssumption
  <2>3. CASE Telemetry
    BY <2>1, <2>3, WithOwnship, CoachAssumption, NothingAssumption
  <2>4. CASE \E e \in Exercises : Start(e)
    BY <2>1, <2>4, Started, CoachAssumption, NothingAssumption
  <2>5. CASE Stop
    BY <2>1, <2>5, Stopped, CoachAssumption
  <2>6. CASE Reset
    BY <2>1, <2>6, ResetAll, CoachAssumption
  <2>7. CASE CoachTick
    BY <2>1, <2>7, Ticked, CoachAssumption
  <2>8. CASE UNCHANGED coachVars
    <3>1. /\ now' = now /\ caps' = caps /\ ownship' = ownship /\ references' = references
          /\ active' = active /\ lastStatus' = lastStatus /\ feedback' = feedback
          /\ lastDebrief' = lastDebrief /\ starts' = starts
      BY <2>8 DEF coachVars
    <3>2. CoachTypeOK' /\ PermissionRespected' /\ StatusTruth'
      BY <2>1, <3>1 DEF CoachInv, CoachTypeOK, PermissionRespected, StatusTruth
    <3>3. ASSUME active' # Nothing PROVE ExerciseInv(active, feedback)'
      <4>1. active \in Exercise /\ ExerciseInv(active, feedback) /\ now \in Times /\ now <= now
        BY <2>1, <3>1, <3>3, CoachAssumption DEF CoachInv, CoachTypeOK, Times, CoachAssumption
      <4>. QED
        BY <3>1, <4>1, StaysTrue, CoachAssumption
    <3>. QED
      BY <3>2, <3>3 DEF CoachInv
  <2>. QED
    BY <2>1, <2>2, <2>3, <2>4, <2>5, <2>6, <2>7, <2>8 DEF CoachNext
<1>. QED
  BY <1>1, <1>2, PTL DEF CoachSpec

\* Every variable keeps its type.
THEOREM CoachTyped == CoachSpec => []CoachTypeOK
<1>1. CoachInv => CoachTypeOK
  BY DEF CoachInv
<1>. QED
  BY <1>1, CoachInvariance, PTL

\* CapabilityManager.update: no exercise runs without both permissions, and a
\* store without world-object export holds no object.
THEOREM PermissionAlwaysRespected == CoachSpec => []PermissionRespected
<1>1. CoachInv => PermissionRespected
  BY DEF CoachInv
<1>. QED
  BY <1>1, CoachInvariance, PTL

\* coach_get_status: without an exercise none is reported.
THEOREM StatusAlwaysTrue == CoachSpec => []StatusTruth
<1>1. CoachInv => StatusTruth
  BY DEF CoachInv
<1>. QED
  BY <1>1, CoachInvariance, PTL

\* An exercise that is stopped or replaced leaves its debrief, whatever ends it.
THEOREM DebriefsAlwaysKept == CoachSpec => DebriefKept
<1>. DEFINE Ended == active # Nothing /\ (active' = Nothing \/ starts' # starts) =>
                        \/ /\ lastDebrief' # Nothing
                           /\ lastDebrief'.exercise = active.id
                           /\ lastDebrief'.startedAt = active.startedAt
                           /\ lastDebrief'.samples = Len(active.samples)
                        \/ lastStatus'.state \in {"UNAVAILABLE", "IDLE"}
<1>1. CoachInv /\ [CoachNext]_coachVars => [Ended]_coachVars
  <2>1. SUFFICES ASSUME CoachInv, CoachNext, active # Nothing,
                        active' = Nothing \/ starts' # starts
                 PROVE  \/ /\ lastDebrief' # Nothing
                           /\ lastDebrief'.exercise = active.id
                           /\ lastDebrief'.startedAt = active.startedAt
                           /\ lastDebrief'.samples = Len(active.samples)
                        \/ lastStatus'.state \in {"UNAVAILABLE", "IDLE"}
    OBVIOUS
  <2>2. CASE TelemetryWithoutOwnship
    <3>1. starts' = starts
      BY <2>2 DEF TelemetryWithoutOwnship
    <3>. QED
      BY <2>1, <2>2, <3>1, WithoutOwnship, CoachAssumption
  <2>3. CASE Telemetry
    <3>1. starts' = starts
      BY <2>3, Zenon DEF Telemetry
    <3>. QED
      BY <2>1, <2>3, <3>1, WithOwnship, CoachAssumption, NothingAssumption
  <2>4. CASE \E e \in Exercises : Start(e)
    <3>1. lastDebrief' = Debrief(active, "replaced")
      BY <2>1, <2>4 DEF Start
    <3>2. active.id \in ExerciseId /\ active.startedAt \in Times /\ Len(active.samples) \in Nat
      BY <2>1 DEF CoachInv, CoachTypeOK, Exercise
    <3>3. lastDebrief' \in Flown
      BY <3>1, <3>2 DEF Debrief, Flown
    <3>. QED
      BY <3>1, <3>3, NothingAssumption DEF NothingAssumption, Debrief
  <2>5. CASE Stop
    <3>1. lastDebrief' # Nothing
      BY <2>1, <2>5, Stopped, CoachAssumption, NothingAssumption DEF NothingAssumption
    <3>. QED
      BY <2>5, <3>1 DEF Stop, Debrief
  <2>6. CASE Reset
    BY <2>6 DEF Reset, Idle
  <2>7. CASE CoachTick
    BY <2>1, <2>7 DEF CoachTick
  <2>. QED
    BY <2>1, <2>2, <2>3, <2>4, <2>5, <2>6, <2>7 DEF CoachNext
<1>. QED
  BY <1>1, CoachInvariance, PTL DEF CoachSpec, DebriefKept

\* _feedback_for: feedback answers what has held, spaced by its cooldown.
THEOREM FeedbackAlwaysHeldAndSpaced == CoachSpec => []FeedbackHeldAndSpaced
<1>1. CoachInv => FeedbackHeldAndSpaced
  BY DEF CoachInv, ExerciseInv, FeedbackHeldAndSpaced
<1>. QED
  BY <1>1, CoachInvariance, PTL

\* The debriefs of the echelons and of the pattern add up.
THEOREM DebriefsAlwaysFactual == CoachSpec => []DebriefFacts
<1>1. CoachInv => DebriefFacts
  BY DEF CoachInv, ExerciseInv, DebriefFacts
<1>. QED
  BY <1>1, CoachInvariance, PTL

==============================================================================

------------------------ MODULE RuleLifecycleProofs ------------------------
(***************************************************************************)
(* Theorems about RuleLifecycle, and about its timing as RuleHistory       *)
(* observes it, for every set of rules and aircraft and every debounce,    *)
(* cooldown, chatter level and bound.                                      *)
(***************************************************************************)
EXTENDS RuleHistory, TLAPS

\* Evaluating a rule yields a runtime again.
LEMMA EvaluateType ==
    ASSUME NEW r \in Rules, NEW rt \in RuleRuntime,
           NEW a \in Aircraft \cup {NoAircraft},
           NEW applicable \in BOOLEAN, NEW violated \in BOOLEAN, now \in Nat
    PROVE  Evaluate(r, rt, a, applicable, violated) \in RuleRuntime
<1>1. Settled(rt) \in RuleRuntime
  BY DEF Settled, RuleRuntime
<1>2. Deactivate(rt) \in RuleRuntime
  BY <1>1 DEF Deactivate, RuleRuntime
<1>3. Activate(r, rt, a) \in RuleRuntime
  BY <1>1 DEF Activate, RuleRuntime
<1>4. Wanted(violated) \in {"on", "off"}
  BY DEF Wanted
<1>5. Since(rt, violated) \in Nat \cup {None}
  BY DEF Since, RuleRuntime
<1>6. [rt EXCEPT !.candidate_active = Wanted(violated),
                 !.candidate_since = Since(rt, violated)] \in RuleRuntime
  BY <1>4, <1>5 DEF RuleRuntime
<1>7. Advance(r, rt, a, violated) \in RuleRuntime
  BY <1>1, <1>2, <1>3, <1>6 DEF Advance
<1>. QED
  BY <1>2, <1>7 DEF Evaluate

\* An evaluation never moves an active issue to another aircraft, leaves one
\* only with a rule that is applicable, and opens one only on aircraft a.
LEMMA EvaluateIssue ==
    ASSUME NEW r \in Rules, NEW rt \in RuleRuntime,
           NEW a, NEW applicable \in BOOLEAN, NEW violated \in BOOLEAN,
           Active(Evaluate(r, rt, a, applicable, violated))
    PROVE  /\ applicable
           /\ Evaluate(r, rt, a, applicable, violated).issue
                = IF Active(rt) THEN rt.issue ELSE a
<1>1. ~Active(Deactivate(rt))
  BY DEF Active, Deactivate, Settled, RuleRuntime
<1>2. applicable
  BY <1>1 DEF Evaluate
<1>3. Settled(rt).issue = rt.issue
  BY DEF Settled, RuleRuntime
<1>4. Activate(r, rt, a).issue = a
  BY DEF Activate, Settled, RuleRuntime
<1>5. [rt EXCEPT !.candidate_active = Wanted(violated),
                 !.candidate_since = Since(rt, violated)].issue = rt.issue
  BY DEF RuleRuntime
<1>6. Advance(r, rt, a, violated).issue = IF Active(rt) THEN rt.issue ELSE a
  <2>1. Evaluate(r, rt, a, applicable, violated) = Advance(r, rt, a, violated)
    BY <1>2 DEF Evaluate
  <2>2. Active(Advance(r, rt, a, violated))
    BY <2>1
  <2>3. CASE violated <=> Active(rt)
    BY <2>2, <2>3, <1>3 DEF Advance, Active
  <2>4. CASE ~(violated <=> Active(rt)) /\ Waiting(r, rt, violated)
    BY <2>2, <2>4, <1>5 DEF Advance, Active
  <2>5. CASE ~(violated <=> Active(rt)) /\ ~Waiting(r, rt, violated)
    BY <2>2, <2>5, <1>1, <1>4 DEF Advance
  <2>. QED
    BY <2>3, <2>4, <2>5
<1>. QED
  BY <1>2, <1>6 DEF Evaluate

------------------------------------------------------------------------------

\* What one pass does to a rule: it is activated on aircraft a, or keeps its
\* issue, or is left without one.
LEMMA PassCases ==
    ASSUME TypeOK,
           NEW a \in Aircraft \cup {NoAircraft},
           NEW usable \in SUBSET Rules, NEW violated \in SUBSET usable,
           NEW r \in Rules
    PROVE  LET after     == Evaluated(a, usable, violated)[r]
               closed    == Closed(a, usable, violated)
               activated == Activated(a, usable, violated)
           IN  \/ /\ r \in activated
                  /\ Active(after) /\ after.issue = a
                  /\ r \in Evaluable(a, usable)
                  /\ Active(runtime[r]) => Cleared(a) /\ r \in closed
               \/ /\ r \notin activated /\ r \notin closed
                  /\ ~Cleared(a)
                  /\ Active(after) /\ Active(runtime[r])
                  /\ after.issue = runtime[r].issue
                  /\ r \in Evaluable(a, usable)
               \/ /\ r \notin activated
                  /\ ~Active(after)
                  /\ Active(runtime[r]) => r \in closed
<1> DEFINE prior == Prior(a)[r]
           applicable == r \in Evaluable(a, usable)
           after == Evaluated(a, usable, violated)[r]
<1>1. after = Evaluate(r, prior, a, applicable, r \in violated)
  BY DEF Evaluated
<1>2. prior \in RuleRuntime
  BY DEF TypeOK, Prior, FreshRuntime, RuleRuntime
<1>3. Active(after) => applicable /\ after.issue = IF Active(prior) THEN prior.issue ELSE a
  <2> SUFFICES ASSUME Active(after)
               PROVE  applicable /\ after.issue = IF Active(prior) THEN prior.issue ELSE a
    OBVIOUS
  <2> DEFINE bad == r \in violated
  <2>1. applicable \in BOOLEAN /\ bad \in BOOLEAN
    OBVIOUS
  <2>2. after = Evaluate(r, prior, a, applicable, bad)
    BY <1>1
  <2> HIDE DEF prior, applicable, after, bad
  <2>3. Active(Evaluate(r, prior, a, applicable, bad))
    BY <2>2
  <2>4. /\ applicable
        /\ Evaluate(r, prior, a, applicable, bad).issue
             = IF Active(prior) THEN prior.issue ELSE a
    BY ONLY <1>2, <2>1, <2>3, r \in Rules, EvaluateIssue
  <2>. QED
    BY <2>2, <2>4
<1>4. Cleared(a) => ~Active(prior)
  BY DEF Prior, FreshRuntime, Active
<1>5. ~Cleared(a) => prior = runtime[r]
  BY DEF Prior
<1>6. r \in Activated(a, usable, violated) <=> ~Active(prior) /\ Active(after)
  BY DEF Activated
<1>7. r \in Closed(a, usable, violated)
        <=> Active(runtime[r]) /\ (Cleared(a) \/ ~Active(after))
  BY DEF Closed
<1> HIDE DEF prior, applicable, after
<1>8. CASE Active(after) /\ ~Active(prior)
  BY <1>3, <1>4, <1>5, <1>6, <1>7, <1>8 DEF applicable, after
<1>9. CASE Active(after) /\ Active(prior)
  BY <1>3, <1>4, <1>5, <1>6, <1>7, <1>9 DEF applicable, after
<1>10. CASE ~Active(after)
  BY <1>6, <1>7, <1>10 DEF after
<1>. QED
  BY <1>8, <1>9, <1>10

\* A pass over all rules yields a runtime for each of them.
LEMMA EvaluatedType ==
    ASSUME TypeOK, ConstantsAssumption,
           NEW a \in Aircraft \cup {NoAircraft},
           NEW usable \in SUBSET Rules, NEW violated \in SUBSET usable
    PROVE  Evaluated(a, usable, violated) \in [Rules -> RuleRuntime]
<1> SUFFICES ASSUME NEW r \in Rules
             PROVE  Evaluate(r, Prior(a)[r], a, r \in Evaluable(a, usable),
                             r \in violated) \in RuleRuntime
  BY DEF Evaluated
<1>1. Prior(a)[r] \in RuleRuntime
  BY DEF TypeOK, Prior, FreshRuntime, RuleRuntime
<1>2. (r \in Evaluable(a, usable)) \in BOOLEAN /\ (r \in violated) \in BOOLEAN
  OBVIOUS
<1>3. now \in Nat
  BY DEF TypeOK
<1>. QED
  BY <1>1, <1>2, <1>3, EvaluateType

\* The rules that are activated and those that are closed are rules.
LEMMA PassSets ==
    ASSUME NEW a, NEW usable \in SUBSET Rules, NEW violated \in SUBSET usable
    PROVE  /\ Activated(a, usable, violated) \subseteq Rules
           /\ Closed(a, usable, violated) \subseteq Rules
           /\ Evaluable(a, usable) \subseteq Rules
           /\ Spoken(a, Activated(a, usable, violated))
                \subseteq Activated(a, usable, violated)
BY DEF Activated, Closed, Evaluable, Spoken

------------------------------------------------------------------------------

\* The invariant holds when the connection is opened.
LEMMA InitIInv == Init => IInv
<1> SUFFICES ASSUME Init PROVE IInv
  OBVIOUS
<1> USE ConstantsAssumption DEF Init
<1>1. TypeOK
  BY DEF TypeOK, RuleRuntime, FreshRuntime, Modes
<1>2. \A r \in Rules : ~Active(runtime[r])
  BY DEF Active, FreshRuntime
<1>3. IssuesHaveEvents /\ IssuesCounted
  BY <1>2 DEF IssuesHaveEvents, IssuesCounted
<1>4. AnnouncementsWithdrawn /\ EventIdsFresh
  BY DEF AnnouncementsWithdrawn, EventIdsFresh
<1>5. CountsCovered /\ ActivationsConserved
  BY DEF CountsCovered, ActivationsConserved
<1>. QED
  BY <1>1, <1>3, <1>4, <1>5 DEF IInv

\* The heart of the argument: one pass of update that does not raise.
LEMMA UpdateIInv ==
    ASSUME IInv,
           NEW a \in Aircraft \cup {NoAircraft},
           NEW usable \in SUBSET Rules, NEW violated \in SUBSET usable,
           Update(a, usable, violated),
           connection' \in {"open", "closed"}
    PROVE  IInv'
<1> DEFINE activated == Activated(a, usable, violated)
           closed    == Closed(a, usable, violated)
           after     == Evaluated(a, usable, violated)
           evaluable == Evaluable(a, usable)
           closing   == {OpenEvent(r) : r \in closed}
           opening   == {NewEvent(r) : r \in Spoken(a, activated)}
<1>1. /\ runtime' = after
      /\ current' = a
      /\ now' = now
      /\ speech_mode' = speech_mode
      /\ connection = "open"
  BY DEF Update
<1>2. /\ raised' = [r \in Rules |->
                      raised[r] + (IF r \in activated THEN 1 ELSE 0)]
      /\ active_event_ids' = [r \in Rules |->
                IF r \in activated THEN raised[r] + 1
                ELSE IF r \in closed \/ Cleared(a) THEN None
                ELSE active_event_ids[r]]
      /\ published_event_ids' =
                (IF Cleared(a) THEN {} ELSE published_event_ids \ closing)
                    \cup opening
      /\ announced' = announced \cup opening
      /\ withdrawn' = withdrawn \cup (published_event_ids \cap closing)
  BY DEF Update, HandleTransitions
<1>3. /\ flight_aircraft' = a
      /\ covered' = (IF Finishing(a) THEN {} ELSE covered) \cup evaluable
      /\ activations' = [r \in Rules |->
            (IF Finishing(a) THEN 0 ELSE activations[r])
                + (IF r \in activated \cap covered' THEN 1 ELSE 0)]
      /\ archived' = [r \in Rules |->
            archived[r]
                + (IF Finishing(a) /\ r \in covered THEN activations[r] ELSE 0)]
  BY DEF Update, Observe, CountKept
<1>4. /\ activated \subseteq Rules /\ closed \subseteq Rules
      /\ evaluable \subseteq Rules /\ Spoken(a, activated) \subseteq activated
  BY PassSets
<1>5. after \in [Rules -> RuleRuntime]
  BY EvaluatedType, ConstantsAssumption DEF IInv
<1>6. ASSUME NEW r \in Rules
      PROVE  \/ /\ r \in activated
                /\ Active(after[r]) /\ after[r].issue = a
                /\ r \in evaluable
                /\ Active(runtime[r]) => Cleared(a) /\ r \in closed
             \/ /\ r \notin activated /\ r \notin closed
                /\ ~Cleared(a)
                /\ Active(after[r]) /\ Active(runtime[r])
                /\ after[r].issue = runtime[r].issue
                /\ r \in evaluable
             \/ /\ r \notin activated
                /\ ~Active(after[r])
                /\ Active(runtime[r]) => r \in closed
  BY PassCases DEF IInv
<1>7. \A r \in closed : Active(runtime[r])
  BY DEF Closed
<1>8. \A r \in evaluable : a \in AircraftNames[r]
  BY DEF Evaluable
<1> HIDE DEF activated, closed, after, evaluable
<1>9. TypeOK'
  <2> USE DEF IInv, TypeOK
  <2>1. opening \subseteq EventIds
    BY <1>4 DEF NewEvent, EventIds
  <2>2. raised' \in [Rules -> Nat] /\ active_event_ids' \in [Rules -> Nat \cup {None}]
    BY <1>2
  <2>3. activations' \in [Rules -> Nat] /\ archived' \in [Rules -> Nat]
    BY <1>3
  <2>4. published_event_ids' \subseteq EventIds /\ announced' \subseteq EventIds
        /\ withdrawn' \subseteq EventIds
    BY <2>1, <1>2
  <2>5. covered' \subseteq Rules
    BY <1>3, <1>4
  <2>. QED
    BY <1>1, <1>3, <1>5, <2>2, <2>3, <2>4, <2>5
\* Events numbered so far, and the open ones among them.
<1>10. /\ \A e \in published_event_ids : e[1] \in Rules /\ e = OpenEvent(e[1])
       /\ \A e \in announced : e[1] \in Rules /\ e[2] \in Nat /\ e[2] <= raised[e[1]]
       /\ withdrawn \subseteq announced
       /\ announced \ withdrawn = published_event_ids
  BY <1>1 DEF IInv, TypeOK, EventIds, IssuesHaveEvents, EventIdsFresh,
              AnnouncementsWithdrawn
<1>11. \A e \in published_event_ids : Active(runtime[e[1]])
  <2> SUFFICES ASSUME NEW e \in published_event_ids, ~Active(runtime[e[1]])
               PROVE  FALSE
    OBVIOUS
  <2>1. e[2] = None
    BY <1>10 DEF IInv, IssuesHaveEvents, OpenEvent
  <2>2. e[2] \in Nat
    BY DEF IInv, TypeOK, EventIds
  <2>. QED
    BY <2>1, <2>2, ConstantsAssumption
<1>12. Cleared(a) => published_event_ids \subseteq closing
  <2> SUFFICES ASSUME Cleared(a), NEW e \in published_event_ids
               PROVE  e \in closing
    OBVIOUS
  <2>1. e[1] \in closed
    BY <1>10, <1>11 DEF closed, Closed
  <2>. QED
    BY <2>1, <1>10
<1>13. \A e \in opening : /\ e[1] \in activated
                          /\ e = <<e[1], raised[e[1]] + 1>>
                          /\ e \notin announced
  <2> SUFFICES ASSUME NEW r \in Spoken(a, activated)
               PROVE  /\ r \in activated
                      /\ NewEvent(r) = <<r, raised[r] + 1>>
                      /\ NewEvent(r) \notin announced
    BY DEF NewEvent
  <2>1. r \in Rules /\ raised[r] \in Nat
    BY <1>4 DEF IInv, TypeOK
  <2>. QED
    BY <2>1, <1>4, <1>10 DEF NewEvent
<1>14. IssuesHaveEvents'
  <2>1. ASSUME NEW r \in Rules
        PROVE  active_event_ids'[r]
                 = IF Active(after[r]) THEN raised'[r] ELSE None
    <3>1. active_event_ids[r] = IF Active(runtime[r]) THEN raised[r] ELSE None
      BY DEF IInv, IssuesHaveEvents
    <3>2. raised[r] \in Nat
      BY DEF IInv, TypeOK
    <3>. QED
      BY <1>2, <1>6, <3>1, <3>2
  <2>2. ASSUME NEW e \in published_event_ids'
        PROVE  e = <<e[1], active_event_ids'[e[1]]>>
    <3>1. CASE e \in opening
      BY <3>1, <1>2, <1>4, <1>13
    <3>2. CASE e \notin opening
      <4>1. e \in published_event_ids /\ e \notin closing /\ ~Cleared(a)
        BY <3>2, <1>2
      <4>2. e[1] \in Rules /\ e = OpenEvent(e[1]) /\ Active(runtime[e[1]])
        BY <4>1, <1>10, <1>11
      <4>3. e[1] \notin closed
        BY <4>1, <4>2
      <4>4. e[1] \notin activated
        BY <4>1, <4>2, <1>6
      <4>. QED
        BY <4>1, <4>2, <4>3, <4>4, <1>2 DEF OpenEvent
    <3>. QED
      BY <3>1, <3>2
  <2>. QED
    BY <2>1, <2>2, <1>1 DEF IssuesHaveEvents, OpenEvent, Active
<1>15. AnnouncementsWithdrawn'
  <2>1. withdrawn' \subseteq announced'
    BY <1>2, <1>10
  <2>2. announced' \ withdrawn' = published_event_ids'
    BY <1>2, <1>10, <1>12, <1>13
  <2>. QED
    BY <2>1, <2>2 DEF AnnouncementsWithdrawn
<1>16. EventIdsFresh'
  <2>1. ASSUME NEW e \in announced'
        PROVE  e[2] <= raised'[e[1]]
    <3>1. CASE e \in opening
      BY <3>1, <1>2, <1>4, <1>13 DEF IInv, TypeOK
    <3>2. CASE e \in announced
      BY <3>2, <1>2, <1>10 DEF IInv, TypeOK
    <3>. QED
      BY <3>1, <3>2, <1>2
  <2>2. ASSUME NEW e \in withdrawn'
        PROVE  e # <<e[1], active_event_ids'[e[1]]>>
    <3>1. e \in announced /\ e[1] \in Rules /\ e[2] \in Nat /\ e[2] <= raised[e[1]]
      BY <1>2, <1>10
    <3>2. raised[e[1]] \in Nat /\ e[2] # raised[e[1]] + 1 /\ e[2] # None
      BY <3>1, ConstantsAssumption DEF IInv, TypeOK
    <3>3. CASE e \in withdrawn
      BY <3>1, <3>2, <3>3, <1>2 DEF IInv, EventIdsFresh, OpenEvent
    <3>4. CASE e \in published_event_ids /\ e \in closing
      <4>1. e[1] \in closed
        BY <3>4 DEF OpenEvent
      <4>. QED
        BY <3>1, <3>2, <4>1, <1>2
    <3>. QED
      BY <3>3, <3>4, <1>2
  <2>. QED
    BY <2>1, <2>2 DEF EventIdsFresh, OpenEvent
<1>17. IssuesCounted'
  <2> SUFFICES ASSUME NEW r \in Rules, Active(after[r])
               PROVE  /\ after[r].issue = a
                      /\ a \in AircraftNames[r]
                      /\ flight_aircraft' = a
                      /\ r \in covered'
                      /\ activations'[r] > 0
    BY <1>1 DEF IssuesCounted, Active
  <2>1. r \in evaluable /\ r \in covered' /\ flight_aircraft' = a
        /\ a \in AircraftNames[r]
    BY <1>3, <1>6, <1>8
  <2>2. activations[r] \in Nat
    BY DEF IInv, TypeOK
  <2>3. CASE r \in activated
    BY <2>1, <2>2, <2>3, <1>3, <1>6
  <2>4. CASE r \notin activated
    <3>1. /\ ~Cleared(a) /\ Active(runtime[r])
          /\ after[r].issue = runtime[r].issue
      BY <2>4, <1>6
    <3>2. /\ runtime[r].issue = current /\ flight_aircraft = current
          /\ activations[r] > 0
      BY <3>1 DEF IInv, IssuesCounted
    <3>3. a = current /\ ~Finishing(a)
      BY <3>1, <3>2 DEF Cleared, Finishing
    <3>. QED
      BY <2>1, <2>2, <2>4, <3>1, <3>2, <3>3, <1>3
  <2>. QED
    BY <2>3, <2>4
<1>18. CountsCovered'
  <2> SUFFICES ASSUME NEW r \in Rules, activations'[r] > 0
               PROVE  r \in covered'
    BY DEF CountsCovered
  <2>1. activations[r] \in Nat /\ (activations[r] > 0 => r \in covered)
    BY DEF IInv, TypeOK, CountsCovered
  <2>. QED
    BY <2>1, <1>3
<1>19. ActivationsConserved'
  <2> SUFFICES ASSUME NEW r \in Rules
               PROVE  raised'[r] = archived'[r] + activations'[r]
    BY DEF ActivationsConserved
  <2>1. /\ raised[r] \in Nat /\ archived[r] \in Nat /\ activations[r] \in Nat
        /\ activations[r] > 0 => r \in covered
        /\ raised[r] = archived[r] + activations[r]
    BY DEF IInv, TypeOK, CountsCovered, ActivationsConserved
  <2>2. r \in activated => r \in covered'
    BY <1>3, <1>6
  <2>. QED
    BY <2>1, <2>2, <1>2, <1>3
<1>. QED
  BY <1>9, <1>14, <1>15, <1>16, <1>17, <1>18, <1>19 DEF IInv

\* A summary that is rejected: the connection fails, and with it the promise
\* to withdraw what was announced, but nothing else is disturbed.
LEMMA RaisesIInv ==
    ASSUME IInv, NEW a \in Aircraft \cup {NoAircraft}, UpdateRaises(a)
    PROVE  IInv'
<1>1. /\ UNCHANGED <<now, raised, speech_mode, flight_aircraft, covered,
                     activations, archived, announced, withdrawn>>
      /\ connection' = "failed"
  BY DEF UpdateRaises, flightVars, outputVars
<1>2. CASE a = NoAircraft
  <2>1. UNCHANGED <<current, runtime, active_event_ids, published_event_ids>>
    BY <1>2 DEF UpdateRaises, engineVars
  <2>. QED
    BY <1>1, <2>1 DEF IInv, TypeOK, IssuesHaveEvents, AnnouncementsWithdrawn,
         EventIdsFresh, IssuesCounted, CountsCovered, ActivationsConserved,
         Active, OpenEvent
<1>3. CASE a # NoAircraft
  <2>1. /\ current' = a
        /\ runtime' = [r \in Rules |-> FreshRuntime]
        /\ active_event_ids' = [r \in Rules |-> None]
        /\ published_event_ids' = {}
    BY <1>3 DEF UpdateRaises
  <2>2. \A r \in Rules : ~Active(runtime'[r])
    BY <2>1 DEF Active, FreshRuntime
  <2>3. TypeOK'
    BY <1>1, <2>1 DEF IInv, TypeOK, RuleRuntime, FreshRuntime
  <2>4. IssuesHaveEvents' /\ IssuesCounted'
    BY <2>1, <2>2 DEF IssuesHaveEvents, IssuesCounted, Active
  <2>5. EventIdsFresh'
    <3>1. \A e \in withdrawn : e \in EventIds /\ e[2] # None /\ e[1] \in Rules
      BY ConstantsAssumption DEF IInv, TypeOK, EventIds
    <3>. QED
      BY <1>1, <2>1, <3>1 DEF IInv, EventIdsFresh, OpenEvent
  <2>6. AnnouncementsWithdrawn' /\ CountsCovered' /\ ActivationsConserved'
    BY <1>1 DEF IInv, AnnouncementsWithdrawn, CountsCovered, ActivationsConserved
  <2>. QED
    BY <2>3, <2>4, <2>5, <2>6 DEF IInv
<1>. QED
  BY <1>2, <1>3

\* The clock, the chatter level and stuttering.
LEMMA QuietIInv ==
    ASSUME IInv,
           \/ \E mode \in Modes : ApplySpeechMode(mode)
           \/ Tick
           \/ UNCHANGED vars
    PROVE  IInv'
<1>1. /\ UNCHANGED <<current, runtime, raised, active_event_ids,
                     published_event_ids, flight_aircraft, covered,
                     activations, archived, announced, withdrawn, connection>>
      /\ now' \in Nat /\ speech_mode' \in Modes
  BY DEF IInv, TypeOK, ApplySpeechMode, Tick, vars, engineVars, eventVars,
         flightVars, outputVars
<1>. QED
  BY <1>1 DEF IInv, TypeOK, IssuesHaveEvents, AnnouncementsWithdrawn,
       EventIdsFresh, IssuesCounted, CountsCovered, ActivationsConserved,
       Active, OpenEvent

\* Every step keeps the invariant.
LEMMA NextIInv == IInv /\ [Next]_vars => IInv'
<1> SUFFICES ASSUME IInv, [Next]_vars PROVE IInv'
  OBVIOUS
<1>1. ASSUME NEW a \in Aircraft, NEW usable \in SUBSET Rules,
             NEW violated \in SUBSET usable,
             UpdateConnected(a, usable, violated)
      PROVE  IInv'
  <2>1. Update(a, usable, violated) /\ connection' = "open"
    BY <1>1 DEF UpdateConnected, Update
  <2>. QED
    BY <2>1, UpdateIInv
<1>2. CASE UpdateDisconnected
  <2>1. Update(NoAircraft, {}, {}) /\ connection' = "open"
    BY <1>2 DEF UpdateDisconnected, Update
  <2>. QED
    BY <2>1, UpdateIInv
<1>3. CASE EndConnection
  <2>1. Update(NoAircraft, {}, {}) /\ connection' = "closed"
    BY <1>3 DEF EndConnection
  <2>. QED
    BY <2>1, UpdateIInv
<1>4. CASE \E a \in Aircraft \cup {NoAircraft} : UpdateRaises(a)
  BY <1>4, RaisesIInv
<1>5. CASE (\E mode \in Modes : ApplySpeechMode(mode)) \/ Tick \/ UNCHANGED vars
  BY <1>5, QuietIInv
<1>. QED
  BY <1>1, <1>2, <1>3, <1>4, <1>5 DEF Next

\* Every variable keeps its type.
THEOREM TypeCorrect == Spec => []TypeOK
<1>1. IInv => TypeOK
  BY DEF IInv
<1>. QED
  BY <1>1, InitIInv, NextIInv, PTL DEF Spec

\* The engine, the event manager and the flight statistics agree in every
\* reachable state, for every rule set and every sequence of updates.
THEOREM Invariance == Spec => []IInv
BY InitIInv, NextIInv, PTL DEF Spec

\* A rule has an event exactly while it has an active issue: no transition is
\* ever published under an id nobody heard raised.
THEOREM IssuesAlwaysHaveEvents == Spec => []IssuesHaveEvents
<1>1. IInv => IssuesHaveEvents
  BY DEF IInv
<1>. QED
  BY <1>1, Invariance, PTL

\* Whatever was announced and has not been withdrawn is still published, as
\* long as the connection has not failed.
THEOREM AnnouncementsAlwaysWithdrawn == Spec => []AnnouncementsWithdrawn
<1>1. IInv => AnnouncementsWithdrawn
  BY DEF IInv
<1>. QED
  BY <1>1, Invariance, PTL

\* An active issue is one of the connected aircraft and is counted in the
\* flight under way.
THEOREM IssuesAlwaysCounted == Spec => []IssuesCounted
<1>1. IInv => IssuesCounted
  BY DEF IInv
<1>. QED
  BY <1>1, Invariance, PTL

\* Every activation is in exactly one flight's count.
THEOREM ActivationsAlwaysConserved == Spec => []ActivationsConserved
<1>1. IInv => ActivationsConserved
  BY DEF IInv
<1>. QED
  BY <1>1, Invariance, PTL

------------------------------------------------------------------------------

\* One pass of update is one batch of the abstract stream: it closes open
\* events only, raises only rules without one left open, and publishes the
\* close of exactly the announced ones.
LEMMA UpdateDelivers ==
    ASSUME IInv,
           NEW a \in Aircraft \cup {NoAircraft},
           NEW usable \in SUBSET Rules, NEW violated \in SUBSET usable,
           Update(a, usable, violated)
    PROVE  Stream!Next
<1> DEFINE activated == Activated(a, usable, violated)
           closed    == Closed(a, usable, violated)
           spoken    == Spoken(a, activated)
           closing   == {OpenEvent(r) : r \in closed}
<1>1. /\ raised' = [r \in Rules |->
                      raised[r] + (IF r \in activated THEN 1 ELSE 0)]
      /\ active_event_ids' = [r \in Rules |->
                IF r \in activated THEN raised[r] + 1
                ELSE IF r \in closed \/ Cleared(a) THEN None
                ELSE active_event_ids[r]]
      /\ announced' = announced \cup {NewEvent(r) : r \in spoken}
      /\ withdrawn' = withdrawn \cup (published_event_ids \cap closing)
      /\ connection = "open"
  BY DEF Update, HandleTransitions
<1>2. /\ activated \subseteq Rules /\ closed \subseteq Rules
      /\ spoken \subseteq activated
  BY PassSets
<1>3. \A r \in Rules : active_event_ids[r] # None <=> Active(runtime[r])
  BY ConstantsAssumption DEF IInv, IssuesHaveEvents, TypeOK
<1>4. \A r \in closed : Active(runtime[r])
  BY DEF Closed
<1>5. ASSUME NEW r \in Rules, Active(runtime[r]), r \in activated \/ Cleared(a)
      PROVE  r \in closed
  BY <1>5, PassCases DEF IInv
<1>6. closing \subseteq OpenEvents
  BY <1>2, <1>3, <1>4 DEF OpenEvents
<1>7. \A e \in OpenEvents \ closing : e[1] \notin activated
  BY <1>3, <1>5 DEF OpenEvents, OpenEvent
<1>8. OpenEvents' = (OpenEvents \ closing) \cup {NewEvent(r) : r \in activated}
  <2>1. \A r \in activated : raised[r] + 1 # None
    BY <1>2, ConstantsAssumption DEF IInv, TypeOK
  <2>2. ASSUME NEW r \in Rules, active_event_ids'[r] # None
        PROVE  <<r, active_event_ids'[r]>>
                 \in (OpenEvents \ closing) \cup {NewEvent(q) : q \in activated}
    <3>1. CASE r \in activated
      BY <3>1, <1>1 DEF NewEvent
    <3>2. CASE r \notin activated
      <4>1. /\ r \notin closed
            /\ active_event_ids'[r] = active_event_ids[r]
        BY <3>2, <2>2, <1>1
      <4>2. OpenEvent(r) \in OpenEvents
        BY <4>1, <2>2 DEF OpenEvents
      <4>3. OpenEvent(r) \notin closing
        BY <4>1 DEF OpenEvent
      <4>. QED
        BY <4>1, <4>2, <4>3 DEF OpenEvent
    <3>. QED
      BY <3>1, <3>2
  <2>3. ASSUME NEW r \in Rules, active_event_ids[r] # None, OpenEvent(r) \notin closing
        PROVE  /\ active_event_ids'[r] = active_event_ids[r]
    <3>1. r \notin closed
      BY <2>3
    <3>2. r \notin activated /\ ~Cleared(a)
      BY <3>1, <2>3, <1>3, <1>5
    <3>. QED
      BY <3>1, <3>2, <1>1
  <2>4. OpenEvents' = {<<r, active_event_ids'[r]>> :
                          r \in {q \in Rules : active_event_ids'[q] # None}}
    BY DEF OpenEvents, OpenEvent
  <2>5. OpenEvents' \subseteq (OpenEvents \ closing) \cup {NewEvent(r) : r \in activated}
    BY <2>2, <2>4
  <2>6. OpenEvents \ closing \subseteq OpenEvents'
    BY <2>3, <2>4 DEF OpenEvents, OpenEvent
  <2>7. {NewEvent(r) : r \in activated} \subseteq OpenEvents'
    BY <2>1, <2>4, <1>1, <1>2 DEF NewEvent
  <2>. QED
    BY <2>5, <2>6, <2>7
<1>9. published_event_ids \cap closing = closing \cap announced
  <2>1. announced \ withdrawn = published_event_ids
    BY <1>1 DEF IInv, AnnouncementsWithdrawn
  <2>2. \A e \in closing : e \notin withdrawn
    BY DEF IInv, EventIdsFresh, OpenEvent
  <2>. QED
    BY <2>1, <2>2
<1> HIDE DEF activated, closed, spoken, closing
<1>10. Stream!Deliver(closing, activated, spoken)
  BY <1>1, <1>2, <1>6, <1>7, <1>8, <1>9 DEF Stream!Deliver, Stream!NewEvent, NewEvent
<1>. QED
  BY <1>2, <1>6, <1>10 DEF Stream!Next

\* The published events of the rule engine are an EventStream: every step of
\* RuleLifecycle is a batch, an abandonment or a stutter of the stream.
THEOREM Implements == Spec => ImplementsEventStream
<1>1. Init => Stream!Init
  BY DEF Init, Stream!Init, OpenEvents
<1>2. IInv /\ [Next]_vars => [Stream!Next]_(Stream!vars)
  <2> SUFFICES ASSUME IInv, [Next]_vars
               PROVE  Stream!Next \/ UNCHANGED <<raised, OpenEvents, announced, withdrawn>>
    BY DEF Stream!vars
  <2>1. ASSUME NEW a \in Aircraft, NEW usable \in SUBSET Rules,
               NEW violated \in SUBSET usable,
               UpdateConnected(a, usable, violated)
        PROVE  Stream!Next
    BY <2>1, UpdateDelivers DEF UpdateConnected
  <2>2. CASE UpdateDisconnected \/ EndConnection
    BY <2>2, UpdateDelivers DEF UpdateDisconnected, EndConnection
  <2>3. ASSUME NEW a \in Aircraft \cup {NoAircraft}, UpdateRaises(a)
        PROVE  Stream!Next \/ UNCHANGED <<raised, OpenEvents, announced, withdrawn>>
    <3>1. UNCHANGED <<raised, announced, withdrawn>>
      BY <2>3 DEF UpdateRaises, outputVars
    <3>2. CASE a = NoAircraft
      BY <2>3, <3>1, <3>2 DEF UpdateRaises, OpenEvents, OpenEvent
    <3>3. CASE a # NoAircraft
      <4>1. active_event_ids' = [r \in Rules |-> None]
        BY <2>3, <3>3 DEF UpdateRaises
      <4>2. OpenEvents' = {}
        BY <4>1 DEF OpenEvents
      <4>. QED
        BY <3>1, <4>2 DEF Stream!Next, Stream!Abandon
    <3>. QED
      BY <3>2, <3>3
  <2>4. CASE (\E mode \in Modes : ApplySpeechMode(mode)) \/ Tick \/ UNCHANGED vars
    BY <2>4 DEF ApplySpeechMode, Tick, vars, eventVars, outputVars, OpenEvents, OpenEvent
  <2>. QED
    BY <2>1, <2>2, <2>3, <2>4 DEF Next
<1>. QED
  BY <1>1, <1>2, Invariance, PTL DEF Spec, ImplementsEventStream, Stream!Spec

------------------------------------------------------------------------------
(* The timing contract.                                                    *)

\* A rule that is on its way to a transition has been seen on that side since its
\* candidate began, and not for its delay yet; a rule that is not is where its
\* latest verdict wants it.
Timed(r, rt, v, since, at) ==
    /\ since <= at
    /\ rt.candidate_active = "on" =>
          /\ v = "violated" /\ ~Active(rt)
          /\ rt.candidate_since = since /\ at - since < DebounceOn[r]
    /\ rt.candidate_active = "off" =>
          /\ v = "clear" /\ Active(rt)
          /\ rt.candidate_since = since /\ at - since < DebounceOff[r]
    /\ rt.candidate_active = "none" =>
          (v = "violated" => Active(rt)) /\ (v = "clear" => ~Active(rt))
    /\ v = "unknown" => ~Active(rt) /\ rt.candidate_active = "none"

DebounceInv ==
    /\ evaluated_at <= now
    /\ \A r \in Rules :
          Timed(r, runtime[r], verdict[r], verdict_since[r], evaluated_at)

\* The engine's notification is at least as late as the announcement: it is also
\* taken for activations that are not spoken.
CooldownInv ==
    \A r \in Rules :
        announced_at[r] # None =>
            /\ runtime[r].last_notification_at # None
            /\ runtime[r].last_notification_at >= announced_at[r]

\* The engine and the statistics look at the same aircraft.
SameAircraft == connection = "open" => flight_aircraft = current

TimingInv ==
    IInv /\ HistoryTypeOK /\ SameAircraft /\ DebounceInv /\ CooldownInv

\* One evaluation of a rule whose candidate is as its verdicts say: it stays so, and
\* a transition has been waited for.
LEMMA EvaluateTimed ==
    ASSUME NEW r \in Rules, NEW rt \in RuleRuntime,
           NEW v \in {"violated", "clear", "unknown"}, NEW since \in Nat, NEW at \in Nat,
           now \in Nat, at <= now, Timed(r, rt, v, since, at),
           NEW a, NEW evaluable, NEW bad, r \in evaluable => a # NoAircraft,
           NEW w, w = IF r \notin evaluable THEN "unknown"
                      ELSE IF r \in bad THEN "violated" ELSE "clear",
           NEW begun, begun = IF v = w THEN since ELSE now,
           NEW after, after = Evaluate(r, rt, a, r \in evaluable, r \in bad)
    PROVE  /\ Timed(r, after, w, begun, now)
           /\ ~Active(rt) /\ Active(after) => w = "violated" /\ now - begun >= DebounceOn[r]
           /\ Active(rt) /\ ~Active(after) =>
                 w = "unknown" \/ (w = "clear" /\ now - begun >= DebounceOff[r])
<1> DEFINE applicable == r \in evaluable
           violated == r \in bad
           started == [rt EXCEPT !.candidate_active = Wanted(violated),
                                 !.candidate_since = Since(rt, violated)]
<1>0. /\ rt.candidate_active \in {"none", "on", "off"}
      /\ begun \in Nat /\ begun <= now
      /\ DebounceOn[r] \in Nat /\ DebounceOff[r] \in Nat
  BY ConstantsAssumption DEF Timed, RuleRuntime, ConstantsAssumption
<1>1. /\ Settled(rt).candidate_active = "none" /\ Settled(rt).issue = rt.issue
      /\ Deactivate(rt).candidate_active = "none" /\ Deactivate(rt).issue = NoAircraft
      /\ Activate(r, rt, a).candidate_active = "none" /\ Activate(r, rt, a).issue = a
      /\ started.candidate_active = Wanted(violated)
      /\ started.candidate_since = Since(rt, violated) /\ started.issue = rt.issue
  BY DEF Settled, Deactivate, Activate, RuleRuntime
<1>2. CASE ~applicable
  <2>1. after = Deactivate(rt) /\ w = "unknown"
    BY <1>2 DEF Evaluate
  <2>. QED
    BY <1>0, <1>1, <2>1 DEF Timed, Active
<1>3. CASE applicable /\ (violated <=> Active(rt))
  <2>1. after = Settled(rt) /\ w = IF violated THEN "violated" ELSE "clear"
    BY <1>3 DEF Evaluate, Advance
  <2>. QED
    BY <1>0, <1>1, <1>3, <2>1 DEF Timed, Active
<1>4. CASE applicable /\ violated /\ ~Active(rt)
  <2>1. w = "violated" /\ a # NoAircraft
    BY <1>4
  <2>2. Since(rt, violated) = begun
    BY <1>0, <1>4, <2>1 DEF Since, Wanted, Timed
  <2>3. CASE Waiting(r, rt, violated)
    <3>1. after = started /\ now - begun < DebounceOn[r]
      BY <1>4, <2>2, <2>3 DEF Evaluate, Advance, Waiting, Delay
    <3>2. /\ after.candidate_active = "on" /\ after.candidate_since = begun
          /\ after.issue = rt.issue
      BY <1>1, <1>4, <2>2, <3>1 DEF Wanted
    <3>. QED
      BY ONLY now \in Nat, <1>0, <1>4, <2>1, <3>1, <3>2 DEF Timed, Active
  <2>4. CASE ~Waiting(r, rt, violated)
    <3>1. after = Activate(r, rt, a)
      BY <1>4, <2>4 DEF Evaluate, Advance
    <3>2. now - begun >= DebounceOn[r]
      <4>1. Delay(r, violated) = DebounceOn[r]
        BY <1>4 DEF Delay
      <4>2. ~(now - begun < Delay(r, violated))
        BY <2>2, <2>4 DEF Waiting
      <4>. QED
        BY <1>0, <4>1, <4>2
    <3>3. after.candidate_active = "none" /\ after.issue = a
      BY <1>1, <3>1
    <3>. QED
      BY ONLY now \in Nat, <1>0, <1>4, <2>1, <3>2, <3>3 DEF Timed, Active
  <2>. QED
    BY <2>3, <2>4
<1>5. CASE applicable /\ ~violated /\ Active(rt)
  <2>1. w = "clear"
    BY <1>5
  <2>2. Since(rt, violated) = begun
    BY <1>0, <1>5, <2>1 DEF Since, Wanted, Timed
  <2>3. CASE Waiting(r, rt, violated)
    <3>1. after = started /\ now - begun < DebounceOff[r]
      BY <1>5, <2>2, <2>3 DEF Evaluate, Advance, Waiting, Delay
    <3>2. /\ after.candidate_active = "off" /\ after.candidate_since = begun
          /\ after.issue = rt.issue
      BY <1>1, <1>5, <2>2, <3>1 DEF Wanted
    <3>. QED
      BY ONLY now \in Nat, <1>0, <1>5, <2>1, <3>1, <3>2 DEF Timed, Active
  <2>4. CASE ~Waiting(r, rt, violated)
    <3>1. after = Deactivate(rt)
      BY <1>5, <2>4 DEF Evaluate, Advance
    <3>2. now - begun >= DebounceOff[r]
      <4>1. Delay(r, violated) = DebounceOff[r]
        BY <1>5 DEF Delay
      <4>2. ~(now - begun < Delay(r, violated))
        BY <2>2, <2>4 DEF Waiting
      <4>. QED
        BY <1>0, <4>1, <4>2
    <3>3. after.candidate_active = "none" /\ after.issue = NoAircraft
      BY <1>1, <3>1
    <3>. QED
      BY ONLY now \in Nat, <1>0, <1>5, <2>1, <3>2, <3>3 DEF Timed, Active
  <2>. QED
    BY <2>3, <2>4
<1>. QED
  BY <1>2, <1>3, <1>4, <1>5

\* A runtime that was just reset has seen nothing.
LEMMA FreshTimed == ASSUME NEW r, now \in Nat PROVE Timed(r, FreshRuntime, "unknown", now, now)
BY DEF Timed, FreshRuntime, Active

\* One pass over a rule, after a reset or not.
LEMMA PassTimed ==
    ASSUME TimingInv, NEW a \in Aircraft \cup {NoAircraft},
           NEW usable \in SUBSET Rules, NEW violated \in SUBSET usable,
           Update(a, usable, violated), Record(a, usable, violated), NEW r \in Rules
    PROVE  /\ Timed(r, runtime'[r], verdict'[r], verdict_since'[r], now)
           /\ LET held == now - verdict_since'[r]
              IN  /\ ~Active(runtime[r]) /\ Active(runtime'[r]) =>
                        verdict'[r] = "violated" /\ held >= DebounceOn[r]
                  /\ Active(runtime[r]) /\ ~Active(runtime'[r]) =>
                        \/ Cleared(a)
                        \/ verdict'[r] = "unknown"
                        \/ verdict'[r] = "clear" /\ held >= DebounceOff[r]
<1> DEFINE evaluable == Evaluable(a, usable)
           prior == Prior(a)[r]
           v     == IF Cleared(a) THEN "unknown" ELSE verdict[r]
           since == IF Cleared(a) THEN now ELSE verdict_since[r]
           at    == IF Cleared(a) THEN now ELSE evaluated_at
<1>1. /\ now \in Nat /\ runtime \in [Rules -> RuleRuntime]
      /\ verdict \in [Rules -> {"violated", "clear", "unknown"}]
      /\ verdict_since \in [Rules -> Nat] /\ evaluated_at \in Nat
      /\ evaluated_at <= now
      /\ Timed(r, runtime[r], verdict[r], verdict_since[r], evaluated_at)
  BY DEF TimingInv, IInv, TypeOK, HistoryTypeOK, DebounceInv
<1>2. /\ runtime'[r] = Evaluate(r, prior, a, r \in evaluable, r \in violated)
      /\ verdict'[r] = IF r \notin evaluable THEN "unknown"
                       ELSE IF r \in violated THEN "violated" ELSE "clear"
      /\ verdict_since'[r] = IF ~Cleared(a) /\ verdict[r] = verdict'[r]
                             THEN verdict_since[r] ELSE now
  BY DEF Update, Evaluated, Record, Verdict
<1>3. prior = IF Cleared(a) THEN FreshRuntime ELSE runtime[r]
  BY DEF Prior
<1>4. /\ prior \in RuleRuntime /\ since \in Nat /\ at \in Nat /\ at <= now
      /\ v \in {"violated", "clear", "unknown"} /\ Timed(r, prior, v, since, at)
  BY <1>1, <1>3, FreshTimed, ConstantsAssumption DEF FreshRuntime, RuleRuntime
<1>5. r \in evaluable => a # NoAircraft
  BY ConstantsAssumption DEF Evaluable, ConstantsAssumption
<1>6. verdict_since'[r] = IF v = verdict'[r] THEN since ELSE now
  BY <1>2
<1>7. Cleared(a) => ~Active(prior)
  BY <1>3 DEF FreshRuntime, Active
<1> DEFINE w     == verdict'[r]
           begun == verdict_since'[r]
           after == runtime'[r]
<1>8. /\ w = IF r \notin evaluable THEN "unknown"
             ELSE IF r \in violated THEN "violated" ELSE "clear"
      /\ begun = IF v = w THEN since ELSE now
      /\ after = Evaluate(r, prior, a, r \in evaluable, r \in violated)
  BY <1>2, <1>6
<1> HIDE DEF evaluable, prior, v, since, at, w, begun, after
<1>9. /\ Timed(r, after, w, begun, now)
      /\ ~Active(prior) /\ Active(after) => w = "violated" /\ now - begun >= DebounceOn[r]
      /\ Active(prior) /\ ~Active(after) =>
            w = "unknown" \/ (w = "clear" /\ now - begun >= DebounceOff[r])
  BY ONLY <1>1, <1>4, <1>5, <1>8, r \in Rules, EvaluateTimed
<1>. QED
  BY <1>3, <1>7, <1>9 DEF w, begun, after

\* An evaluation moves the last notification only to now, only outside the
\* cooldown, and does so whenever it activates the rule there.
LEMMA EvaluateNotified ==
    ASSUME NEW r \in Rules, NEW rt \in RuleRuntime, NEW a, NEW evaluable, NEW bad,
           NEW after, after = Evaluate(r, rt, a, r \in evaluable, r \in bad)
    PROVE  /\ \/ after.last_notification_at = rt.last_notification_at
              \/ after.last_notification_at = now /\ Eligible(r, rt)
           /\ ~Active(rt) /\ Active(after) /\ Eligible(r, rt) =>
                 after.last_notification_at = now
<1> DEFINE violated == r \in bad
           started == [rt EXCEPT !.candidate_active = Wanted(violated),
                                 !.candidate_since = Since(rt, violated)]
<1>1. /\ Settled(rt).last_notification_at = rt.last_notification_at
      /\ Settled(rt).issue = rt.issue
      /\ Deactivate(rt).last_notification_at = rt.last_notification_at
      /\ Deactivate(rt).issue = NoAircraft
      /\ Activate(r, rt, a).last_notification_at =
            IF Eligible(r, rt) THEN now ELSE rt.last_notification_at
      /\ started.last_notification_at = rt.last_notification_at
      /\ started.issue = rt.issue
  BY DEF Settled, Deactivate, Activate, RuleRuntime
<1>2. after \in {Settled(rt), Deactivate(rt), Activate(r, rt, a), started}
  BY DEF Evaluate, Advance
<1> HIDE DEF started
<1>. QED
  BY <1>1, <1>2 DEF Active

\* Whatever a pass announces was activated outside the cooldown it left behind.
LEMMA PassCooldown ==
    ASSUME TimingInv, NEW a \in Aircraft \cup {NoAircraft},
           NEW usable \in SUBSET Rules, NEW violated \in SUBSET usable,
           Update(a, usable, violated), Record(a, usable, violated)
    PROVE  /\ CooldownInv'
           /\ \A e \in announced' \ announced :
                 \/ Cleared(a)
                 \/ announced_at[e[1]] = None
                 \/ now - announced_at[e[1]] >= Cooldown[e[1]]
<1> DEFINE activated == Activated(a, usable, violated)
           evaluable == Evaluable(a, usable)
<1>1. /\ now \in Nat /\ runtime \in [Rules -> RuleRuntime]
      /\ announced_at \in [Rules -> Nat \cup {None}]
      /\ None \notin Nat /\ Cooldown \in [Rules -> Nat]
  BY ConstantsAssumption
     DEF TimingInv, IInv, TypeOK, HistoryTypeOK, ConstantsAssumption
<1>2. /\ runtime' = Evaluated(a, usable, violated)
      /\ announced' = announced \cup {NewEvent(r) : r \in Spoken(a, activated)}
      /\ announced_at' = [r \in Rules |->
            IF \E e \in announced' \ announced : e[1] = r THEN now
            ELSE IF Cleared(a) THEN None ELSE announced_at[r]]
  BY DEF Update, HandleTransitions, Record
<1>3. ASSUME NEW e \in announced' \ announced
      PROVE  /\ e[1] \in Rules
             /\ ~Active(Prior(a)[e[1]]) /\ Active(runtime'[e[1]])
             /\ Eligible(e[1], Prior(a)[e[1]])
  <2>1. PICK r \in Spoken(a, activated) : e = NewEvent(r)
    BY <1>2
  <2>2. e[1] = r
    BY <2>1 DEF NewEvent
  <2>3. /\ r \in Rules /\ ~Active(Prior(a)[r])
        /\ Active(Evaluated(a, usable, violated)[r]) /\ Eligible(r, Prior(a)[r])
    BY DEF Spoken, Allows, Activated
  <2>. QED
    BY <1>2, <2>2, <2>3
<1>4. ASSUME NEW r \in Rules
      PROVE  /\ Prior(a)[r] \in RuleRuntime
             /\ ~Cleared(a) => Prior(a)[r] = runtime[r]
             /\ \/ runtime'[r].last_notification_at = Prior(a)[r].last_notification_at
                \/ /\ runtime'[r].last_notification_at = now
                   /\ Eligible(r, Prior(a)[r])
             /\ /\ ~Active(Prior(a)[r]) /\ Active(runtime'[r])
                /\ Eligible(r, Prior(a)[r])
                => runtime'[r].last_notification_at = now
  <2>1. Prior(a)[r] \in RuleRuntime
    BY <1>1 DEF Prior, FreshRuntime, RuleRuntime
  <2>2. runtime'[r] = Evaluate(r, Prior(a)[r], a, r \in evaluable, r \in violated)
    BY <1>2 DEF Evaluated
  <2> DEFINE after == runtime'[r]
             prior == Prior(a)[r]
  <2>3. after = Evaluate(r, prior, a, r \in evaluable, r \in violated)
        /\ prior \in RuleRuntime
    BY <2>1, <2>2
  <2>4. ~Cleared(a) => prior = runtime[r]
    BY DEF Prior
  <2> HIDE DEF after, prior, evaluable
  <2>5. /\ \/ after.last_notification_at = prior.last_notification_at
           \/ after.last_notification_at = now /\ Eligible(r, prior)
        /\ ~Active(prior) /\ Active(after) /\ Eligible(r, prior) =>
              after.last_notification_at = now
    BY ONLY <2>3, r \in Rules, EvaluateNotified
  <2>. QED
    BY <2>3, <2>4, <2>5 DEF after, prior
<1>5. ASSUME NEW r \in Rules, ~Cleared(a), announced_at[r] # None, Eligible(r, Prior(a)[r])
      PROVE  /\ announced_at[r] \in Nat
             /\ now - announced_at[r] >= Cooldown[r] /\ now >= announced_at[r]
  <2>1. /\ announced_at[r] \in Nat /\ runtime[r].last_notification_at \in Nat
        /\ runtime[r].last_notification_at >= announced_at[r]
    BY <1>1, <1>5 DEF TimingInv, CooldownInv, RuleRuntime
  <2>2. now - runtime[r].last_notification_at >= Cooldown[r]
    BY <1>1, <1>4, <1>5, <2>1 DEF Eligible
  <2>3. Cooldown[r] \in Nat
    BY <1>1
  <2>. QED
    BY <1>1, <2>1, <2>2, <2>3
<1>6. CooldownInv'
  <2> SUFFICES ASSUME NEW r \in Rules, announced_at'[r] # None
               PROVE  /\ runtime'[r].last_notification_at # None
                      /\ runtime'[r].last_notification_at >= announced_at'[r]
    BY DEF CooldownInv
  <2>1. CASE \E e \in announced' \ announced : e[1] = r
    <3>1. announced_at'[r] = now
      BY <1>2, <2>1
    <3>2. runtime'[r].last_notification_at = now
      BY <1>3, <1>4, <2>1
    <3>. QED
      BY <1>1, <3>1, <3>2
  <2>2. CASE ~\E e \in announced' \ announced : e[1] = r
    <3>1. ~Cleared(a) /\ announced_at'[r] = announced_at[r]
      BY <1>2, <2>2
    <3>2. /\ announced_at[r] \in Nat /\ runtime[r].last_notification_at \in Nat
          /\ runtime[r].last_notification_at >= announced_at[r]
      BY <1>1, <3>1 DEF TimingInv, CooldownInv, RuleRuntime
    <3>3. CASE runtime'[r].last_notification_at = runtime[r].last_notification_at
      BY <1>1, <3>1, <3>2, <3>3
    <3>4. CASE runtime'[r].last_notification_at = now /\ Eligible(r, Prior(a)[r])
      <4>1. now >= announced_at[r]
        BY <1>5, <3>1, <3>4
      <4>. QED
        BY <1>1, <3>1, <3>4, <4>1
    <3>. QED
      BY <1>4, <3>1, <3>3, <3>4
  <2>. QED
    BY <2>1, <2>2
<1>7. ASSUME NEW e \in announced' \ announced
      PROVE  \/ Cleared(a)
             \/ announced_at[e[1]] = None
             \/ now - announced_at[e[1]] >= Cooldown[e[1]]
  BY <1>3, <1>5
<1>. QED
  BY <1>6, <1>7

------------------------------------------------------------------------------

\* The history is empty when the connection is opened.
LEMMA InitTiming == HistoryInit => TimingInv
<1> SUFFICES ASSUME HistoryInit PROVE TimingInv
  OBVIOUS
<1>1. IInv
  BY InitIInv DEF HistoryInit
<1>2. HistoryTypeOK /\ SameAircraft
  BY DEF HistoryInit, Init, HistoryTypeOK, SameAircraft
<1>3. DebounceInv
  BY FreshTimed DEF HistoryInit, Init, DebounceInv
<1>4. CooldownInv
  BY DEF HistoryInit, CooldownInv
<1>. QED
  BY <1>1, <1>2, <1>3, <1>4 DEF TimingInv

\* A pass of update, recorded.
LEMMA PassTiming ==
    ASSUME TimingInv, IInv', NEW a \in Aircraft \cup {NoAircraft},
           NEW usable \in SUBSET Rules, NEW violated \in SUBSET usable,
           Update(a, usable, violated), Record(a, usable, violated)
    PROVE  TimingInv'
<1>1. /\ now' = now /\ now \in Nat /\ evaluated_at' = now
      /\ current' = a /\ flight_aircraft' = a
  BY DEF Update, Observe, Record, TimingInv, IInv, TypeOK
<1>2. SameAircraft'
  BY <1>1 DEF SameAircraft
<1>3. HistoryTypeOK'
  BY <1>1 DEF Record, Verdict, TimingInv, HistoryTypeOK
<1>4. DebounceInv'
  BY <1>1, PassTimed DEF DebounceInv, Timed
<1>5. CooldownInv'
  BY PassCooldown
<1>. QED
  BY <1>2, <1>3, <1>4, <1>5 DEF TimingInv

\* The pass of a connected update whose summary is rejected: everything was reset.
LEMMA RaisesTiming ==
    ASSUME TimingInv, IInv', NEW a \in Aircraft, UpdateRaises(a), Record(a, {}, {})
    PROVE  TimingInv' /\ Cleared(a) /\ announced' = announced
<1>1. /\ a # NoAircraft /\ connection = "open" /\ a # flight_aircraft
      /\ current' = a /\ runtime' = [r \in Rules |-> FreshRuntime]
      /\ now' = now /\ announced' = announced /\ connection' = "failed"
  BY ConstantsAssumption DEF UpdateRaises, Finishing, outputVars, ConstantsAssumption
<1>2. Cleared(a)
  BY <1>1 DEF TimingInv, SameAircraft, Cleared
<1>3. /\ verdict' = [r \in Rules |-> "unknown"]
      /\ verdict_since' = [r \in Rules |-> now] /\ evaluated_at' = now
      /\ announced_at' = [r \in Rules |-> None]
  BY <1>1, <1>2 DEF Record, Verdict, Evaluable
<1>4. now \in Nat
  BY DEF TimingInv, IInv, TypeOK
<1>5. HistoryTypeOK' /\ SameAircraft' /\ CooldownInv'
  BY <1>1, <1>3, <1>4 DEF HistoryTypeOK, SameAircraft, CooldownInv
<1>6. DebounceInv'
  BY <1>1, <1>3, <1>4, FreshTimed DEF DebounceInv, Timed
<1>. QED
  BY <1>1, <1>2, <1>5, <1>6 DEF TimingInv

\* Steps that record nothing.
LEMMA QuietTiming ==
    ASSUME TimingInv, IInv', UNCHANGED historyVars,
           \/ UpdateRaises(NoAircraft)
           \/ \E mode \in Modes : ApplySpeechMode(mode)
           \/ Tick
           \/ UNCHANGED vars
    PROVE  TimingInv' /\ runtime' = runtime /\ announced' = announced
<1>1. /\ runtime' = runtime /\ announced' = announced /\ current' = current
      /\ flight_aircraft' = flight_aircraft /\ connection' \in {connection, "failed"}
      /\ now \in Nat /\ now' \in {now, now + 1}
  BY DEF UpdateRaises, ApplySpeechMode, Tick, vars, engineVars, flightVars, outputVars,
         TimingInv, IInv, TypeOK
<1>2. HistoryTypeOK' /\ SameAircraft' /\ CooldownInv'
  BY <1>1 DEF historyVars, TimingInv, HistoryTypeOK, SameAircraft, CooldownInv
<1>3. DebounceInv'
  BY <1>1 DEF historyVars, TimingInv, HistoryTypeOK, DebounceInv, Timed, Active
<1>. QED
  BY <1>1, <1>2, <1>3 DEF TimingInv

\* The history restricts nothing: its steps are steps of the semantics.
LEMMA HistoryStep == HistoryNext => Next
BY DEF HistoryNext, Next

\* Every step keeps the timing invariant, waits for its transitions, and spaces its
\* announcements.
LEMMA NextTiming ==
    ASSUME TimingInv, [HistoryNext]_hvars
    PROVE  /\ TimingInv'
           /\ \A r \in Rules :
                 LET held == now - verdict_since'[r]
                 IN  /\ ~Active(runtime[r]) /\ Active(runtime'[r]) =>
                           verdict'[r] = "violated" /\ held >= DebounceOn[r]
                     /\ Active(runtime[r]) /\ ~Active(runtime'[r]) =>
                           \/ current' # current
                           \/ current' = NoAircraft
                           \/ verdict'[r] = "unknown"
                           \/ verdict'[r] = "clear" /\ held >= DebounceOff[r]
           /\ \A e \in announced' \ announced :
                 \/ current' # current
                 \/ announced_at[e[1]] = None
                 \/ now - announced_at[e[1]] >= Cooldown[e[1]]
<1> DEFINE Sustained == \A r \in Rules :
                 LET held == now - verdict_since'[r]
                 IN  /\ ~Active(runtime[r]) /\ Active(runtime'[r]) =>
                           verdict'[r] = "violated" /\ held >= DebounceOn[r]
                     /\ Active(runtime[r]) /\ ~Active(runtime'[r]) =>
                           \/ current' # current
                           \/ current' = NoAircraft
                           \/ verdict'[r] = "unknown"
                           \/ verdict'[r] = "clear" /\ held >= DebounceOff[r]
           Spaced == \A e \in announced' \ announced :
                 \/ current' # current
                 \/ announced_at[e[1]] = None
                 \/ now - announced_at[e[1]] >= Cooldown[e[1]]
<1>1. IInv'
  <2>1. [Next]_vars
    BY HistoryStep DEF hvars
  <2>. QED
    BY <2>1, NextIInv DEF TimingInv
<1>2. ASSUME NEW a \in Aircraft \cup {NoAircraft},
             NEW usable \in SUBSET Rules, NEW violated \in SUBSET usable,
             Update(a, usable, violated), Record(a, usable, violated)
      PROVE  TimingInv' /\ Sustained /\ Spaced
  <2>1. TimingInv'
    BY <1>1, <1>2, PassTiming
  <2>2. current' = a
    BY <1>2 DEF Update
  <2>3. Cleared(a) => current' # current \/ current' = NoAircraft
    BY <2>2 DEF Cleared
  <2>4. Sustained
    BY <1>2, <2>3, PassTimed
  <2>5. a = NoAircraft => announced' = announced
    <3>1. ASSUME a = NoAircraft, NEW r \in Rules
          PROVE  ~Active(Evaluated(a, usable, violated)[r])
      BY <1>1, <1>2, <2>2, <3>1, ConstantsAssumption
         DEF Update, IInv, IssuesCounted, ConstantsAssumption
    <3>2. a = NoAircraft => Spoken(a, Activated(a, usable, violated)) = {}
      BY <3>1 DEF Spoken, Activated
    <3>. QED
      BY <1>2, <3>2 DEF Update, HandleTransitions
  <2>6. Spaced
    BY <1>2, <2>2, <2>5, PassCooldown DEF Cleared
  <2>. QED
    BY <2>1, <2>4, <2>6
<1>3. CASE \/ \E a \in Aircraft, usable \in SUBSET Rules :
                \E violated \in SUBSET usable :
                   UpdateConnected(a, usable, violated) /\ Record(a, usable, violated)
           \/ UpdateDisconnected /\ Record(NoAircraft, {}, {})
           \/ EndConnection /\ Record(NoAircraft, {}, {})
  <2>1. \E a \in Aircraft \cup {NoAircraft} : \E usable \in SUBSET Rules :
           \E violated \in SUBSET usable :
              Update(a, usable, violated) /\ Record(a, usable, violated)
    BY <1>3 DEF UpdateConnected, UpdateDisconnected, EndConnection
  <2> HIDE DEF Sustained, Spaced
  <2>2. TimingInv' /\ Sustained /\ Spaced
    BY <1>2, <2>1
  <2>. QED
    BY <2>2 DEF Sustained, Spaced
<1>4. CASE \E a \in Aircraft : UpdateRaises(a) /\ Record(a, {}, {})
  <2>1. PICK a \in Aircraft : UpdateRaises(a) /\ Record(a, {}, {})
    BY <1>4
  <2>2. TimingInv' /\ Cleared(a) /\ announced' = announced
    BY <1>1, <2>1, RaisesTiming
  <2>3. /\ current' = a /\ current' # current
        /\ \A r \in Rules : ~Active(runtime'[r])
    BY <2>1, <2>2, ConstantsAssumption
       DEF UpdateRaises, Cleared, Active, FreshRuntime, ConstantsAssumption
  <2>. QED
    BY <2>2, <2>3
<1>5. CASE \/ UpdateRaises(NoAircraft) /\ UNCHANGED historyVars
           \/ \E mode \in Modes : ApplySpeechMode(mode) /\ UNCHANGED historyVars
           \/ Tick /\ UNCHANGED historyVars
           \/ UNCHANGED hvars
  <2>1. TimingInv' /\ runtime' = runtime /\ announced' = announced
    BY <1>1, <1>5, QuietTiming DEF hvars
  <2>. QED
    BY <2>1
<1> HIDE DEF Sustained, Spaced
<1>6. TimingInv' /\ Sustained /\ Spaced
  BY <1>3, <1>4, <1>5 DEF HistoryNext, Sustained, Spaced
<1>. QED
  BY <1>6 DEF Sustained, Spaced

\* The engine's candidates are what its evaluations have shown, for every debounce,
\* cooldown and rule set.
THEOREM TimingInvariance == HistorySpec => []TimingInv
<1>1. TimingInv /\ [HistoryNext]_hvars => TimingInv'
  BY NextTiming
<1>. QED
  BY <1>1, InitTiming, PTL DEF HistorySpec

\* docs/rules.md: a condition seen for its debounce has settled.
THEOREM VerdictsAlwaysSettle == HistorySpec => []VerdictSettles
<1>1. TimingInv => VerdictSettles
  BY ConstantsAssumption
     DEF TimingInv, IInv, TypeOK, HistoryTypeOK, DebounceInv, Timed, VerdictSettles,
         RuleRuntime, ConstantsAssumption
<1>. QED
  BY <1>1, TimingInvariance, PTL

\* docs/rules.md: no issue is activated, or removed, before its debounce.
THEOREM TransitionsAlwaysSustained == HistorySpec => TransitionsSustained
<1>1. TimingInv /\ [HistoryNext]_hvars =>
        [\A r \in Rules :
            LET held == now - verdict_since'[r]
            IN  /\ ~Active(runtime[r]) /\ Active(runtime[r])' =>
                     verdict'[r] = "violated" /\ held >= DebounceOn[r]
                /\ Active(runtime[r]) /\ ~Active(runtime[r])' =>
                     \/ current' # current
                     \/ current' = NoAircraft
                     \/ verdict'[r] = "unknown"
                     \/ verdict'[r] = "clear" /\ held >= DebounceOff[r]]_hvars
  BY NextTiming DEF Active
<1>. QED
  BY <1>1, TimingInvariance, PTL DEF HistorySpec, TransitionsSustained

\* docs/rules.md: a rule is announced again only after its cooldown.
THEOREM AnnouncementsAlwaysSpaced == HistorySpec => AnnouncementsSpaced
<1>1. TimingInv /\ [HistoryNext]_hvars =>
        [\A e \in announced' \ announced :
            \/ current' # current
            \/ announced_at[e[1]] = None
            \/ now - announced_at[e[1]] >= Cooldown[e[1]]]_hvars
  BY NextTiming
<1>. QED
  BY <1>1, TimingInvariance, PTL DEF HistorySpec, AnnouncementsSpaced

==============================================================================

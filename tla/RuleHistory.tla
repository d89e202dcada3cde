----------------------------- MODULE RuleHistory -----------------------------
(***************************************************************************)
(* RuleLifecycle with history variables: what every evaluation of a rule   *)
(* has said since the last reset, and when its last announcement was made. *)
(* They restrict nothing; they let the timing contract of docs/rules.md    *)
(* (debounce, clear debounce, cooldown) be stated against what was         *)
(* observed instead of against the engine's own bookkeeping.               *)
(***************************************************************************)
EXTENDS RuleLifecycle

VARIABLES
    verdict,        \* what the latest evaluation of each rule saw
    verdict_since,  \* when the present run of that verdict began
    evaluated_at,   \* when the latest evaluation took place
    announced_at    \* when each rule was last announced since the last reset

historyVars == <<verdict, verdict_since, evaluated_at, announced_at>>
hvars == <<vars, historyVars>>

HistoryTypeOK ==
    /\ verdict \in [Rules -> {"violated", "clear", "unknown"}]
    /\ verdict_since \in [Rules -> Nat]
    /\ evaluated_at \in Nat
    /\ announced_at \in [Rules -> Nat \cup {None}]

HistoryInit ==
    /\ Init
    /\ verdict = [r \in Rules |-> "unknown"]
    /\ verdict_since = [r \in Rules |-> 0]
    /\ evaluated_at = 0
    /\ announced_at = [r \in Rules |-> None]

Verdict(r, a, usable, violated) ==
    IF r \notin Evaluable(a, usable) THEN "unknown"
    ELSE IF r \in violated THEN "violated" ELSE "clear"

\* The history of one pass of AircraftStateStore.update.
Record(a, usable, violated) ==
    /\ verdict' = [r \in Rules |-> Verdict(r, a, usable, violated)]
    /\ verdict_since' = [r \in Rules |->
          IF ~Cleared(a) /\ verdict[r] = verdict'[r] THEN verdict_since[r]
          ELSE now]
    /\ evaluated_at' = now
    /\ announced_at' = [r \in Rules |->
          IF \E e \in announced' \ announced : e[1] = r THEN now
          ELSE IF Cleared(a) THEN None ELSE announced_at[r]]

HistoryNext ==
    \/ \E a \in Aircraft, usable \in SUBSET Rules :
         \E violated \in SUBSET usable :
            UpdateConnected(a, usable, violated) /\ Record(a, usable, violated)
    \/ UpdateDisconnected /\ Record(NoAircraft, {}, {})
    \/ EndConnection /\ Record(NoAircraft, {}, {})
    \/ \E a \in Aircraft : UpdateRaises(a) /\ Record(a, {}, {})
    \/ UpdateRaises(NoAircraft) /\ UNCHANGED historyVars
    \/ \E mode \in Modes : ApplySpeechMode(mode) /\ UNCHANGED historyVars
    \/ Tick /\ UNCHANGED historyVars

HistorySpec == HistoryInit /\ [][HistoryNext]_hvars

------------------------------------------------------------------------------

\* docs/rules.md: once every evaluation has seen the condition violated for
\* the activation debounce the issue is active, once every one has seen it
\* clear for the clear debounce it is not, and it is removed at the first
\* evaluation whose inputs are unusable.
VerdictSettles ==
    \A r \in Rules :
        LET held == evaluated_at - verdict_since[r]
        IN  /\ verdict[r] = "violated" /\ held >= DebounceOn[r]
                 => Active(runtime[r])
            /\ verdict[r] = "clear" /\ held >= DebounceOff[r]
                 => ~Active(runtime[r])
            /\ verdict[r] = "unknown" => ~Active(runtime[r])

\* docs/rules.md: an issue is activated only by a condition that was violated
\* at every evaluation for the activation debounce, and outside a reset it is
\* removed only by one that was clear throughout the clear debounce or whose
\* inputs became unusable.  A single contrary evaluation starts the wait again.
TransitionsSustained ==
    [][\A r \in Rules :
        LET held == now - verdict_since'[r]
        IN  /\ ~Active(runtime[r]) /\ Active(runtime[r])' =>
                 verdict'[r] = "violated" /\ held >= DebounceOn[r]
            /\ Active(runtime[r]) /\ ~Active(runtime[r])' =>
                 \/ current' # current
                 \/ current' = NoAircraft
                 \/ verdict'[r] = "unknown"
                 \/ verdict'[r] = "clear" /\ held >= DebounceOff[r]]_hvars

\* docs/rules.md, cooldown: between two resets a rule is announced again only
\* after its cooldown, whatever the chatter level did meanwhile.
AnnouncementsSpaced ==
    [][\A e \in announced' \ announced :
        \/ current' # current
        \/ announced_at[e[1]] = None
        \/ now - announced_at[e[1]] >= Cooldown[e[1]]]_hvars
==============================================================================

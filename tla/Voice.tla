-------------------------------- MODULE Voice --------------------------------
(***************************************************************************)
(* PipecatVoicePipeline: one persistent conversation pipeline, the answers *)
(* and announcements that take turns on it, and the gateway that           *)
(* interrupts and discards it.                                             *)
(*                                                                         *)
(* A call is a coroutine of respond or announce in a response task of the  *)
(* gateway.  It waits for the FIFO _turn_lock, makes sure that a worker    *)
(* runs, queues its request and waits until the observer at the end of the *)
(* pipeline has seen the answer's end, the runner stops, the gateway       *)
(* interrupts or the time is over.  Pipecat is external: it works off what *)
(* is queued one by one, and an InterruptionFrame drops what is on its way *)
(* when its turn comes, up to the end frame of the response cut short.     *)
(* Requests with an invalid format or without audio are refused at once    *)
(* and do not occur.                                                       *)
(*                                                                         *)
(* A worker is named after the call that launched it; _worker, _runner and *)
(* _runner_task change together.  A definition named Mutant... is the      *)
(* definition after it with a plausible bug; nothing uses it.              *)
(***************************************************************************)
EXTENDS Naturals, Sequences, SequencesExt, FiniteSets

CONSTANTS
    Calls,      \* the calls of one session
    Replies,    \* those of respond; the others are of announce
    Gateway,    \* the gateway's own coroutine, which closes the pipeline
    None        \* no call, no worker

ASSUME VoiceAssumption ==
    /\ Replies \subseteq Calls
    /\ None \notin Calls /\ Gateway \notin Calls \cup {None}

VARIABLES
    turn_lock,  \* calls that hold (the first) or wait for _turn_lock
    at,         \* the await each call is suspended in, or how it returned
    cancelled,  \* calls whose task the gateway has cancelled
    worker,     \* _worker, named after the call that launched it
    started,    \* _started
    turn,       \* _turn_done, _turn_active and what the observers note
    running,    \* workers whose runner has not stopped
    unstarted,  \* those that have not begun to process frames
    ending,     \* those that were told to stop
    inbox,      \* requests and interruptions queued to each worker
    flight,     \* frames on their way to the worker's output observer
    runner,     \* the worker whose end, or answer, a coroutine waits for
    discarded,  \* the gateway's close of the pipeline: "no", "closing", "yes"
    answer      \* of a turn that began behind nothing and is undisturbed: what
                \* the pipeline makes of it, and the speech it was given

callVars == <<turn_lock, at, cancelled, discarded>>
workerVars == <<worker, started, running, unstarted, ending>>
frameVars == <<inbox, flight>>
turnVars == <<turn, answer>>
vars == <<callVars, workerVars, frameVars, turnVars, runner>>

Coroutines == Calls \cup {Gateway}
Interruption == None
Returned == {"answered", "failed", "expired", "cancelled"}
Closing == {"restart", "giveup", "timeout"}

\* A reply may take a pass of tool calls, with or without a word before it;
\* speech that is not recognized gets no answer at all.
Scripts(c) ==
    IF c \in Replies
    THEN {<<>>, <<"error">>, <<"speech", "end">>,
          <<"tools", "end", "speech", "end">>,
          <<"speech", "tools", "end", "speech", "end">>}
    ELSE {<<"error">>, <<"end">>, <<"speech", "end">>}

Frames == [call: Calls, kind: {"speech", "tools", "end", "error"}]

NoTurn == [done |-> FALSE, active |-> FALSE, error |-> FALSE,
           callback |-> None, used_tools |-> FALSE, said |-> FALSE]
NoAnswer == [script |-> <<>>, heard |-> 0, clean |-> FALSE]

\* A turn is active only while the lock's holder waits for its end.
TypeOK ==
    /\ turn_lock \in Seq(Calls) /\ IsInjective(turn_lock)
    /\ at \in [Calls -> {"new", "waiting", "starting", "turn"}
                            \cup Closing \cup Returned]
    /\ cancelled \subseteq Calls
    /\ worker \in Calls \cup {None}
    /\ started \in BOOLEAN
    /\ turn \in [done: BOOLEAN, active: BOOLEAN, error: BOOLEAN,
                 callback: Calls \cup {None}, used_tools: BOOLEAN,
                 said: BOOLEAN]
    /\ running \subseteq Calls /\ unstarted \subseteq running
    /\ ending \subseteq running
    /\ inbox \in [Calls -> Seq(Calls \cup {Interruption})]
    /\ flight \in [Calls -> Seq(Frames)]
    /\ runner \in [Coroutines -> Calls \cup {None}]
    /\ discarded \in {"no", "closing", "yes"}
    /\ answer \in [script: {<<>>} \cup UNION {Scripts(c) : c \in Calls},
                   heard: Nat, clean: BOOLEAN]
    /\ turn.active => turn_lock # <<>> /\ at[Head(turn_lock)] = "turn"
    /\ turn.callback # None => turn.active /\ turn.callback = Head(turn_lock)

Init ==
    /\ turn_lock = <<>> /\ at = [c \in Calls |-> "new"] /\ cancelled = {}
    /\ worker = None /\ started = FALSE /\ turn = NoTurn
    /\ running = {} /\ unstarted = {} /\ ending = {}
    /\ inbox = [c \in Calls |-> <<>>] /\ flight = [c \in Calls |-> <<>>]
    /\ runner = [x \in Coroutines |-> None]
    /\ discarded = "no"
    /\ answer = NoAnswer

------------------------------------------------------------------------------
(* interrupt and close, which the gateway and the calls share.             *)

\* interrupt: the turn goes silent and its wait is over, at once; the frames
\* on their way are dropped when the InterruptionFrame is processed.
Interrupt ==
    /\ turn' = [turn EXCEPT !.active = FALSE, !.callback = None, !.done = TRUE]
    /\ inbox' = IF worker \in running
                THEN [inbox EXCEPT ![worker] = Append(@, Interruption)] ELSE inbox
    /\ answer' = NoAnswer

\* close, up to its wait for the runner: at most 5 s, then its task is
\* cancelled.  Without a worker there is nothing to wait for.
CloseBegins(x) ==
    /\ Interrupt
    /\ ending' = ending \cup ({worker} \cap running)
    /\ runner' = [runner EXCEPT ![x] = worker]

\* close, from the end of the runner: whatever is current by then is forgotten.
CloseEnds(x) ==
    /\ runner[x] \notin running
    /\ worker' = None
    /\ started' = FALSE

------------------------------------------------------------------------------
(* A call of respond or announce.                                          *)

Enabled(c, place) == at[c] = place /\ c \notin cancelled
Holds(c) == turn_lock # <<>> /\ Head(turn_lock) = c

\* The gateway's response task calls the pipeline it still has.
Call(c) ==
    /\ at[c] = "new"
    /\ discarded = "no"
    /\ at' = [at EXCEPT ![c] = "waiting"]
    /\ turn_lock' = Append(turn_lock, c)
    /\ UNCHANGED <<cancelled, discarded, workerVars, frameVars, turnVars, runner>>

Return(c, how) ==
    /\ at' = [at EXCEPT ![c] = how]
    /\ turn_lock' = RemoveFirst(turn_lock, c)
    /\ runner' = [runner EXCEPT ![c] = None]

\* One worker runs, and nothing of an earlier call is left in it.
Undisturbed ==
    /\ worker \notin ending /\ running = {worker}
    /\ inbox[worker] = <<>> /\ flight[worker] = <<>>

\* The turn's variables are set anew and the request is queued.
MutantTurnBegins(c) ==
    /\ at' = [at EXCEPT ![c] = "turn"]
    /\ turn' = [NoTurn EXCEPT !.active = TRUE, !.callback = c,
                              !.used_tools = turn.used_tools]
    /\ runner' = [runner EXCEPT ![c] = worker]
    /\ inbox' = IF worker \in running
                THEN [inbox EXCEPT ![worker] = Append(@, c)] ELSE inbox
    /\ answer' = [NoAnswer EXCEPT !.clean = Undisturbed]
    /\ UNCHANGED <<turn_lock, workerVars, flight>>

TurnBegins(c) ==
    /\ at' = [at EXCEPT ![c] = "turn"]
    /\ turn' = [NoTurn EXCEPT !.active = TRUE, !.callback = c]
    /\ runner' = [runner EXCEPT ![c] = worker]
    /\ inbox' = IF worker \in running
                THEN [inbox EXCEPT ![worker] = Append(@, c)] ELSE inbox
    /\ answer' = [NoAnswer EXCEPT !.clean = Undisturbed]
    /\ UNCHANGED <<turn_lock, workerVars, flight>>

\* _ensure_started creates a worker and its runner's task.
Launch(c) ==
    /\ at' = [at EXCEPT ![c] = "starting"]
    /\ worker' = c
    /\ started' = FALSE
    /\ running' = running \cup {c}
    /\ unstarted' = unstarted \cup {c}
    /\ UNCHANGED <<turn_lock, ending, frameVars, turnVars, runner>>

\* The lock is the call's: _ensure_started.
EnsureStarted(c) ==
    /\ Enabled(c, "waiting") /\ Holds(c)
    /\ \/ worker \in running /\ TurnBegins(c)
       \/ worker = None /\ Launch(c)
       \/ /\ worker # None /\ worker \notin running
          /\ CloseBegins(c)
          /\ at' = [at EXCEPT ![c] = "restart"]
          /\ UNCHANGED <<turn_lock, worker, started, running, unstarted, flight>>
    /\ UNCHANGED <<cancelled, discarded>>

Relaunch(c) ==
    /\ Enabled(c, "restart")
    /\ runner[c] \notin running
    /\ Launch(c)
    /\ UNCHANGED <<cancelled, discarded>>

\* The pipeline is up; a close may have taken the worker away meanwhile.
Started(c) ==
    /\ Enabled(c, "starting")
    /\ started
    /\ IF worker = None
       THEN /\ Return(c, "failed")
            /\ UNCHANGED <<workerVars, frameVars, turnVars>>
       ELSE TurnBegins(c)
    /\ UNCHANGED <<cancelled, discarded>>

StartTimesOut(c) ==
    /\ Enabled(c, "starting")
    /\ ~started
    /\ IF worker = None
       THEN Return(c, "expired") /\ Interrupt /\ UNCHANGED ending
       ELSE /\ CloseBegins(c)
            /\ at' = [at EXCEPT ![c] = "giveup"]
            /\ UNCHANGED turn_lock
    /\ UNCHANGED <<cancelled, discarded, worker, started, running,
                   unstarted, flight>>

\* _turn_done is set: the call returns what was said, or raises.
TurnEnds(c) ==
    /\ Enabled(c, "turn")
    /\ turn.done
    /\ turn' = [turn EXCEPT !.active = FALSE, !.callback = None]
    /\ Return(c, IF turn.error \/ ~turn.said THEN "failed" ELSE "answered")
    /\ answer' = NoAnswer
    /\ UNCHANGED <<cancelled, discarded, workerVars, frameVars>>

MutantTurnTimesOut(c) ==
    /\ Enabled(c, "turn")
    /\ ~turn.done
    /\ turn.said \/ turn.used_tools
    /\ CloseBegins(c)
    /\ at' = [at EXCEPT ![c] = "timeout"]
    /\ UNCHANGED <<turn_lock, cancelled, discarded, worker, started, running,
                   unstarted, flight>>

\* _wait_for_turn gives up and closes the pipeline.
TurnTimesOut(c) ==
    /\ Enabled(c, "turn")
    /\ ~turn.done
    /\ CloseBegins(c)
    /\ at' = [at EXCEPT ![c] = "timeout"]
    /\ UNCHANGED <<turn_lock, cancelled, discarded, worker, started, running,
                   unstarted, flight>>

\* The pipeline is closed and the call raises.
Expires(c) ==
    /\ Enabled(c, "giveup") \/ Enabled(c, "timeout")
    /\ CloseEnds(c)
    /\ Return(c, "expired")
    /\ turn' = [turn EXCEPT !.active = FALSE, !.callback = None]
    /\ UNCHANGED <<cancelled, discarded, running, unstarted, ending,
                   frameVars, answer>>

\* CancelledError: a turn's variables are cleared, a close is left half done.
Cancelled(c) ==
    /\ c \in cancelled /\ at[c] \notin Returned
    /\ turn' = IF at[c] \in {"turn", "timeout"}
               THEN [turn EXCEPT !.active = FALSE, !.callback = None] ELSE turn
    /\ answer' = IF at[c] = "turn" THEN NoAnswer ELSE answer
    /\ Return(c, "cancelled")
    /\ UNCHANGED <<cancelled, discarded, worker, started, running, unstarted,
                   ending, frameVars>>

------------------------------------------------------------------------------
(* The gateway.                                                            *)

\* interrupt_response: c is the response task of the moment; a pipeline that
\* was discarded is not interrupted any more.
InterruptResponse(c) ==
    /\ at[c] \notin Returned \cup {"new"} /\ c \notin cancelled
    /\ IF discarded = "no" THEN Interrupt ELSE UNCHANGED <<turnVars, inbox>>
    /\ cancelled' = cancelled \cup {c}
    /\ UNCHANGED <<turn_lock, at, discarded, workerVars, flight, runner>>

\* discard_voice: a failed task or the cleanup closes the pipeline, under the
\* calls that still use or wait for it.
Discard ==
    /\ discarded = "no"
    /\ discarded' = IF worker = None THEN "yes" ELSE "closing"
    /\ CloseBegins(Gateway)
    /\ UNCHANGED <<turn_lock, at, cancelled, worker, started, running, unstarted,
                   flight>>

DiscardEnds ==
    /\ discarded = "closing"
    /\ CloseEnds(Gateway)
    /\ discarded' = "yes"
    /\ UNCHANGED <<turn_lock, at, cancelled, running, unstarted, ending,
                   frameVars, turnVars, runner>>

------------------------------------------------------------------------------
(* Pipecat, and the observers in its pipeline.                             *)

\* on_pipeline_started.
PipelineStarts(w) ==
    /\ w \in unstarted
    /\ unstarted' = unstarted \ {w}
    /\ started' = TRUE
    /\ UNCHANGED <<callVars, worker, running, ending, frameVars,
                   turnVars, runner>>

Remains(w) ==
    {<<>>} \cup (IF flight[w] = <<>> THEN {}
                 ELSE {<<[call |-> Last(flight[w]).call, kind |-> "end"]>>})

Process(w) ==
    /\ w \in running \ unstarted
    /\ inbox[w] # <<>>
    /\ LET c == Head(inbox[w])
       IN  IF c = Interruption
           THEN /\ \E frames \in Remains(w) : flight' = [flight EXCEPT ![w] = frames]
                /\ UNCHANGED answer
           ELSE \E s \in Scripts(c) :
                /\ answer' = IF answer.clean /\ turn.callback = c
                              THEN [answer EXCEPT !.script = s] ELSE answer
                /\ flight' = [flight EXCEPT ![w] =
                      @ \o [i \in DOMAIN s |-> [call |-> c, kind |-> s[i]]]]
    /\ inbox' = [inbox EXCEPT ![w] = Tail(@)]
    /\ UNCHANGED <<callVars, workerVars, turn, runner>>

\* _OutputObserver and _ResponseTextObserver; the end of a pass that called
\* tools is not the end of the turn.
MutantObserved(f) ==
    CASE f.kind = "speech" -> [turn EXCEPT !.said = TRUE]
      [] f.kind = "tools"  -> turn
      [] f.kind = "error"  -> [turn EXCEPT !.error = TRUE, !.done = TRUE]
      [] f.kind = "end"    -> [turn EXCEPT !.done = TRUE]

Observed(f) ==
    CASE f.kind = "speech" -> [turn EXCEPT !.said = TRUE]
      [] f.kind = "tools"  -> [turn EXCEPT !.used_tools = TRUE]
      [] f.kind = "error"  -> [turn EXCEPT !.error = TRUE, !.done = TRUE]
      [] f.kind = "end"    -> [turn EXCEPT !.used_tools = FALSE,
                                           !.done = @ \/ ~turn.used_tools]

Observe(w) ==
    /\ w \in running
    /\ flight[w] # <<>>
    /\ LET f == Head(flight[w])
       IN  /\ turn' = Observed(f)
           /\ answer' = IF answer.clean /\ f.kind = "speech"
                            /\ turn.active /\ turn.callback = f.call
                         THEN [answer EXCEPT !.heard = @ + 1] ELSE answer
    /\ flight' = [flight EXCEPT ![w] = Tail(@)]
    /\ UNCHANGED <<callVars, workerVars, inbox, runner>>

\* _runner_finished: the runner stops because it was told to or by itself; a
\* turn under way fails, unless the task was cancelled on the way.
RunnerStops(w) ==
    /\ w \in running
    /\ running' = running \ {w} /\ unstarted' = unstarted \ {w}
    /\ ending' = ending \ {w}
    /\ \/ /\ turn.active
          /\ turn' = [turn EXCEPT !.error = TRUE, !.done = TRUE]
       \/ (turn.active => w \in ending) /\ UNCHANGED turn
    /\ inbox' = [inbox EXCEPT ![w] = <<>>] /\ flight' = [flight EXCEPT ![w] = <<>>]
    /\ UNCHANGED <<callVars, worker, started, answer, runner>>

------------------------------------------------------------------------------

CallSteps(c) ==
    \/ EnsureStarted(c) \/ Relaunch(c) \/ Started(c) \/ StartTimesOut(c)
    \/ TurnEnds(c) \/ TurnTimesOut(c) \/ Expires(c) \/ Cancelled(c)

Next ==
    \/ \E c \in Calls : Call(c) \/ CallSteps(c) \/ InterruptResponse(c)
    \/ Discard \/ DiscardEnds
    \/ \E w \in Calls : PipelineStarts(w) \/ Process(w) \/ Observe(w) \/ RunnerStops(w)

\* The event loop runs a coroutine whose wait is over or timed out, and a
\* runner that was told to stop does so, or is cancelled after 5 s.  The
\* providers behind the pipeline owe nothing.
Fairness ==
    /\ \A c \in Calls : WF_vars(CallSteps(c))
    /\ WF_vars(DiscardEnds)
    /\ \A w \in Calls : WF_vars(w \in ending /\ RunnerStops(w))

Spec == Init /\ [][Next]_vars /\ Fairness

------------------------------------------------------------------------------
(* Properties.                                                             *)

Words == Cardinality({i \in DOMAIN answer.script : answer.script[i] = "speech"})

\* tests/test_voice.py: a pass of tool calls does not complete the turn before
\* its follow-up.  Where nothing was left of an earlier call and nobody
\* interrupts, a call that returns has sent all its speech to its own on_audio,
\* and one that fails had no speech, an error or a runner that died.
AnswersAreWhole ==
    [][\A c \in Calls : answer.clean /\ at[c] = "turn" =>
          /\ at'[c] = "answered" => answer.heard = Words
          /\ at'[c] = "failed" => \/ Words = 0 \/ "error" \in ToSet(answer.script)
                                  \/ runner[c] \notin running]_vars

\* No call is left to the turn's time limit once its answer has come to its end
\* or its runner has stopped: what an interrupted pass of tool calls noted, or
\* a worker launched meanwhile, does not hide it.
TurnsEndInTime ==
    \A c \in Calls : answer.clean /\ at[c] = "turn" /\ ~turn.done =>
        /\ runner[c] \in running
        /\ answer.script # <<>> =>
              inbox[runner[c]] # <<>> \/ flight[runner[c]] # <<>>

\* Whatever the providers, the runner and the other calls do, every call
\* returns, and the lock passes on.
CallsReturn == \A c \in Calls : at[c] = "waiting" ~> at[c] \in Returned

\* voice.py: one persistent Pipecat conversation pipeline per session.
OnePipeline == \A v, w \in running : v = w
==============================================================================

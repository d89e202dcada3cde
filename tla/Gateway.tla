------------------------------- MODULE Gateway -------------------------------
(***************************************************************************)
(* Who may speak on one realtime connection.  The websocket's main loop    *)
(* and the tool calls of a running voice turn are coroutines of one event  *)
(* loop; both may refresh the aircraft state and handle the semantic       *)
(* events it publishes, and both start and interrupt response tasks        *)
(* through the shared variables response_task and response_event_id:       *)
(*                                                                         *)
(*   turn      the answer to an utterance;                                 *)
(*   announce  a proactive event;                                          *)
(*   welcome   the greeting of a new cockpit slot;                         *)
(*   coach     feedback of the spatial coach.                              *)
(*                                                                         *)
(* Code runs uninterrupted between two awaits.  The await that matters is  *)
(* interrupt_response's, for the task it cancels: meanwhile the other      *)
(* coroutine runs.  The events come from an EventStream, which             *)
(* RuleLifecycle implements.  Publication is decided there: an event that  *)
(* is not published is dropped at once and does not appear here.           *)
(*                                                                         *)
(* A definition named Mutant... is the definition after it with a          *)
(* plausible bug; nothing uses it.                                         *)
(***************************************************************************)
EXTENDS Naturals, Sequences, SequencesExt, FiniteSets

CONSTANTS
    Rules,          \* identifiers of the deterministic rules
    Warnings,       \* rules of severity WARNING or CRITICAL
    Tools,          \* aircraft tool calls that may run side by side
    MaxRaised,      \* bound on the events of one rule
    MaxReplies      \* bound on tasks other than announcements

Main == "main"
Handlers == {Main} \cup Tools

ASSUME GatewayAssumption ==
    /\ IsFiniteSet(Rules) /\ Warnings \subseteq Rules
    /\ Main \notin Tools
    /\ {MaxRaised, MaxReplies} \subseteq Nat

VARIABLES
    raised, open, announced, withdrawn, \* the event stream
    connection,         \* "open", "closing" or "closed"
    ready,              \* telemetry.ready: a snapshot was applied
    ptt_active,         \* session.ptt_active
    tasks,              \* every response task ever started
    response_task,      \* the latest of them, 0 for None
    response_event_id,  \* the event response_task announces, or NoEvent
    active_event_ids,   \* events raised and not resolved, as handled so far
    voice,              \* the conversation pipeline, 0 for None
    pipelines,          \* pipelines created so far
    handler,            \* where each coroutine is
    gathers,            \* coroutines waiting for a cancelled task, in order
    dismissed           \* events whose end handle_managed_event has seen

streamVars == <<raised, open, announced, withdrawn>>
replyVars  == <<tasks, response_task, response_event_id>>
voiceVars  == <<voice, pipelines>>
stateVars  == <<connection, ready, ptt_active>>
idVars     == <<active_event_ids, dismissed>>
vars == <<streamVars, stateVars, replyVars, idVars, voiceVars, handler, gathers>>

Stream == INSTANCE EventStream

NoEvent == <<>>
Kinds == {"turn", "announce", "welcome", "coach"}
Events == [id: Stream!EventIds, status: {"RAISED", "ENDED"}]
Idle == [at |-> "idle", then |-> "none", task |-> 0, pending |-> <<>>]

\* Every variable has its type; response_event_id belongs to a response_task,
\* and what the gateway holds active or has dismissed was announced to it.
TypeOK ==
    /\ Stream!TypeOK
    /\ connection \in {"open", "closing", "closed"}
    /\ ready \in BOOLEAN
    /\ ptt_active \in BOOLEAN
    /\ tasks \in Seq([kind: Kinds, event: Stream!EventIds \cup {NoEvent},
                      state: {"created", "waiting", "speaking", "failing", "done"},
                      pipeline: Nat, cancel: BOOLEAN, muted: BOOLEAN])
    /\ response_task \in 0..Len(tasks)
    /\ response_event_id \in Stream!EventIds \cup {NoEvent}
    /\ response_task = 0 => response_event_id = NoEvent
    /\ active_event_ids \subseteq announced
    /\ voice \in 0..pipelines /\ pipelines \in Nat
    /\ handler \in [Handlers ->
          [at: {"idle", "batch", "gather", "interrupted"},
           then: {"none", "batch", "speak", "ptt", "reset", "close"},
           task: 0..Len(tasks), pending: Seq(Events)]]
    /\ gathers \in Seq(Handlers)
    /\ dismissed \subseteq announced

Init ==
    /\ Stream!Init
    /\ connection = "open" /\ ready = FALSE /\ ptt_active = FALSE
    /\ tasks = <<>> /\ response_task = 0 /\ response_event_id = NoEvent
    /\ active_event_ids = {} /\ dismissed = {}
    /\ voice = 0 /\ pipelines = 0
    /\ handler = [h \in Handlers |-> Idle] /\ gathers = <<>>

------------------------------------------------------------------------------
(* Response tasks and their pipeline.                                      *)

Live(t) == t # 0 /\ tasks[t].state # "done"

\* PipecatVoicePipeline.interrupt and close: the turn that speaks goes silent
\* and its wait is over.
Mute(ts, pipeline) ==
    [t \in DOMAIN ts |->
        IF pipeline # 0 /\ ts[t].pipeline = pipeline /\ ts[t].state = "speaking"
        THEN [ts[t] EXCEPT !.muted = TRUE] ELSE ts[t]]

Done == [kind |-> "turn", event |-> NoEvent, state |-> "done", pipeline |-> 0,
         cancel |-> FALSE, muted |-> FALSE]

Replies == Cardinality({t \in DOMAIN tasks : tasks[t].kind # "announce"})

Start(kind, event) ==
    /\ tasks' = Append(tasks, [Done EXCEPT !.kind = kind, !.event = event,
                                          !.state = "created"])
    /\ response_task' = Len(tasks) + 1

\* Between two awaits a coroutine has the event loop for itself.
Running(h) == handler[h].at \in {"batch", "interrupted"}
Quiet == ~\E h \in Handlers : Running(h)
MainIdle == Quiet /\ handler[Main].at = "idle" /\ connection = "open"

\* A task's last step; an announcement lets go of response_event_id.
Finished(t) ==
    /\ tasks' = [tasks EXCEPT ![t] =
                    [Done EXCEPT !.kind = tasks[t].kind, !.event = tasks[t].event]]
    /\ response_event_id' =
          IF tasks[t].kind = "announce" /\ tasks[t].state # "created"
             /\ response_event_id = tasks[t].event
          THEN NoEvent ELSE response_event_id

\* Tasks first run in the order they were created.
InLine(t) ==
    tasks[t].state = "created" =>
        \A u \in 1..(t - 1) : tasks[u].state # "created"

\* The task takes the pipeline, making one if there is none.
TaskStarts(t) ==
    /\ Quiet
    /\ tasks[t].state = "created" /\ ~tasks[t].cancel
    /\ InLine(t)
    /\ voice' = IF voice = 0 THEN pipelines + 1 ELSE voice
    /\ pipelines' = IF voice = 0 THEN pipelines + 1 ELSE pipelines
    /\ tasks' = [tasks EXCEPT ![t].state = "waiting", ![t].pipeline = voice']
    /\ UNCHANGED <<streamVars, stateVars, response_task, response_event_id,
                   idVars, handler, gathers>>

\* The pipeline's turn lock is fair; its holder speaks once the pipeline runs.
TaskSpeaks(t) ==
    /\ Quiet
    /\ tasks[t].state = "waiting" /\ ~tasks[t].cancel
    /\ \A u \in DOMAIN tasks \ {t} :
          tasks[u].pipeline = tasks[t].pipeline =>
              /\ tasks[u].state # "speaking"
              /\ tasks[u].state = "waiting" => t < u
    /\ tasks' = [tasks EXCEPT ![t].state = "speaking"]
    /\ UNCHANGED <<streamVars, stateVars, response_task, response_event_id,
                   idVars, voiceVars, handler, gathers>>

TaskEnds(t) ==
    /\ Quiet
    /\ tasks[t].state = "speaking" /\ ~tasks[t].cancel
    /\ Finished(t)
    /\ UNCHANGED <<streamVars, stateVars, response_task, idVars, voiceVars,
                   handler, gathers>>

\* A provider error, a timeout or a silenced turn: the task discards whatever
\* pipeline is current by then, and closes it under any other task's feet.
TaskFails(t) ==
    /\ Quiet
    /\ tasks[t].state \in {"waiting", "speaking"} /\ ~tasks[t].cancel
    /\ tasks' = Mute([tasks EXCEPT ![t].state = "failing"], voice)
    /\ voice' = 0
    /\ UNCHANGED <<streamVars, stateVars, response_task, response_event_id,
                   idVars, pipelines, handler, gathers>>

TaskReports(t) ==
    /\ Quiet
    /\ tasks[t].state = "failing" /\ ~tasks[t].cancel
    /\ Finished(t)
    /\ UNCHANGED <<streamVars, stateVars, response_task, idVars, voiceVars,
                   handler, gathers>>

\* The cancelled task waits for the tool calls it has made.
MutantTaskCancelled(t) ==
    /\ Quiet
    /\ tasks[t].cancel /\ tasks[t].state # "done"
    /\ \A h \in Tools : handler[h].at = "idle"
    /\ Finished(t)
    /\ UNCHANGED <<streamVars, stateVars, response_task, idVars, voiceVars,
                   handler, gathers>>

TaskCancelled(t) ==
    /\ Quiet
    /\ tasks[t].cancel /\ tasks[t].state # "done"
    /\ InLine(t)
    /\ Finished(t)
    /\ UNCHANGED <<streamVars, stateVars, response_task, idVars, voiceVars,
                   handler, gathers>>

TaskSteps(t) ==
    \/ TaskStarts(t) \/ TaskSpeaks(t) \/ TaskEnds(t) \/ TaskFails(t)
    \/ TaskReports(t) \/ TaskCancelled(t)

------------------------------------------------------------------------------
(* interrupt_response: the coroutine h goes on with `then` afterwards.     *)

\* The task is let go of and not cancelled.
MutantInterruptResponse(h, then, pending) ==
    /\ handler' = [handler EXCEPT ![h] =
            [at |-> "interrupted", then |-> then, task |-> 0, pending |-> pending]]
    /\ response_task' = 0 /\ response_event_id' = NoEvent
    /\ UNCHANGED <<tasks, gathers>>

InterruptResponse(h, then, pending) ==
    IF Live(response_task)
    THEN /\ tasks' = Mute([tasks EXCEPT ![response_task].cancel = TRUE], voice)
         /\ handler' = [handler EXCEPT ![h] =
                [at |-> "gather", then |-> then, task |-> response_task,
                 pending |-> pending]]
         /\ gathers' = Append(gathers, h)
         /\ UNCHANGED <<response_task, response_event_id>>
    ELSE /\ handler' = [handler EXCEPT ![h] =
                [at |-> "interrupted", then |-> then, task |-> 0,
                 pending |-> pending]]
         /\ response_task' = 0 /\ response_event_id' = NoEvent
         /\ UNCHANGED <<tasks, gathers>>

\* The one variable forgotten.
MutantResume(h) ==
    /\ Quiet
    /\ handler[h].at = "gather"
    /\ ~Live(handler[h].task)
    /\ response_task' = 0
    /\ handler' = [handler EXCEPT ![h].at = "interrupted", ![h].task = 0]
    /\ gathers' = SelectSeq(gathers, LAMBDA g : g # h)
    /\ UNCHANGED <<streamVars, stateVars, tasks, response_event_id, idVars, voiceVars>>

\* The gather returns, to those that wait for one task in the order they came;
\* response_task is cleared whatever it has become meanwhile.
Resume(h) ==
    LET before == {i \in DOMAIN gathers : \A j \in 1..i : gathers[j] # h}
    IN  /\ Quiet
        /\ handler[h].at = "gather"
        /\ ~Live(handler[h].task)
        /\ \A i \in before : handler[gathers[i]].task # handler[h].task
        /\ response_task' = 0
        /\ response_event_id' = NoEvent
        /\ handler' = [handler EXCEPT ![h].at = "interrupted", ![h].task = 0]
        /\ gathers' = SelectSeq(gathers, LAMBDA g : g # h)
        /\ UNCHANGED <<streamVars, stateVars, tasks, idVars, voiceVars>>

\* A tool call dies in its wait when the interruption reaches the pipeline.
ToolAborted(h) ==
    /\ Quiet
    /\ h \in Tools
    /\ handler[h].at = "gather"
    /\ handler' = [handler EXCEPT ![h] = Idle]
    /\ gathers' = SelectSeq(gathers, LAMBDA g : g # h)
    /\ UNCHANGED <<streamVars, stateVars, replyVars, idVars, voiceVars>>

------------------------------------------------------------------------------
(* refresh_aircraft_state and handle_managed_event.                        *)

At(h, then) == handler[h].at = "interrupted" /\ handler[h].then = then
Goes(h, at, pending) ==
    handler' = [handler EXCEPT ![h] =
                   [at |-> at, then |-> "none", task |-> 0, pending |-> pending]]

Batch(closing, raising) ==
    {[id |-> e, status |-> "ENDED"] : e \in closing}
        \cup {[id |-> Stream!NewEvent(r), status |-> "RAISED"] : r \in raising}

\* The events of one update, in whatever order its rules are evaluated.
Refresh(h) ==
    \E closing \in SUBSET open, raising \in SUBSET Rules :
        /\ \A r \in raising : raised[r] < MaxRaised
        /\ Stream!Deliver(closing, raising, raising)
        /\ \E events \in SetToSeqs(Batch(closing, raising)) :
              Goes(h, "batch", events)

\* A tool the language model calls in the turn that is speaking.
ToolCall(h) ==
    /\ Quiet
    /\ handler[h].at = "idle"
    /\ ready
    /\ \E t \in DOMAIN tasks : /\ tasks[t].kind = "turn"
                               /\ tasks[t].state = "speaking"
                               /\ ~tasks[t].muted
    /\ Refresh(h)
    /\ UNCHANGED <<stateVars, replyVars, idVars, voiceVars, gathers>>

Handling(h, status) ==
    /\ handler[h].at = "batch"
    /\ handler[h].pending # <<>>
    /\ Head(handler[h].pending).status = status
    /\ UNCHANGED <<streamVars, stateVars, voiceVars>>

MutantHandleEnd(h) ==
    LET e    == Head(handler[h].pending).id
        rest == Tail(handler[h].pending)
    IN  /\ Handling(h, "ENDED")
        /\ active_event_ids' = active_event_ids \ {e}
        /\ dismissed' = dismissed \cup {e}
        /\ Goes(h, "batch", rest)
        /\ UNCHANGED <<replyVars, gathers>>

\* The end of an event interrupts the response that announces it.
HandleEnd(h) ==
    LET e    == Head(handler[h].pending).id
        rest == Tail(handler[h].pending)
    IN  /\ Handling(h, "ENDED")
        /\ active_event_ids' = active_event_ids \ {e}
        /\ dismissed' = dismissed \cup {e}
        /\ IF response_event_id = e
           THEN InterruptResponse(h, "batch", rest)
           ELSE Goes(h, "batch", rest) /\ UNCHANGED <<replyVars, gathers>>

\* Severity is not looked at.
MutantDropped(e) == ptt_active

\* While the pilot talks nothing is announced; while something is said only a
\* warning is, and replaces it.
Dropped(e) == ptt_active \/ (Live(response_task) /\ e[1] \notin Warnings)

\* A new announcement waits for the pipeline instead of interrupting.
MutantHandleRaise(h) ==
    LET e    == Head(handler[h].pending).id
        rest == Tail(handler[h].pending)
    IN  /\ Handling(h, "RAISED")
        /\ active_event_ids' = active_event_ids \cup {e}
        /\ UNCHANGED <<dismissed, gathers>>
        /\ IF Dropped(e) \/ e \in active_event_ids
           THEN Goes(h, "batch", rest) /\ UNCHANGED replyVars
           ELSE /\ Start("announce", e)
                /\ response_event_id' = e
                /\ Goes(h, "batch", rest)

\* The eviction of one of more than 1,000 active events is left out.
HandleRaise(h) ==
    LET e    == Head(handler[h].pending).id
        rest == Tail(handler[h].pending)
    IN  /\ Handling(h, "RAISED")
        /\ active_event_ids' = active_event_ids \cup {e}
        /\ UNCHANGED dismissed
        /\ \/ /\ e \in active_event_ids \/ Dropped(e)
              /\ Goes(h, "batch", rest)
              /\ UNCHANGED <<replyVars, gathers>>
           \/ /\ ~Dropped(e) /\ e \notin active_event_ids
              /\ Live(response_task)
              /\ InterruptResponse(h, "speak", handler[h].pending)
           \/ /\ ~Dropped(e) /\ e \notin active_event_ids
              /\ ~Live(response_task)
              /\ Start("announce", e)
              /\ response_event_id' = e
              /\ Goes(h, "batch", rest)
              /\ UNCHANGED gathers

Announce(h) ==
    LET e == Head(handler[h].pending).id
    IN  /\ At(h, "speak")
        /\ Start("announce", e)
        /\ response_event_id' = e
        /\ Goes(h, "batch", Tail(handler[h].pending))
        /\ UNCHANGED <<streamVars, stateVars, idVars, voiceVars, gathers>>

\* The interruption was the last thing to do for one event or one message.
Proceed(h) ==
    /\ \/ At(h, "batch") /\ Goes(h, "batch", handler[h].pending)
       \/ At(h, "none") /\ Goes(h, "idle", <<>>)
       \/ handler[h].at = "batch" /\ handler[h].pending = <<>> /\ Goes(h, "idle", <<>>)
    /\ UNCHANGED <<streamVars, stateVars, replyVars, idVars, voiceVars, gathers>>

------------------------------------------------------------------------------
(* The main loop: one action per message.                                  *)

\* A complete snapshot of a new slot: the welcome, then the first refresh.
Snapshot ==
    /\ MainIdle
    /\ ~ready /\ ready' = TRUE
    /\ IF Live(response_task) THEN UNCHANGED <<tasks, response_task>>
       ELSE Replies < MaxReplies /\ Start("welcome", NoEvent)
    /\ Refresh(Main)
    /\ UNCHANGED <<connection, ptt_active, response_event_id, idVars, voiceVars,
                   gathers>>

Delta ==
    /\ MainIdle
    /\ ready
    /\ Refresh(Main)
    /\ UNCHANGED <<stateVars, replyVars, idVars, voiceVars, gathers>>

MutantNewEpoch ==
    /\ MainIdle
    /\ ready /\ ready' = FALSE
    /\ Stream!Deliver(open, {}, {})
    /\ handler' = [handler EXCEPT ![Main].at = "interrupted", ![Main].then = "reset"]
    /\ UNCHANGED <<connection, ptt_active, replyVars, idVars, voiceVars, gathers>>

\* A catalog with a new epoch.  The events of the disconnecting update are
\* dropped: the whole assistant is reset instead.
NewEpoch ==
    /\ MainIdle
    /\ ready /\ ready' = FALSE
    /\ Stream!Deliver(open, {}, {})
    /\ InterruptResponse(Main, "reset", <<>>)
    /\ UNCHANGED <<connection, ptt_active, idVars, voiceVars>>

MutantResetAssistant ==
    /\ At(Main, "reset")
    /\ tasks' = Mute(tasks, voice)
    /\ voice' = 0
    /\ Goes(Main, "idle", <<>>)
    /\ UNCHANGED <<streamVars, stateVars, response_task, response_event_id,
                   pipelines, gathers, idVars>>

ResetAssistant ==
    /\ At(Main, "reset")
    /\ active_event_ids' = {}
    /\ tasks' = Mute(tasks, voice)
    /\ voice' = 0
    /\ Goes(Main, "idle", <<>>)
    /\ UNCHANGED <<streamVars, stateVars, response_task, response_event_id,
                   dismissed, pipelines, gathers>>

CoachFeedback ==
    /\ MainIdle
    /\ ~ptt_active /\ ~Live(response_task)
    /\ Replies < MaxReplies
    /\ Start("coach", NoEvent)
    /\ UNCHANGED <<streamVars, stateVars, response_event_id, idVars, voiceVars,
                   handler, gathers>>

PttStart ==
    /\ MainIdle
    /\ InterruptResponse(Main, "ptt", <<>>)
    /\ UNCHANGED <<streamVars, stateVars, idVars, voiceVars>>

StartPtt ==
    /\ At(Main, "ptt")
    /\ ptt_active' = TRUE
    /\ Goes(Main, "idle", <<>>)
    /\ UNCHANGED <<streamVars, connection, ready, replyVars, idVars, voiceVars,
                   gathers>>

AssistantInterrupt ==
    /\ MainIdle
    /\ InterruptResponse(Main, "none", <<>>)
    /\ UNCHANGED <<streamVars, stateVars, idVars, voiceVars>>

\* An overflowed utterance yields no turn; any other replaces response_task
\* without a look at what it was.
PttEnd ==
    /\ MainIdle
    /\ ptt_active /\ ptt_active' = FALSE
    /\ \/ UNCHANGED <<tasks, response_task>>
       \/ Replies < MaxReplies /\ Start("turn", NoEvent)
    /\ UNCHANGED <<streamVars, connection, ready, response_event_id, idVars,
                   voiceVars, handler, gathers>>

MutantDisconnect ==
    /\ MainIdle
    /\ connection' = "closing"
    /\ Stream!Deliver(open, {}, {})
    /\ ready' = FALSE
    /\ handler' = [handler EXCEPT ![Main].at = "interrupted", ![Main].then = "close"]
    /\ UNCHANGED <<ptt_active, replyVars, idVars, voiceVars, gathers>>

\* The websocket is gone: the handler's cleanup.
Disconnect ==
    /\ MainIdle
    /\ connection' = "closing"
    /\ Stream!Deliver(open, {}, {})
    /\ ready' = FALSE
    /\ InterruptResponse(Main, "close", <<>>)
    /\ UNCHANGED <<ptt_active, idVars, voiceVars>>

Cleanup ==
    /\ At(Main, "close")
    /\ connection' = "closed"
    /\ tasks' = Mute(tasks, voice)
    /\ Goes(Main, "idle", <<>>)
    /\ UNCHANGED <<streamVars, ready, ptt_active, response_task,
                   response_event_id, idVars, voiceVars, gathers>>

------------------------------------------------------------------------------

Coroutine(h) ==
    \/ HandleEnd(h) \/ HandleRaise(h) \/ Announce(h) \/ Proceed(h) \/ Resume(h)

MainStep == ResetAssistant \/ StartPtt \/ Cleanup

Message ==
    \/ Snapshot \/ Delta \/ NewEpoch \/ CoachFeedback \/ PttStart
    \/ AssistantInterrupt \/ PttEnd \/ Disconnect

TaskIds == 1..(MaxReplies + MaxRaised * Cardinality(Rules))

Next ==
    \/ Message
    \/ MainStep
    \/ \E h \in Handlers : Coroutine(h)
    \/ \E h \in Tools : ToolCall(h) \/ ToolAborted(h)
    \/ \E t \in DOMAIN tasks : TaskSteps(t)

\* The event loop's ready queue is first come, first served: what may run is
\* at most delayed by coroutines running before it, hence strong fairness.  A
\* turn ends or times out.  Neither the pilot nor the aircraft owes anything.
Fairness ==
    /\ WF_vars(MainStep)
    /\ \A h \in Handlers : SF_vars(Coroutine(h))
    /\ \A t \in TaskIds : SF_vars(t \in DOMAIN tasks /\ TaskSteps(t))

Spec == Init /\ [][Next]_vars /\ Fairness

------------------------------------------------------------------------------
(* Properties.                                                             *)

Undisturbed(t) == Live(t) /\ ~tasks[t].cancel /\ ~tasks[t].muted

\* docs/protocol.md: ptt.start cancels active proactive speech, and while the
\* turn is active none begins (but for a welcome).
PttSilences ==
    MainIdle /\ ptt_active =>
        \A t \in DOMAIN tasks : Undisturbed(t) => tasks[t].kind = "welcome"

\* docs/architecture.md: an event's own resolution cancels its announcement.
ResolvedAreSilent ==
    Quiet => \A t \in DOMAIN tasks :
                Undisturbed(t) => tasks[t].event \notin dismissed

\* docs/protocol.md: a new epoch interrupts the assistant, so until the next
\* snapshot no event of the previous slot is announced.
SlotsAreSeparate ==
    MainIdle /\ ~ready =>
        \A t \in DOMAIN tasks : Undisturbed(t) => tasks[t].kind # "announce"

\* Whatever speaks can be interrupted: it is response_task, or a welcome that
\* an utterance has overtaken.
ResponsesAreHeld ==
    Quiet => \A t \in DOMAIN tasks :
                Undisturbed(t) => t = response_task \/ tasks[t].kind = "welcome"

\* What the gateway takes for active are the events that are open.
RegistryCurrent ==
    MainIdle => active_event_ids = open

\* docs/architecture.md: warnings can replace an active response, advisories
\* do not.  A turn is cancelled for the pilot, a new slot or a disconnect, or
\* for a warning; never for an advisory or because some event is over.
TurnsYieldTo(h) ==
    \/ handler'[h].then \in {"none", "ptt", "reset", "close"}
    \/ /\ handler'[h].then = "speak"
       /\ Head(handler'[h].pending).id[1] \in Warnings

TurnsAreKept ==
    [][\A t \in DOMAIN tasks :
          tasks[t].kind = "turn" /\ ~tasks[t].cancel /\ tasks'[t].cancel
              => \E h \in Handlers : handler[h] # handler'[h] /\ TurnsYieldTo(h)]_vars

\* Nothing is left to say on a connection that is over, but for a welcome
\* that an utterance has overtaken.
ClosedIsSilent ==
    connection = "closed" =>
        \A t \in DOMAIN tasks : Undisturbed(t) => tasks[t].kind = "welcome"

\* Nobody waits forever for a task it has cancelled, and cleanup comes to an
\* end, although tasks are cancelled from coroutines they are waiting for.
GathersReturn ==
    /\ \A h \in Handlers : handler[h].at = "gather" ~> handler[h].at # "gather"
    /\ connection = "closing" ~> connection = "closed"
==============================================================================

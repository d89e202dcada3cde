# A TLA+ model of dcs-copilot

dcs-copilot ("MARA") is a voice co-pilot for DCS World. A thin client on the
pilot's machine decodes the cockpit export of DCS-BIOS, captures push-to-talk
audio and keeps one websocket to a backend; the backend turns telemetry into
deterministic semantics (rules, events, flight statistics), answers spoken
questions through a voice pipeline and speaks warnings of its own accord.

This directory models the parts of that program whose correctness depends on
order, interleaving, bounded resources and failure. Paths below are relative to
`src/`.

## 1. Inventory

| Part | State it keeps | Operations | Talks to |
|---|---|---|---|
| DCS-BIOS client `client/dcs_copilot/dcs/bios_*.py` | address space, pending definitions, current aircraft, decoded values, connected | write, frame complete, malformed frame, staleness, snapshot | callbacks into the publisher and the runtime |
| Telemetry publisher `client/.../telemetry/publisher.py` | epoch, sequence, initial messages, pending values | aircraft, control and connection callbacks, session on/off, flush at 15 Hz | DCS-BIOS client, cloud connection |
| Cloud connection `client/.../network/connection.py` | bounded outbound queue with a reserve, ready flag, session generation | handshake, enqueue, write, disconnect, reconnect | publisher, PTT controller, backend |
| PTT controller and capture `client/.../input/controller.py`, `audio/portaudio.py` | active, generation, microphone | press, release, reset (coroutines under one lock), audio callback thread | input devices, connection, playback |
| Realtime session `cloud/.../session.py` | authenticated, session id, turn, audio buffer | handshake messages, ptt.start/end, media | gateway |
| Gateway `cloud/.../app.py`, `voice.py` | response task and its event, active event ids, pipeline | main loop, tool calls, response tasks, cleanup | everything of the backend |
| Telemetry ingress, raw store `cloud/.../telemetry.py`, `aircraft/raw.py` | epoch, sequence, catalog, snapshot under assembly, values | catalog, snapshot, delta, reset | gateway |
| State store `cloud/.../state/store.py` | current aircraft; drives the four below in one synchronous pass | update | gateway (main loop and tools) |
| Rule engine `cloud/.../rules/engine.py` | issue, debounce candidate, last notification per rule | evaluate, reset | events, statistics |
| Event manager and speech policy `cloud/.../events/` | active and published event ids, chatter level | transitions, reset | gateway |
| Flight statistics `cloud/.../habits/` | aircraft, coverage, counts, pending summaries | observe, transition, finish, acknowledge | accounts |
| Phase detector, checklists `cloud/.../state/phase_detector.py`, `checklists/` | candidate phase and since when; latched and confirmed items, guided stage | observe, tools of the guide, reset | state store, tools |
| Hornet adapter, reports, rules `cloud/.../aircraft/`, `ground_ops.py`, `flight_ops.py`, `rules/fa18c/` | gear and trim memory, model clock, position | normalize, reports, conditions | state store, tools |
| Coach `cloud/.../coach/` | permissions, observations, exercise, feedback times, last debrief | telemetry, tools, reset | gateway |
| Voice pipeline `cloud/.../voice.py` | worker, runner, turn lock and the turn's variables | respond, announce, interrupt, close | response tasks, Pipecat |
| Accounts, auth `cloud/.../accounts.py`, `auth.py`, `client/.../desktop/auth.py` | users, refresh credentials, flights, habits; the vault of the device | register, login, refresh, revoke, CRUD | database, HTTP, gateway |
| Backend supervisor `client/dcs_copilot/backend.py` | process, owner flag, restart count, monitor | start, restart, stop, monitor | desktop application |
| Desktop, CLI, exporters, providers, packaging, website | settings, windows, files | I/O | - |

### What is hard

* **Coroutines that share variables across awaits.** The gateway's main loop and
  the tool calls of a running turn both refresh the aircraft state, handle the
  events it publishes and start, interrupt and forget response tasks.
* **One bounded queue for three kinds of traffic** (audio, telemetry, controls),
  emptied by a connection that breaks and comes back at any await.
* **Epochs.** A slot change, a reconnect or a stale DCS-BIOS begins a new one
  while messages of the old one are on their way; one refused message would
  silence telemetry for the rest of the epoch.
* **Order within one pass.** Statistics, rules, events and resets run in an order
  on which counts, coverage and the pairing of event ids depend.
* **Time.** Debounce, clear debounce, cooldown, dwell of phases and of the gear,
  zones and feedback of exercises, staleness.
* **One pipeline for all speech.** Answers and announcements queue for it while time
  limits, interruptions, a dying runner and the end of the connection cut them short.
* **Two processes, one credential.** The desktop and its runtime rotate the same
  refresh token; an answer may be lost after the old one is dead.
* **Threads without a lock.** The window, pool threads and monitors start and stop the
  same backend process.
* **Partial failure.** A microphone that does not open, a pipeline that fails, a
  summary that is rejected, a malformed frame.

`PROJECT.json` lists every such place under `hazards`, at its line, with the
properties that watch it.

### What makes each part correct

* Rules: an issue is active only after its condition held throughout the debounce,
  and is removed only after it was clear throughout; announcements keep their
  cooldown.
* Events: one open event per rule, an id never reused, a close published exactly
  for what was announced.
* Statistics: every activation is counted once, in the flight it happened in.
* PTT: audio of one press, in order, of one session; the microphone goes off;
  a turn that began ends.
* Gateway: the pilot silences the assistant; a resolved event is not announced;
  a new slot hears nothing of the previous one; whatever speaks can be
  interrupted; nobody waits forever.
* Voice: an answer that nothing disturbed is given whole and to the call that asked;
  no answer that has ended, and no dead runner, is waited for; every call returns.
* Flight records: no finished flight's summary is lost but by overflow of the
  deque, each is stored once and in order, what waits is stored when storage
  recovers, and the row of a session is ended.
* Telemetry: the newest value always gets through, no
  position of a switch is skipped, no slot shows another's values, and in the end
  the gateway shows what the cockpit shows.
* Phase and checklist: a phase is taken when, and only when, it was inferred throughout
  its dwell; progress is of this cockpit; ready means that every item was verified.
* Adapter, reports and rules: what is derived over time stands on a live history; a
  report never calls ready what a rule it covers warns of.
* Coach: feedback only for what held, spaced by its cooldown; a debrief that adds up.
* Sign-in: no token is exchanged twice, no failure but a cut-short exchange leaves a dead one
  in the vault, signing out stays.
* Supervisor: bounded restarts, no process forgotten, no call that hangs.

## 2. Modules

```
EventStream  <--implemented by-- RuleLifecycle <--extended by-- RuleHistory
     ^                                  ^
     | events of                        | proofs
  Gateway <-- GatewayProofs       RuleLifecycleProofs
              (and of EventStream)

BiosClient <--extended by-- TelemetryStream <-- TelemetryProofs

PttLink <-- PttLinkProofs

               Readiness, CockpitClock
                  ^          ^     ^
         CockpitContext   Hornet  Coach              Voice <-- VoiceProofs
           ^        ^        ^     ^
           |         CockpitProofs
    HornetChecklist (constants of the runs)

FlightRecords <-- FlightRecordsProofs     SignIn, Supervisor <-- DesktopProofs
```

**EventStream** is the abstract promise of the backend's event manager: batches of
closes and raises, of which some are published. It knows no telemetry and no time.

**RuleLifecycle** is one realtime connection's deterministic semantics:
`AircraftStateStore.update` as one action per outcome (connected, disconnected,
the cleanup's, and the one that raises an exception), the chatter level and a
clock. `runtime` is `RuleEngine._runtime`; `Advance` is `_advance`, with
`Activate` and `Deactivate` for `_activate` and `_deactivate`; `HandleTransitions`
is `EventManager.handle_transition` for all transitions of a pass together with
`reset`; `Observe` is `FlightStatsManager.observe`, `finish` and `_on_transition`.
Telemetry is reduced to the rules whose inputs are usable and those of them whose
condition is violated, both arbitrary in every pass. An event id is the rule and
the ordinal of the draw (`uuid4` never repeats). `archived` sums the counts of the
finished summaries. It implements EventStream under
`open <- {OpenEvent(r) : r has an active event id}`. An exception met by a tool
call instead of the main loop is treated like one in the main loop.

**RuleHistory** adds history variables that record what the evaluations saw, so
that the timing contract of `docs/rules.md` is stated against observations and
not against the engine's own timers.

**PttLink** follows a press from the button to the backend's utterance. `held` is the
button and `pressed` what the device has reported: the keyboard hook at once and with
repeats (`KeyDown`, `KeyUp`; whether the right modifiers are held is open), the joystick
at the next `Poll`, unless it is unplugged (`Move`). `tasks` are the coroutines in the FIFO lock of the controller; `step` is the await the holder
is suspended in, so that everything else (another edge, a chunk's callback, a
disconnect, a reconnect, the backend) may happen there. `outbound` is the queue
with `QueueSize` for streams and `Reserve` above it; `wire` is what the transport
has taken. A broken connection loses both, and the backend serves the next one
with a new session object. `StopRuntime` is the `finally` of `run_client_runtime`: the
device is stopped, which releases it, the controller is released (the task `quit`), the
connection leaves with `session.end` (`Leave`, `EndSession`), and `Exit` cancels what is
still scheduled.

**Gateway** is the concurrency of `app.py`: `handler[h]` is where each coroutine
(the main loop and the tool calls) is, `tasks` are all response tasks ever
started, `response_task` and `response_event_id` are the closure's variables.
Between two awaits a coroutine has the loop for itself (`Quiet`); the awaits that
matter are those of `interrupt_response` (`gather` until `Resume`). The events
come from an EventStream. Assumptions: `voice.interrupt()` does not suspend on the
way to the pipeline; Pipecat may abort a tool call when the interruption reaches
it (`ToolAborted`); the state `waiting` covers the start of a pipeline, which an
interruption cannot silence; the database awaits of a snapshot and of summaries
are not separate steps (FlightRecords has the latter); `session.end` is not an
action.

**BiosClient** is `DcsBiosClient` with its parser and address space. Bytes are
reduced to whole controls, a control's address may be shared by aircraft. A frame
collects the writes made since the last sync marker; a malformed one forgets them
and keeps their effect.

**TelemetryStream** extends it with publisher, queue, websocket, ingress and
store. Client callbacks run to completion, so `Frame`, `Connect` and each flush
are single steps; `link = "ending"` is the stretch of `run_once` between the loss
of the socket and `_set_disconnected`. `Initial` builds catalog and snapshot
chunks, `Coalesce` and `Queued` are `_queue_value`, `QueueAll` its calls for a set of changes,
`Heads` and `Behead` the delta of a flush; `Acceptable`, `Accepted` and `Applied` are the ingress and
`apply_telemetry_batch`. Only telemetry is on this queue. Left out: value
validation and size limits, ageing of values at the gateway, and bytes of the next
aircraft read under the old epoch by a refresh in the middle of a frame, which are
values like any others here.

**FlightRecords** is what a connection leaves in the database. `pending` is the
deque of `FlightStatsManager`, a summary is the ordinal of its flight. `persist[h]`
is where the main loop or a tool call is: handling the events of its update
(`events`), or in `persist_pending_summaries` with the rest of its copy (`todo`), in
the SELECT or in the commit of `ingest_flight_summary`; everything else may happen
there. `Breaks` is a storage failure or a cancelled tool call, after which the row
may be there or not (`Inserted` is the unique constraint at work). `Refresh`,
`Snapshot`, `NewEpoch` and `Close` are what telemetry and the end of the loop do to
the statistics; `SessionStart`, `SessionEnd`, `Cleanup` and `EndFlight` write
`flight_sessions`, and a database error in the main loop ends the connection. The
handling of events, speech policy and `update_flight_aircraft` change nothing here;
a failure in one of them is a `Disconnect`. A rejected summary is the subject of
RuleLifecycle and does not occur here.

**Readiness** is what a readiness report makes of its items, shared by the reports of
CockpitContext and Hornet, **CockpitClock** the clock their timers read. **HornetChecklist** is the shipped checklist: its stages,
dependencies, items and what each reads off the aircraft.

**CockpitContext** is what `AircraftStateStore.update` remembers of one cockpit besides
its issues. `detector` is `FlightPhaseDetector`, `Infer` its `_infer` with the rules on
wheels and in the air, `Detected` the dwell; `wheels` the transitions of `StateHistory`;
`progress` the latched and confirmed items and the guided stage of `ChecklistEngine`, on
which the checklist tools act. `view` is the cockpit as the tools see it, later than the
update, with some values stale. `steady`, `seen` and `said` are histories for the
properties. Speeds and climb rates are the side of each threshold they are on.

**Hornet** is the F/A-18C adapter (`Normalize`, for `normalize` of `fa18c.py` and
`generic.py`), the conditions of the shipped rules (`Issues`, per group), and the takeoff
gate and departure cleanup of `ground_ops.py` and `flight_ops.py`, over one picture. Updates
and the tools' snapshots both normalize, in any order, and both change the adapter's
memory. The flight phase is arbitrary, since the detector lags the picture. Debounces are
RuleLifecycle's, whose conditions are arbitrary in turn. Left out are fields that are
only shown.

**Coach** is `CoachCoordinator` with its ingress, tools and four exercises: the two
echelons, the carrier approach and the CASE I pattern. A reading is the side of the thresholds the
geometry lies on; `active` is the exercise with its own feedback and hold times;
`samples` inside it is the history that the debrief is compared with.

**SignIn** is one device's refresh credential: `parent` and `live` are the service's
table (`CheckRefresh` takes the row lock, `CommitRefresh` revokes and issues in one
transaction), `vault` the keyring, `worker` the desktop's restore and sign-in threads and
the runtime, `calls` the requests under way. A request or an answer may be lost, a client
may give up (`GiveUp`), an answer may break off with an exception that is no AuthError and
so empties no vault (`Break`: `http.client.IncompleteRead` and `BadStatusLine` pass lines
126-141 of `desktop/auth.py`), the keyring may fail to read, store or delete (a disjunct
each of `Read`, `Fail`, `Store`, `Logout` and `LoggedOut`), the runtime may be stopped
(`RuntimeEnds`) and the desktop end and start again (`Restart`) between any two steps. `cut`
notes the tokens whose exchange or revocation one of these cut short. `RowLocks` says
whether the database honours SELECT ... FOR UPDATE: PostgreSQL does, SQLite does not.

**Supervisor** is `LocalBackendManager` with the window's calls of it: `thread[t].at` is
the wait each of the UI thread, the pool and the monitor threads is in, and what lies
between two waits is one step. `life` is the processes launched; they may answer, break,
refuse (another version) or exit at any time. `raced` notes the two races named in section 4.

**Voice** is `PipecatVoicePipeline`. `at[c]` is the await of each call; `turn_lock` the
FIFO lock; `worker`, `started` and `turn` the object's fields; `running`, `unstarted`,
`ending`, `inbox` and `flight` are Pipecat: a runner works off requests and interruptions
in the order they were queued, and an InterruptionFrame drops what is on its way, up to the
end frame of the answer it cuts short. A request may bring any answer of `Scripts`,
passes of tool calls included, an error, or nothing at all. `InterruptResponse` and
`Discard` are the gateway's. `answer` is the history the properties compare with.

The modules ending in **Proofs** hold the theorems; the **MC** modules give the constants
of the instances that TLC checks. A definition named `Mutant...` is a plausible bug of the
one after it; nothing uses it.

## 3. Runs

| Run | What it shows | Bounds |
|---|---|---|
| `RuleLifecycle` | engine, events and statistics agree; EventStream is implemented; debounce, clear debounce and cooldown against the history | 2 rules, 2 aircraft, 2 events per rule, summaries accept 1 activation, clock to 3 |
| `PttLink` | order, wholeness and session of audio; microphone and turns end | a keyboard or a joystick, 2 presses, 2 chunks each, 1 aircraft change, 2 sessions, queue 1 + 3; the client may stop at any time |
| `Gateway` | who may speak, without tool calls | 1 warning, 1 advisory, 1 event each, 2 replies |
| `GatewayTools` | no wait is forever, with a tool call beside the main loop | as above, 1 reply |
| `TelemetryStream` | newest value and switch positions kept; the gateway ends up showing the cockpit | 2 aircraft sharing one of 2 switches, 4 writes of which a refresh takes one, 2 sessions, 1 refresh, chunks and queue of 1 |
| `FlightRecords` | summaries are neither lost nor repeated nor reordered, and arrive; flights are ended | 1 tool call beside the main loop, deque of 2, 3 flights, 2 sessions |
| `CockpitContext` | phase, checklist progress and readiness | 2 aircraft, 6 pictures, the shipped stages up to before-taxi, dwells 0 to 2, clock to 3 |
| `Hornet` | reports agree with rules; gear and speeds stand on a live history | 12 images, 5 phases, dwell 2, health timeout 1, clock to 4 |
| `Coach` | feedback held and spaced; debriefs add up | 1 echelon, the approach and the pattern, 2 pictures, 2 starts, clock to 3 |
| `SignIn` | tokens exchanged once; the vault's is usable or was cut short; signing out stays | 3 tokens, 4 requests, row locks |
| `Supervisor` | restarts bounded, no process forgotten, calls return | 1 pool thread, 2 monitors, limit 1, 2 calls |
| `Voice` | answers are whole, no ended turn is waited for, calls return | 1 reply, 2 announcements |

EventStream has no run of its own: what it promises is proved for every set of rules
(section 5), RuleLifecycle is checked to implement it, and Gateway draws its events from it.

The bounds are chosen so that the cases that matter happen: queue and wire of one
force refusals at every position, chunks of one make every catalog and snapshot
several messages, two sessions suffice for something to leak from one into the
next, two aircraft with a shared address for one slot to show another's values,
two rules for one to act while the other has an open event, a deque smaller than
the number of flights for it to overflow while a coroutine holds a copy, dwells of
two ticks for a flicker inside one, four requests for a rotation whose answer is lost,
a retry, a sign-in and a sign-out beside them, two monitors for one to outlive the call that started
it, and three calls of the pipeline for one to find what the other left while a third
waits. `MaxRuleActivations` and `RestartLimit` are 1 instead of 100 and 2: only crossing
them matters. Event ids, tokens and sequence numbers grow, so they are bounded, not wrapped.

Larger instances, checked by hand, pass too: `RuleLifecycle` with one rule, a cooldown of 4 and
the clock to 8, `SignIn` with four tokens (1.9 million states) and,
without row locks, its other two properties (1.6 million), `Supervisor` with
`RestartLimit = 2` (1 million states).

### Assumptions and what the properties exempt

`TokenAcceptedOnce` is a result about a database that locks rows. The service's default URL is
SQLite's (`config.py`), whose dialect drops FOR UPDATE; `docs/accounts.md:48` reserves SQLite
for development and tests. `StoredIsUsable` and `SignedOutStays` do not depend on it.

Killing a process takes effect at once: `kill()` in `_stop_runtime` (`desktop/app.py:1284`) is
not awaited, and `wait(timeout=2)` after the supervisor's kill (`backend.py:237`) could raise in
principle. A desktop that dies takes its runtime along, as the end of the machine or of the
pilot's session does; a runtime that outlives a crash of the window alone is not modelled.

Left out of actions that are otherwise whole: a `capture.stop()` that raises
(`input/controller.py:85`, `:107`), the cap of 100,000 samples of an exercise
(`coach/exercises/base.py:11`), and the eviction from `active_event_ids` above 1,000 events.

Some properties exempt what the code is known to do, so that they cover half of a hazard only:
`lost_ends` (an aircraft change in mid-turn and a refused control leave the backend's turn
open), `raced` (a stop against a relaunch), `Undisturbed` of Voice (the late frames of a cut-short
answer), `Alone` (a restore or a sign-in under way undoes a sign-out), `cut` (above), the
properties of `Gateway` (the main loop without tool calls), `AnnouncementsSpaced` (an
announcement silenced by the cooldown of one nobody heard), `DebriefFacts` (a pause counts for
the zone before it), `ReportsAgreeWithRules` (Master Arm in combat mode, and the rule that warns
of a hook commanded down, which the takeoff gate does not ask about). The notes of the hazards in
`PROJECT.json` say which half is covered; section 4 shows most of the others.

The bounded inputs (time, presses, writes, events, requests) run out or the connection is
over in every instance but Coach's, so the other configurations say `CHECK_DEADLOCK FALSE`;
that nobody is stuck is stated by the liveness properties instead.

Each run checks what is hard to get right. Properties that the modules define and no run
checks hold on the same instances: each `TypeOK`, `EventIdsFresh`, `IssuesCounted` and
`IssuesHaveEvents` (all proved), `AudioStaysInSession`, `RegistryCurrent`,
`ClosedIsSilent`, `NothingRefused` (proved), TelemetryStream's `SlotsAreSeparate`, `AskedOnce`,
`ProgressKept`, `PermissionRespected`, `StatusTruth`, `DebriefKept`.

### Fairness

* PttLink: weak fairness of the joystick's polling, of the controller's coroutines, of
  a scheduled chunk, of the writer and of the backend: a thread polls on its interval,
  an event loop runs what is ready. Neither the pilot, nor the microphone, nor the
  network is fair: a capture may stay silent and a connection may break at any time or
  never.
* Gateway: strong fairness of every coroutine and of every response task. `Quiet`
  disables a coroutine again and again while others run between their awaits; the
  loop's ready queue is first come, first served, so a coroutine that is ready
  infinitely often does run. A turn ends or times out (`_wait_for_turn` in
  `voice.py`).
* TelemetryStream: weak fairness of the 15 Hz flush, the writer, the gateway, the
  reconnect loop and `_set_disconnected`. DCS-BIOS owes nothing, which is why
  `CockpitIsMirrored` speaks of controls whose frame is complete.

* FlightRecords: weak fairness of each query and of what waits for it, of the
  refreshes of the main loop (deltas come at 15 Hz while telemetry is ready), of the
  cleanup and of its task; strong fairness of the main loop's queries: a storage that
  is asked again and again answers in the end. Nothing obliges a tool call to run.

* Supervisor: weak fairness of each thread: the operating system runs a thread whose wait
  is over or timed out. Backend processes owe nothing: they may stay silent forever.
* Voice: weak fairness of each call's steps, its time limits among them, of the gateway's
  close, and of a runner that was told to stop, which `close` cancels after 5 s. The
  providers owe nothing, so an answer may never come.

RuleLifecycle, CockpitContext, Hornet, Coach and SignIn state no liveness: they are driven
by telemetry, the pilot and the network, which owe nothing.

## 4. Where code and documentation disagree

Each of these configurations checks one sentence of the documentation or of a docstring,
and TLC finds an execution of the code that breaks it. They are not among the standing
runs; `tlc -config X.cfg M` with the module named reproduces them. Where an invariant is
named, X is the run's configuration with that invariant in place of its properties.

| Configuration, module | What happens | What is said |
|---|---|---|
| `RuleLifecycleSummary`, MCRuleLifecycle | after 101 activations of one rule (`habits/models.py:57`) the flight's summary is rejected in every update, the cleanup's included, which therefore skips ending the flight and closing the pipeline | `docs/architecture.md:288-289` |
| `PttReset`, MCPttLink | an aircraft change in mid-turn (`input/controller.py:104`) leaves the backend's turn open after the key is released | `docs/protocol.md:251-252` |
| `GatewayPtt`, MCGateway | `interrupt_response` (`app.py:502`) forgets the announcement the other coroutine started while it waited, which talks on over the pilot | `docs/protocol.md:311-312` |
| `GatewayResolved`, MCGateway | a tool call handles an event's end before the main loop handles its beginning (`app.py:818`); the resolved event is announced | `docs/architecture.md:266-267` |
| `BiosSlots`, MCBiosClient | a name exported in a malformed frame is detected a frame later and given up again in the one after, because `_update_aircraft` (`dcs/bios_client.py:213`) clears the address space and re-applies only the last frame: two spurious epochs | `docs/dcs-bios.md:73-77` |
| `CockpitContext` with `StaleIsUnknown`, MCCockpitContext | a derived item whose values are unusable is INCOMPLETE (`checklists/engine.py:345`), so that the report is BLOCKED | `docs/ground-operations.md`: "Stale and unavailable values remain unknown" |
| `Coach` with `PausesAreNotCounted`, MCCoach | the whole gap of a pause counts for the zone before it (`coach/exercises/formation.py:166-168`) | `docs/spatial-coaching-integration.md:117-118` |
| `Hornet` with `AdapterIsOfThisCockpit`, MCHornet | the adapter's takeoff trim, gear candidate (`aircraft/fa18c.py:51-54`) and previous position (`generic.py`) outlive the cockpit | `docs/architecture.md:220-223`, `docs/protocol.md:109-110` |
| `SignInLogout`, MCSignIn | sign-out revokes the token the desktop has in memory while the runtime has rotated the stored one (`desktop/app.py:1384-1391`), which stays valid | `docs/accounts.md:28-29` |
| `SignInSqlite`, MCSignIn | without row locks (SQLite, the default) two requests that present one token at once are both granted (`auth.py:121`) | `docs/accounts.md:22-24` |
| `SupervisorClose`, MCSupervisor | closing the window while `start` still probes, or a monitor relaunches (`backend.py:201-216`), leaves a process running | `docs/deployment-architecture.md:110-112` |
| `Voice` with `OnePipeline`, MCVoice | a discard overlapping a call's own close forgets the worker a waiting call has launched meanwhile (`voice.py:277-295`); the next call launches a second | `voice.py:149`: "One persistent Pipecat conversation pipeline per authenticated session" |

Also met while modelling, without a configuration of their own:

* The takeoff gate wants Master Arm SAFE even where the rule warns that it is SAFE in combat
  mode; takeoff readiness may be READY while weight on wheels is unusable; a landing is
  missed when weight on wheels is unusable at touchdown. `docs/ground-operations.md:39-41`
  lists a flight-controls confirmation that the code no longer has.
* The coach's reset keeps permissions and the last debrief, and `session.end` does not reset
  it (`docs/spatial-coaching-integration.md:90-91`).
* A restore that fails after a concurrent sign-in deletes the fresh credential; any transient
  failure of a refresh that is an AuthError empties the vault. A dead token stays in it after a
  kill in mid-rotation, after an exception that is no AuthError (an answer that breaks off), and
  when the keyring fails to store or delete; the next presentation is refused and empties it.
* A monitor whose relaunch fails forgets itself, and a quick restart that clears `_stopping`
  leaves two monitors that both relaunch.
* `detect_joystick_button` (`input/ptt.py`) never updates its baseline: a button held at the
  start, released and pressed again is not detected. `stop` joins the poller for 1 s only.
* An utterance without recognized speech gets no answer from the model and waits for the turn's
  time limit, which closes the pipeline with its conversation. A late end frame of an
  interrupted answer may end the next call's turn early. `_runner_finished` does not ask which
  runner stopped, so that the end of a forgotten one fails another's turn. A start cancelled
  half-way leaves a worker that the next call takes for started.

## 5. Proofs

Eight modules hold proofs; each theorem holds for every value of the constants under the
`...Assumption` of its module; two sets of them have a hypothesis besides, `RowLocks` and
`Bystanders` below.

For every set of rules, of aircraft and every choice of delays:

* `TypeCorrect`, `IssuesAlwaysHaveEvents`, `AnnouncementsAlwaysWithdrawn`,
  `IssuesAlwaysCounted`, `ActivationsAlwaysConserved`: type and safety of RuleLifecycle;
* `VerdictsAlwaysSettle`, `TransitionsAlwaysSustained`, `AnnouncementsAlwaysSpaced`: the
  timing contract of RuleHistory;
* `Implements`: RuleLifecycle implements EventStream;
* `StreamInvariance`: what EventStream promises its consumers.

For every size of queue, reserve and wire, every limit of an utterance and any number of
presses, aircraft changes and sessions:

* `LinkTyped`, `FramesAlwaysInOrder`, `UtterancesAlwaysWhole`, `AudioAlwaysStays`: the safety
  of PttLink.

For every finite set of rules, any number of events and replies, and any tool calls, as long
as none of them publishes an event (`Bystanders`):

* `PttAlwaysSilences`, `ResolvedAlwaysSilent`, `SlotsAlwaysSeparate`, `ResponsesAlwaysHeld`,
  `TurnsAlwaysKept`: all that run `Gateway` checks; `ClosedAlwaysSilent`.

`Bystanders` is a hypothesis on the execution, not on the constants: refreshes of tool calls
may interleave everywhere, and only executions in which one of them finds an event to
handle beside the main loop are left out. Those do break the properties (`GatewayPtt` and
`GatewayResolved` of section 4).

For every set of tool calls, every limit of the deque and every number of flights and
sessions:

* `RecordsTyped`, `NoSummaryLost`, `SummariesInOrder`: the safety of FlightRecords.

For every set of pictures, every dwell time, every checklist:

* `PhaseAlwaysFollows`, `PhaseAlwaysHeld`, `ProgressAlwaysOfThisCockpit`,
  `ReadyIsAlwaysVerified`: all that run `CockpitContext` checks.

For every set of images and phases, every dwell and health timeout:

* `DerivedAlwaysHeld` (from `GearIsHeld` and `SpeedsAreAlwaysLive`) and `ReportsAlwaysAgree`:
  all that run `Hornet` checks.

For every set of exercises and pictures, all holds, cooldowns and staleness limits and any
room for feedback:

* `FeedbackAlwaysHeldAndSpaced` and `DebriefsAlwaysFactual`: all that run `Coach` checks;
* `CoachTyped`, `PermissionAlwaysRespected`, `StatusAlwaysTrue` and `DebriefsAlwaysKept`, which
  state what no run does: no exercise without its permissions, no status of an exercise that has
  ended as running, no exercise that is stopped or replaced without its debrief.

For every number of tokens and requests: `TokensAcceptedOnce` (under `RowLocks`),
`StoredAlwaysUsable` and `SignedOutAlwaysStays` (on any database), all that run `SignIn`
checks. For every restart limit, every number
of threads and of calls: `RestartsAlwaysBounded` and `NoneEverForgotten` of Supervisor.

For every set of calls, of `respond` and of `announce`, however often they are interrupted,
time out, fail to start or are closed under: `VoiceTyped`, `TurnsAlwaysEndInTime` and
`AnswersAlwaysWhole`, the safety that run `Voice` checks.

For every finite set of controls, every definition of the aircraft's modules, every size of
chunks, deltas, queue and wire, every `MaxTransitions` and any number of writes, refreshes and
sessions:

* `NewestSurvives` and `EveryTransition`: the safety that run `TelemetryStream` checks;
* `TelemetryTyped`, `EverythingAccepted` (`NothingRefused`) and `SlotsSeparate`;
* `QuietIsMirrored`: once nothing is under way or pending, `Mirrored` holds. This is what
  `CockpitIsMirrored` promises, without the part that needs fairness: that the messages get
  through.

The inductive invariant `IInv` of RuleLifecycle is the conjunction of the type invariant, the
agreement of engine and event manager (`IssuesHaveEvents`), what is announced and
not withdrawn (`AnnouncementsWithdrawn`), freshness (`EventIdsFresh`), the agreement
of engine and statistics (`IssuesCounted`), conservation, and `CountsCovered`. None
of the invariants is inductive alone. `AnnouncementsWithdrawn` needs
`IssuesHaveEvents` to know that the event a pass closes is the published one, and
`EventIdsFresh` to know that a new event is not already withdrawn;
`ActivationsConserved` needs `CountsCovered`, since a summary leaves out the counts
of uncovered rules, and `IssuesCounted` needs the order of `observe` and `evaluate`
in the pass. The step is split in `PassCases` (what one pass does to one rule),
`UpdateIInv` (a pass that does not raise), `RaisesIInv` (one that does) and
`QuietIInv` (clock, chatter level, stuttering). `Implements` uses `Invariance` in
its step: a pass is `Deliver(closing, raising, publish)` of the stream because the
events it closes are open and no rule it raises has one left open.

`IInv` of FlightRecords adds to the three: the deque is increasing and as late as its
room allows (`PendingOrdered`), so that the summary a full deque forgets is one that
`Overflown` excuses; whatever precedes a summary in a coroutine's copy is stored,
earlier in the copy or overflown (`LoopsOrdered`), which holds when the copy is taken
because of `SummariesKept`; and the same of the table (`StoredClosed`), so that a
summary inserted behind a later one must have overflown. The proof states each of these
as a fact about sequences (`Deque`, `Loop`, `Table`) and shows what appending,
acknowledging, going on and inserting do to it; the steps of the state only apply these
lemmas. `Inner` and `Outer` split the invariant into what the summaries go through and
what only has a type.

`DetectorInv` of CockpitContext says that the detector's candidate is the phase inferred
last and that it notes since when exactly while it differs from the phase taken; both
properties of the phase follow from that one correspondence, `PhaseFollows` as a part of the
invariant and `PhaseHeld` from the step that takes a phase. `ReadyItems` reduces a READY
report to its items, and `ReadyGround` the ground phase to the report.

`GearInv` and `ClockInv` of Hornet tie the adapter's timer and clock to the histories.
`ReportsAlwaysAgree` needs no history: it is the lemma that a report that is READY has all its
items COMPLETE (`ReportReady`), and rule by rule that no condition can then hold
(`ReadyUnwarned`, `CleanUnwarned`).

`TokenInv` of SignIn is the argument of the row lock: an exchange under way holds a live token
that no other exchange under way holds (`LockInv`), what is live has not been exchanged
(`LiveInv`), so what is issued has a parent of its own (`OnceInv`). `LockInv` and `OnceInv` are
conditional on `RowLocks`, the rest is not. `DeviceInv` adds that the runtime works only while it
runs, and does not run while the pilot signs out.

`LaunchInv` of Supervisor counts: what has been launched, the threads that are about to launch
and the restarts a monitor still has are together at most (limit + 1) for each call that
has begun. It needs that a monitor's relaunch and the clearing of the count are
paid for by the call that made it, not that there is only one monitor.

`TimingInv` of RuleHistory relates each rule's timers to what its evaluations have seen. A
candidate on its way to a transition has been seen on that side since it began and not yet for
its delay; a rule without candidate is where its latest verdict wants it (`DebounceInv`). The
engine's last notification is at least as late as the announcement (`CooldownInv`), and
engine and statistics look at the same aircraft (`SameAircraft`). The three theorems of the
timing contract read the observation off the timer.

`VaultInv` of SignIn follows the tokens: each worker has a request of its own (`CallersInv`),
every token was granted to one request (`PairsInv`), a token not yet stored is live and known
to nobody else (`UnstoredInv`), a token presented from the vault is replaced or removed by
whoever presented it unless its exchange was cut short (`PresentedInv`), and so the one in the
vault is live, cut, or still some request's (`KeptInv`). Whoever holds that request has not
stored an answer yet (`Exchangers`), which turns `KeptInv` into `StoredIsUsable`. `OwnershipInv` of Supervisor says, as long as the two
races of section 4 (`raced`) have not happened, that calls and relaunches exclude each other
(`ExclusionInv`), that what is alive is the manager's own process and none is when another is
launched (`OwnedInv`), and that nothing is under way after `close` (`ClosedInv`).

`Inv` of PttLink looks at the queue and the wire as one pipe (`Pipe`), because a frame moves
between them without changing its place. `Open`, the turn the backend has open, and the
frames of the pipe in their order determine every turn it will open and close: no audio of the
pipe falls outside a turn, and a start falls within one only after a press whose end was lost
(`OrderInv`); the chunks in the buffer and those to come into the same turn follow each other
(`WholeInv`); at the end of the pipe a turn is open as long as the live capture that began it
runs, and otherwise none unless an end was lost (`EndInv`). That half needs the other
(`Quiet`: who holds the lock, which press is under way, whether the microphone may still call
back) to know that what is enqueued next belongs behind everything in the pipe.

`Inv` of Gateway rests on where the main loop is (`PlaceInv`): it is inside an interruption
whenever `response_task` is cancelled, and `response_task` is None whenever it continues after
one. An event is pending, announced by one task, or neither (`AnnouncedOnce`, `PendingInv`),
because a batch has each event once and what it raises is newer than all that was announced
(`StreamInv`). Hence `response_event_id` names the event of the announcement that is not over
(`IdInv`), which the end of that event needs to find it, and whatever speaks is `response_task`
(`SpeechInv`). The proof has one lemma for a step that only lets responses fade (`Fading`,
`GoesOn`), one for an interruption (`InterruptInv`) and one for a start (`StartInv`); the
actions apply them.

`Inv` of Voice follows one undisturbed answer from its request to its last frame. Exactly those
who have called and not returned are in the lock's queue, and only its first is past the lock
(`LockInv`); so a turn under way belongs to the first, and any other coroutine that comes upon
the turn's variables either holds the lock or ends the turn. While the answer is undisturbed
(`AnswerInv`) its worker, if it still runs, is the only one, and the request is still in the
inbox (`Queued`), or the observer has seen the first k frames of the script and precisely the
others are on their way (`Played`): what it noted (`said`, `used_tools`, `error`, `done`) is a
function of those k frames. `ScriptShape` says that the end of a script, and nothing before it,
is an error or an end frame that no pass of tool calls precedes, which makes `done` come with
the last frame and not sooner.

`CoachInv` of Coach ties the active exercise to its samples (`ExerciseInv`). They are taken at
increasing times, none to come (`SamplesInOrder`), so that an instant is in the zone of one sample
and the seconds added at the next are just the instants between the two. The condition held is
that of every sample since it began (`ConditionSteady`), which is what a hold measured by
two timestamps needs to speak of samples; what the exercise remembers of its last speech is the
last feedback (`SpeechRemembered`), also when the deque has forgotten earlier ones; the warning
stands exactly while the last sample shows one (`WarningStands`), so that an overshoot is the
first sample of its run; and no segment begins after the last sample (`SegmentsStarted`), so that
the new sample falls into the last segment alone. `ExerciseSampled` puts together what
one sample does to speech, zones and segments (`SpeechSampled`, `ZonesSampled`, `SegmentsSampled`).
`NothingAssumption` says that Python's None is neither an exercise nor a debrief.

The invariant of TelemetryStream speaks, like PttLink's, of one pipe: wire, queue and initial
messages. Three parts build on each other. `Base` relates the client's own variables: what is
decoded of a clean control is what its bytes show (`Known`), the publisher's epoch is the last
one begun and of the aircraft flown (`PublisherOK`), and no control is pending twice
(`Orderly`). `StreamOK` says that every epoch has an origin, the aircraft and values it began
with, of which the variables keep no copy, so that it is quantified; every message of the pipe
says what its number in the epoch of that origin must say (`Legit`); the messages follow each
other without a gap except that a new epoch begins at 0 (`Sound`); and what the ingress has
assembled is what the origin's first messages hold (`Assembled`). None of this is inductive for
the next message alone: that it is accepted comes from its place behind all earlier ones.
`LatestOK` adds, for every decoded control, that its path (what the gateway holds, what is in
the pipe, what is pending) is not empty and ends with its decoded value. `LatestSurvives` itself
is not inductive: it says nothing of a control that a frame under way has written, and when the
frame writes the old value back the client does not tell it again. A history variable with the
origins let TLC check the invariant first. `PathStep` is what both properties need:
in an epoch that goes on, a step either leaves a path alone, moves it, drops its first value
when the gateway takes the second, or requeues a set of changes at its end
(`Requeued`). `InOrder` and `Selected` are defined by position rather than with the library's
`SetToSortSeq` and `SelectSeq`, which the provers cannot expand.

Leaves cite `BY ONLY` what they need where the context makes the solver slow, and `SMTT(30)`
where they take it more than about a second; all others have a wide margin within its default
time.

Only model-checked: the order of Gateway's events between two coroutines, and all liveness
properties, which are out of the prover's reach.

## 6. Not modelled, and why

* Tool schemas, knowledge texts, greetings, and `validate_tool_result` of `tools.py`, which
  only the tests call: stateless computation on values. The tools that change state are in
  CockpitContext and Coach; the snapshots they take are in Hornet.
* The adapter's fields that neither a rule nor a report reads; aircraft without an adapter of
  their own.
* ACTION items and applicability conditions of checklists, which the shipped one does not use.
* Passwords, token signatures and expiry, memories, preferences and queries of accounts: each a
  single statement.
* Discovery and detection of input devices, the terminal's push-to-talk, audio devices,
  playback: operating-system I/O.
* Providers and start-up of models; the supervisor sees only whether the backend answers.
* Settings of the desktop, file installation, widgets, packaging, the website. Settings that
  change the backend's mode: *Test Connection* updates the configuration in place, so that a
  later *Save* leaves a local backend running (`docs/deployment-architecture.md:51-53`).
* The exporters in Lua and their receivers: datagrams without a retained protocol state.
* Limits of the telemetry ingress (4096 controls, payload size) and ageing of values at the
  gateway: the installed modules stay below the limits, and only chunking is exercised.

What could come next: response tasks of Gateway composed with Voice, whose calls are here
started and interrupted by an arbitrary gateway.

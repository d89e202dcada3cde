------------------------------- MODULE PttLink -------------------------------
(***************************************************************************)
(* Push-to-talk from the pilot's key to the backend's utterance:           *)
(*                                                                         *)
(*   - the input devices     a keyboard hook or a thread that polls a      *)
(*                           joystick, which report edges;                 *)
(*   - PttSessionController  press, release and reset as coroutines that   *)
(*                           take turns under one FIFO asyncio lock;       *)
(*   - CloudSessionConnection  the bounded outbound queue with capacity    *)
(*                           reserved for controls, its writer, sessions   *)
(*                           that break and are set up again;              *)
(*   - PortAudioCapture      a callback thread that schedules chunks on    *)
(*                           the event loop;                               *)
(*   - RealtimeSession       the backend's turn and its audio buffer;      *)
(*   - run_client_runtime    which schedules the coroutines, and stops all *)
(*                           of this.                                      *)
(*                                                                         *)
(* A chunk is the press it was captured in and its ordinal.  A connection  *)
(* that breaks loses what is queued and what is on the wire; the backend   *)
(* serves every connection with a session object of its own.               *)
(*                                                                         *)
(* A definition named Mutant... is the definition after it with a          *)
(* plausible bug; nothing uses it.                                         *)
(***************************************************************************)
EXTENDS Naturals, Sequences, SequencesExt, FiniteSets

CONSTANTS
    QueueSize,        \* _audio_queue_limit: what stream messages may fill
    Reserve,          \* capacity above it, 16 in the code
    WireSize,         \* bound on the frames the transport buffers
    MaxUtterance,     \* chunks that fit max_utterance_seconds
    MaxPresses,       \* bound on presses of the key
    MaxChunks,        \* bound on the chunks captured during one press
    MaxResets,        \* bound on aircraft changes
    MaxSessions       \* bound on session_generation

ASSUME PttLinkAssumption ==
    /\ QueueSize \in Nat \ {0}
    /\ {Reserve, WireSize, MaxUtterance, MaxPresses, MaxChunks, MaxResets,
        MaxSessions} \subseteq Nat

VARIABLES
    device,             \* the input device that is configured
    held,               \* its button: "up", "down", or "gone" with the joystick
    pressed,            \* the device's _pressed: it has reported a press
    presses,            \* presses so far, the id of the latest one
    resets,             \* aircraft changes so far
    runtime,            \* run_client_runtime: "on", in its finally, or "off"
    tasks,              \* coroutines in the lock's queue, the holder first
    step,               \* the await the lock's holder is suspended in
    active,             \* controller._active
    session_generation, \* controller._session_generation, 0 for None
    mic,                \* the capture: its press and transmit's generation
    callbacks,          \* chunks scheduled by call_soon_threadsafe
    ready,              \* connection.ready
    handshaking,        \* run_once is in _handshake
    generation,         \* connection.session_generation
    outbound,           \* connection._outbound
    wire,               \* frames sent and not received yet
    ptt_active,         \* backend: session.ptt_active
    audio_buffer,       \* backend: session.audio_buffer
    overflowed,         \* backend: session.utterance_overflowed
    utterances,         \* utterances completed so far
    rejected,           \* frames the backend answered with an error
    lost_ends           \* presses that began a turn and queued no ptt.end

pilotVars  == <<device, held, pressed, presses, resets, runtime>>
clientVars == <<tasks, step, active, session_generation, mic, callbacks>>
sessionVars == <<ready, handshaking, generation>>
linkVars   == <<sessionVars, outbound, wire>>
serverVars == <<ptt_active, audio_buffer, overflowed, utterances, rejected>>
vars == <<pilotVars, clientVars, linkVars, serverVars, lost_ends>>

Presses == 1..MaxPresses
Farewell == [kind |-> "session.end"]
Chunks == [press: Presses, chunk: 1..MaxChunks, generation: 1..MaxSessions]
Audio(c) == [kind |-> "audio", chunk |-> c]
Control(kind, press) == [kind |-> kind, press |-> press]
Frames == [kind: {"audio"}, chunk: Chunks]
            \cup [kind: {"start", "end", "interrupt"}, press: Presses]
            \cup [kind: {"telemetry"}] \cup {Farewell}

MicOff == [press |-> 0, generation |-> 0, captured |-> 0]

\* The queue never exceeds its size and reserve, nor an utterance its limit.
TypeOK ==
    /\ device \in {"keyboard", "joystick"}
    /\ held \in {"up", "down", "gone"}
    /\ pressed \in BOOLEAN
    /\ presses \in 0..MaxPresses
    /\ resets \in 0..MaxResets
    /\ runtime \in {"on", "stopping", "off"}
    /\ tasks \in Seq([kind: {"press", "release", "reset", "quit"}, press: 0..MaxPresses])
    /\ step \in {"ready", "interrupt", "open", "close", "drop", "silence"}
    /\ active \in BOOLEAN
    /\ session_generation \in 0..MaxSessions
    /\ mic \in [press: 0..MaxPresses, generation: 0..MaxSessions,
                captured: 0..MaxChunks]
    /\ callbacks \in Seq(Chunks)
    /\ ready \in BOOLEAN /\ handshaking \in BOOLEAN /\ ~(ready /\ handshaking)
    /\ generation \in 0..MaxSessions
    /\ outbound \in Seq(Frames) /\ Len(outbound) <= QueueSize + Reserve
    /\ wire \in Seq(Frames) /\ Len(wire) <= WireSize
    /\ ptt_active \in BOOLEAN
    /\ audio_buffer \in Seq(Chunks) /\ Len(audio_buffer) <= MaxUtterance
    /\ overflowed \in BOOLEAN
    /\ utterances \subseteq Seq(Chunks)
    /\ rejected \subseteq Frames
    /\ lost_ends \subseteq Presses

Init ==
    /\ device \in {"keyboard", "joystick"}
    /\ held = "up" /\ pressed = FALSE /\ presses = 0 /\ resets = 0 /\ runtime = "on"
    /\ tasks = <<>> /\ step = "ready"
    /\ active = FALSE /\ session_generation = 0
    /\ mic = MicOff /\ callbacks = <<>>
    /\ ready = FALSE /\ handshaking = FALSE /\ generation = 0
    /\ outbound = <<>> /\ wire = <<>>
    /\ ptt_active = FALSE /\ audio_buffer = <<>> /\ overflowed = FALSE
    /\ utterances = {} /\ rejected = {} /\ lost_ends = {}

------------------------------------------------------------------------------
(* The pilot and the input devices.  Every edge a device reports and every *)
(* aircraft change schedules a coroutine.                                  *)

Task(kind, press) == [kind |-> kind, press |-> press]

ReportPress ==
    /\ presses < MaxPresses
    /\ pressed' = TRUE
    /\ presses' = presses + 1
    /\ tasks' = Append(tasks, Task("press", presses'))

ReportRelease ==
    /\ pressed' = FALSE
    /\ tasks' = Append(tasks, Task("release", presses))
    /\ UNCHANGED presses

DeviceStep(d) ==
    /\ device = d
    /\ runtime = "on"
    /\ UNCHANGED <<device, resets, runtime, step, active, session_generation, mic,
                   callbacks, linkVars, serverVars, lost_ends>>

\* A key that goes down or repeats reports a press with the right modifiers
\* only; letting it go ends the press with whatever modifiers.
KeyDown ==
    /\ DeviceStep("keyboard")
    /\ held' = "down"
    /\ \/ ~pressed /\ ReportPress
       \/ held = "up" /\ UNCHANGED <<pressed, presses, tasks>>

KeyUp ==
    /\ DeviceStep("keyboard")
    /\ held = "down"
    /\ held' = "up"
    /\ IF pressed THEN ReportRelease ELSE UNCHANGED <<pressed, presses, tasks>>

\* The joystick's button moves, or it is plugged out or in, between two polls.
Move ==
    /\ DeviceStep("joystick")
    /\ held' \in {"up", "down", "gone"}
    /\ UNCHANGED <<pressed, presses, tasks>>

\* A joystick that is gone is one that is not pressed.
Poll ==
    /\ DeviceStep("joystick")
    /\ pressed # (held = "down")
    /\ IF pressed THEN ReportRelease ELSE ReportPress
    /\ UNCHANGED held

AircraftChanged ==
    /\ runtime # "off"
    /\ resets < MaxResets
    /\ resets' = resets + 1
    /\ tasks' = Append(tasks, Task("reset", presses))
    /\ UNCHANGED <<device, held, pressed, presses, runtime, step, active,
                   session_generation, mic, callbacks, linkVars, serverVars, lost_ends>>

------------------------------------------------------------------------------
(* CloudSessionConnection._enqueue.                                        *)

Accepts(kind, queue) ==
    /\ ready
    /\ kind \in {"audio", "telemetry"} => Len(queue) < QueueSize
    /\ Len(queue) < QueueSize + Reserve

MutantEnqueueAll(frame, queue) == Append(queue, frame)
Enqueue(frame, queue) ==
    IF Accepts(frame.kind, queue) THEN Append(queue, frame) ELSE queue

\* transmit: only into the session the capture was opened in.
MutantMayTransmit(c) == TRUE
MayTransmit(c) == generation = c.generation

------------------------------------------------------------------------------
(* PttSessionController: the lock's holder runs from await to await.       *)

Running(kind, at) == tasks # <<>> /\ Head(tasks).kind = kind /\ step = at

Releasing(at) == Running("release", at) \/ Running("quit", at)

\* The coroutine returns and the lock passes to the next in line.
Return == tasks' = Tail(tasks) /\ step' = "ready"

PressIgnored ==
    /\ Running("press", "ready")
    /\ active \/ ~ready
    /\ Return
    /\ UNCHANGED <<pilotVars, active, session_generation, mic, callbacks,
                   linkVars, serverVars, lost_ends>>

PressBegins ==
    /\ Running("press", "ready")
    /\ ~active /\ ready
    /\ step' = "interrupt"      \* await playback.interrupt()
    /\ UNCHANGED <<pilotVars, tasks, active, session_generation, mic,
                   callbacks, linkVars, serverVars, lost_ends>>

\* assistant.interrupt may be refused unnoticed; ptt.start may not.
PressSends ==
    LET press == Head(tasks).press
        queue == Enqueue(Control("interrupt", press), outbound)
    IN  /\ Running("press", "interrupt")
        /\ outbound' = Enqueue(Control("start", press), queue)
        /\ IF Accepts("start", queue)
           THEN /\ step' = "open"       \* await capture.start(transmit)
                /\ mic' = [press |-> press, generation |-> generation,
                           captured |-> 0]
                /\ UNCHANGED tasks
           ELSE Return /\ UNCHANGED mic
        /\ UNCHANGED <<pilotVars, active, session_generation, callbacks,
                       sessionVars, wire, serverVars, lost_ends>>

PressOpens ==
    /\ Running("press", "open")
    /\ active' = TRUE
    /\ session_generation' = mic.generation
    /\ Return
    /\ UNCHANGED <<pilotVars, mic, callbacks, linkVars, serverVars, lost_ends>>

\* A ptt.end the connection refuses leaves the turn open at the backend.
Unended(told) ==
    lost_ends' = IF told \/ generation # mic.generation THEN lost_ends
                 ELSE lost_ends \cup {mic.press}

MutantPressFailsQuietly ==
    /\ Running("press", "open")
    /\ mic.captured = 0
    /\ mic' = MicOff
    /\ Return
    /\ UNCHANGED <<pilotVars, active, session_generation, callbacks,
                   linkVars, serverVars, lost_ends>>

\* The microphone cannot be opened: the turn just begun is ended.
PressFails ==
    /\ Running("press", "open")
    /\ mic.captured = 0
    /\ outbound' = Enqueue(Control("end", mic.press), outbound)
    /\ Unended(Accepts("end", outbound))
    /\ mic' = MicOff
    /\ Return
    /\ UNCHANGED <<pilotVars, active, session_generation, callbacks,
                   sessionVars, wire, serverVars>>

ReleaseIgnored ==
    /\ Releasing("ready")
    /\ ~active
    /\ Return
    /\ UNCHANGED <<pilotVars, active, session_generation, mic, callbacks,
                   linkVars, serverVars, lost_ends>>

ReleaseBegins ==
    /\ Releasing("ready")
    /\ active
    /\ step' = "close"          \* await capture.stop()
    /\ UNCHANGED <<pilotVars, tasks, active, session_generation, mic,
                   callbacks, linkVars, serverVars, lost_ends>>

\* capture.stop() yields once after the stream has stopped, so that chunks
\* already scheduled go first.  A stream whose stop raises is not modelled.
MutantCaptureStopped == mic' = MicOff
CaptureStopped == callbacks = <<>> /\ mic' = MicOff

ReleaseEnds ==
    LET told == generation = session_generation /\ Accepts("end", outbound)
    IN  /\ Releasing("close")
        /\ CaptureStopped
        /\ outbound' = IF told THEN Append(outbound, Control("end", mic.press))
                       ELSE outbound
        /\ Unended(told)
        /\ active' = FALSE
        /\ session_generation' = 0
        /\ Return
        /\ UNCHANGED <<pilotVars, callbacks, sessionVars, wire,
                       serverVars>>

\* An aircraft change drops the turn without telling the backend.
MutantResetKeepsCapture ==
    /\ Running("reset", "ready")
    /\ active' = FALSE
    /\ session_generation' = 0
    /\ step' = "silence"
    /\ UNCHANGED <<pilotVars, tasks, mic, callbacks, linkVars, serverVars,
                   lost_ends>>

ResetBegins ==
    /\ Running("reset", "ready")
    /\ step' = IF active THEN "drop" ELSE "silence"
    /\ session_generation' = IF active THEN session_generation ELSE 0
    /\ UNCHANGED <<pilotVars, tasks, active, mic, callbacks, linkVars,
                   serverVars, lost_ends>>

ResetDrops ==
    /\ Running("reset", "drop")
    /\ CaptureStopped
    /\ Unended(FALSE)
    /\ active' = FALSE
    /\ session_generation' = 0
    /\ step' = "silence"        \* await playback.interrupt()
    /\ UNCHANGED <<pilotVars, tasks, callbacks, linkVars, serverVars>>

ResetEnds ==
    /\ Running("reset", "silence")
    /\ Return
    /\ UNCHANGED <<pilotVars, active, session_generation, mic, callbacks,
                   linkVars, serverVars, lost_ends>>

------------------------------------------------------------------------------
(* The capture's callback thread and the chunk's turn on the event loop.   *)

Capture ==
    /\ mic # MicOff
    /\ mic.captured < MaxChunks
    /\ mic' = [mic EXCEPT !.captured = @ + 1]
    /\ callbacks' = Append(callbacks, [press |-> mic.press,
                                       chunk |-> mic.captured + 1,
                                       generation |-> mic.generation])
    /\ UNCHANGED <<pilotVars, tasks, step, active, session_generation,
                   linkVars, serverVars, lost_ends>>

Transmit ==
    /\ callbacks # <<>>
    /\ outbound' = IF MayTransmit(Head(callbacks))
                   THEN Enqueue(Audio(Head(callbacks)), outbound) ELSE outbound
    /\ callbacks' = Tail(callbacks)
    /\ UNCHANGED <<pilotVars, tasks, step, active, session_generation, mic,
                   sessionVars, wire, serverVars, lost_ends>>

------------------------------------------------------------------------------
(* The connection.                                                         *)

\* Telemetry and spatial observations share the queue with the audio.
Publish ==
    /\ Accepts("telemetry", outbound)
    /\ outbound' = Append(outbound, [kind |-> "telemetry"])
    /\ UNCHANGED <<pilotVars, clientVars, sessionVars, wire, serverVars,
                   lost_ends>>

Write ==
    /\ ready
    /\ outbound # <<>>
    /\ Len(wire) < WireSize
    /\ wire' = Append(wire, Head(outbound))
    /\ outbound' = Tail(outbound)
    /\ UNCHANGED <<pilotVars, clientVars, sessionVars, serverVars,
                   lost_ends>>

\* _set_disconnected drains the queue; the backend's session object is gone.
Disconnect ==
    /\ ready
    /\ ready' = FALSE
    /\ outbound' = <<>> /\ wire' = <<>>
    /\ ptt_active' = FALSE /\ audio_buffer' = <<>> /\ overflowed' = FALSE
    /\ UNCHANGED <<pilotVars, clientVars, handshaking, generation, utterances, rejected,
                   lost_ends>>

\* run opens a transport, unless it is told to stop.
Connect ==
    /\ runtime = "on"
    /\ ~ready /\ ~handshaking
    /\ generation < MaxSessions
    /\ handshaking' = TRUE
    /\ UNCHANGED <<pilotVars, clientVars, ready, generation, outbound, wire, serverVars,
                   lost_ends>>

\* The handshake up to the backend's answer to session.start; it times out, is
\* refused or is cancelled, or makes a session.
Handshake ==
    /\ handshaking
    /\ handshaking' = FALSE
    /\ \/ generation' = generation + 1 /\ ready' = TRUE
       \/ UNCHANGED <<generation, ready>>
    /\ UNCHANGED <<pilotVars, clientVars, outbound, wire, serverVars, lost_ends>>

\* run_once ends: what is queued is dropped, session.end follows what is sent.
Leave ==
    /\ runtime # "on"
    /\ ready
    /\ Len(wire) < WireSize
    /\ ready' = FALSE
    /\ outbound' = <<>>
    /\ wire' = Append(wire, Farewell)
    /\ UNCHANGED <<pilotVars, clientVars, handshaking, generation, serverVars, lost_ends>>

------------------------------------------------------------------------------
(* run_client_runtime, when it is interrupted or one of its tasks fails.   *)

\* The device is stopped first, which releases it, and then the controller.
StopRuntime ==
    /\ runtime = "on"
    /\ runtime' = "stopping"
    /\ pressed' = FALSE
    /\ tasks' = tasks \o (IF pressed THEN <<Task("release", presses)>> ELSE <<>>)
                     \o <<Task("quit", presses)>>
    /\ UNCHANGED <<device, held, presses, resets, step, active, session_generation,
                   mic, callbacks, linkVars, serverVars, lost_ends>>

\* What is still scheduled after that release is cancelled.
Exit ==
    /\ runtime = "stopping"
    /\ \A i \in DOMAIN tasks : tasks[i].kind # "quit"
    /\ ~ready /\ ~handshaking
    /\ runtime' = "off"
    /\ tasks' = <<>> /\ step' = "ready"
    /\ UNCHANGED <<device, held, pressed, presses, resets, active, session_generation,
                   mic, callbacks, linkVars, serverVars, lost_ends>>

------------------------------------------------------------------------------
(* RealtimeSession: one action per message.                                *)

Received(kind) ==
    /\ wire # <<>>
    /\ Head(wire).kind = kind
    /\ wire' = Tail(wire)
    /\ UNCHANGED <<pilotVars, clientVars, sessionVars, outbound,
                   lost_ends>>

Reject == rejected' = rejected \cup {Head(wire)}

ResetUtterance == audio_buffer' = <<>> /\ overflowed' = FALSE

\* A second ptt.start is refused and leaves the open turn as it was.
StartPtt ==
    /\ Received("start")
    /\ IF ptt_active
       THEN Reject /\ UNCHANGED <<ptt_active, audio_buffer, overflowed>>
       ELSE ptt_active' = TRUE /\ ResetUtterance /\ UNCHANGED rejected
    /\ UNCHANGED utterances

HandleMedia ==
    /\ Received("audio")
    /\ IF ~ptt_active
       THEN Reject /\ UNCHANGED <<audio_buffer, overflowed>>
       ELSE IF Len(audio_buffer) = MaxUtterance
       THEN overflowed' = TRUE /\ UNCHANGED <<audio_buffer, rejected>>
       ELSE /\ audio_buffer' = Append(audio_buffer, Head(wire).chunk)
            /\ UNCHANGED <<overflowed, rejected>>
    /\ UNCHANGED <<ptt_active, utterances>>

EndPtt ==
    /\ Received("end")
    /\ IF ~ptt_active
       THEN Reject /\ UNCHANGED <<ptt_active, audio_buffer, overflowed, utterances>>
       ELSE /\ ptt_active' = FALSE
            /\ utterances' = utterances
                    \cup (IF overflowed THEN {} ELSE {audio_buffer})
            /\ ResetUtterance
            /\ UNCHANGED rejected

EndSession ==
    /\ Received("session.end")
    /\ ptt_active' = FALSE
    /\ ResetUtterance
    /\ UNCHANGED <<utterances, rejected>>

\* assistant.interrupt and telemetry do not touch the turn.
HandleOther ==
    /\ Received("interrupt") \/ Received("telemetry")
    /\ UNCHANGED serverVars

------------------------------------------------------------------------------

Controller ==
    \/ PressIgnored \/ PressBegins \/ PressSends \/ PressOpens \/ PressFails
    \/ ReleaseIgnored \/ ReleaseBegins \/ ReleaseEnds
    \/ ResetBegins \/ ResetDrops \/ ResetEnds

Server == StartPtt \/ HandleMedia \/ EndPtt \/ EndSession \/ HandleOther

Next ==
    \/ KeyDown \/ KeyUp \/ Move \/ Poll \/ AircraftChanged
    \/ Controller \/ Capture \/ Transmit
    \/ Publish \/ Write \/ Disconnect \/ Connect \/ Handshake \/ Leave
    \/ StopRuntime \/ Exit
    \/ Server

\* The joystick is polled, the event loop runs whatever is ready, the writer
\* drains the queue while the transport takes frames, and the backend reads its
\* socket.  Neither the pilot, nor the microphone, nor the network owes anything.
Fairness ==
    /\ WF_vars(Poll) /\ WF_vars(Controller) /\ WF_vars(Transmit)
    /\ WF_vars(Write) /\ WF_vars(Server)

Spec == Init /\ [][Next]_vars /\ Fairness

------------------------------------------------------------------------------
(* Properties.                                                             *)

\* The backend never gets audio outside a turn, and a ptt.start within one
\* only where an earlier ptt.end was lost: no reconnect, failing press or full
\* queue breaks the order.  (A ptt.end may come stray: a press whose capture
\* fails ends its turn even if the session has changed under it.)
FramesInOrder ==
    \A f \in rejected :
        /\ f.kind # "audio"
        /\ f.kind = "start" => \E p \in lost_ends : p < f.press

\* An utterance is chunks in the order the microphone gave them, and of one
\* press, except for the audio of earlier presses whose ptt.end was lost.
UtterancesWhole ==
    \A u \in utterances : \A i, j \in DOMAIN u :
        i < j =>
            \/ u[i].press = u[j].press /\ u[i].chunk < u[j].chunk
            \/ u[i].press < u[j].press /\ u[i].press \in lost_ends

\* Audio captured for one session never reaches another, be it queued, on the
\* wire or in the backend's buffer.
AudioStaysInSession ==
    /\ \A f \in Range(outbound) \cup Range(wire) :
         f.kind = "audio" => f.chunk.generation = generation
    /\ \A c \in Range(audio_buffer) : c.generation = generation

\* docs/privacy.md: the microphone is on only after an intentional press; once
\* the pilot has let go, the joystick is gone or the runtime stops, and whatever
\* fails or changes meanwhile, it goes off.
Wanted == held = "down" /\ runtime = "on"
MicrophoneCloses == ~Wanted ~> (mic = MicOff \/ Wanted)

\* While no ptt.end is lost, letting go ends the turn at the backend too.
TurnsEnd ==
    (~pressed /\ lost_ends = {}) ~> (~ptt_active \/ pressed \/ lost_ends # {})

\* docs/protocol.md: PTT release, not silence detection, is authoritative.
ReleaseIsAuthoritative == ~pressed ~> (~ptt_active \/ pressed)
==============================================================================

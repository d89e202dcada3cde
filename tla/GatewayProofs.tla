---------------------------- MODULE GatewayProofs ----------------------------
(***************************************************************************)
(* The safety of Gateway for any number of rules, events and replies, as   *)
(* long as no tool call publishes an event, and what its event stream      *)
(* promises to every consumer.                                             *)
(*                                                                         *)
(* Two coroutines that both handle events do break the properties (section *)
(* 4 of the README), so the theorems state their condition, Bystanders,    *)
(* as a hypothesis on the execution.  The argument: only the main loop     *)
(* then starts and interrupts responses, it is in an interruption whenever *)
(* response_task is cancelled, and an event is announced by one task at    *)
(* most, so that response_event_id names what is announced.                *)
(***************************************************************************)
EXTENDS Gateway, FiniteSetTheorems, SequenceTheorems, TLAPS

------------------------------------------------------------------------------
(* The event stream.                                                       *)

\* Ordinals are drawn in order, open events are the latest of their rule, and
\* what is withdrawn has been announced and is not open.
StreamInv ==
    /\ Stream!TypeOK
    /\ \A e \in announced : e[2] <= raised[e[1]]
    /\ Stream!OneOpenEventPerRule
    /\ Stream!WithdrawnOnceAnnounced

\* A batch keeps the stream's invariant, and what it raises is new.
LEMMA Delivered ==
    ASSUME StreamInv, NEW closing \in SUBSET open, NEW raising \in SUBSET Rules,
           NEW publish \in SUBSET raising,
           Stream!Deliver(closing, raising, publish)
    PROVE  StreamInv'
<1> USE DEF StreamInv, Stream!TypeOK, Stream!EventIds, Stream!Deliver,
            Stream!NewEvent
<1>1. \A r \in Rules : raised[r] \in Nat
                       /\ raised'[r] = raised[r] + (IF r \in raising THEN 1 ELSE 0)
  OBVIOUS
<1>2. Stream!TypeOK'
  <2>1. raised' \in [Rules -> Nat]
    OBVIOUS
  <2>2. {Stream!NewEvent(r) : r \in raising} \subseteq Stream!EventIds
    BY <1>1
  <2>. QED
    BY <2>1, <2>2
<1>3. \A e \in announced' : e[2] <= raised'[e[1]]
  BY <1>1
<1>4. Stream!OneOpenEventPerRule'
  <2> SUFFICES ASSUME NEW e \in open' PROVE e[2] = raised'[e[1]]
    BY DEF Stream!OneOpenEventPerRule
  <2>1. CASE e \in open \ closing
    BY <2>1, <1>1 DEF Stream!OneOpenEventPerRule
  <2>2. CASE \E r \in raising : e = Stream!NewEvent(r)
    BY <2>2, <1>1
  <2>. QED
    BY <2>1, <2>2
<1>5. Stream!WithdrawnOnceAnnounced'
  <2>1. withdrawn' \subseteq announced'
    BY DEF Stream!WithdrawnOnceAnnounced
  <2>2. ASSUME NEW e \in withdrawn' PROVE e \notin open'
    <3>1. e \in announced /\ e[1] \in Rules /\ e[2] <= raised[e[1]]
      BY DEF Stream!WithdrawnOnceAnnounced
    <3>2. e \notin open \ closing
      BY DEF Stream!WithdrawnOnceAnnounced
    <3>3. \A r \in raising : e # Stream!NewEvent(r)
      BY <3>1, <1>1
    <3>. QED
      BY <3>2, <3>3
  <2>. QED
    BY <2>1, <2>2 DEF Stream!WithdrawnOnceAnnounced
<1>. QED
  BY <1>2, <1>3, <1>4, <1>5

\* What every implementation of EventStream gives its consumers: no close
\* without an announcement, no close of an event that goes on, and at most one
\* open event per rule.
THEOREM StreamInvariance ==
    Stream!Spec => [](Stream!WithdrawnOnceAnnounced /\ Stream!OneOpenEventPerRule)
<1> USE DEF StreamInv, Stream!TypeOK, Stream!WithdrawnOnceAnnounced,
            Stream!OneOpenEventPerRule
<1>1. Stream!Init => StreamInv
  BY DEF Stream!Init
<1>2. StreamInv /\ [Stream!Next]_(Stream!vars) => StreamInv'
  <2> SUFFICES ASSUME StreamInv, [Stream!Next]_(Stream!vars) PROVE StreamInv'
    OBVIOUS
  <2>1. CASE Stream!Abandon
    BY <2>1 DEF Stream!Abandon
  <2>2. CASE UNCHANGED Stream!vars
    BY <2>2 DEF Stream!vars
  <2>. QED
    BY <2>1, <2>2, Delivered DEF Stream!Next
<1>3. StreamInv => Stream!WithdrawnOnceAnnounced /\ Stream!OneOpenEventPerRule
  OBVIOUS
<1>. QED
  BY <1>1, <1>2, <1>3, PTL DEF Stream!Spec

------------------------------------------------------------------------------
(* The invariant.                                                          *)

Response == [kind: Kinds, event: Stream!EventIds \cup {NoEvent},
             state: {"created", "waiting", "speaking", "failing", "done"},
             pipeline: Nat, cancel: BOOLEAN, muted: BOOLEAN]

Place == [at: {"idle", "batch", "gather", "interrupted"},
          then: {"none", "batch", "speak", "ptt", "reset", "close"},
          task: Nat, pending: Seq(Events)]

\* No tool call has events to handle: none was published by its refresh.
Bystanders ==
    \A h \in Tools : /\ handler[h].at \in {"idle", "batch"}
                     /\ handler[h].pending = <<>>

Typed ==
    /\ connection \in {"open", "closing", "closed"}
    /\ ready \in BOOLEAN
    /\ ptt_active \in BOOLEAN
    /\ tasks \in Seq(Response)
    /\ response_task \in 0..Len(tasks)
    /\ response_event_id \in Stream!EventIds \cup {NoEvent}
    /\ voice \in Nat /\ pipelines \in Nat
    /\ handler \in [Handlers -> Place]
    /\ dismissed \subseteq announced

\* Whatever is open was announced to the gateway.
OpenInv == open \subseteq announced /\ IsFiniteSet(open)

\* An event is announced by one task at most.
AnnouncedOnce ==
    /\ \A t \in DOMAIN tasks :
          /\ tasks[t].kind = "announce" => tasks[t].event \in announced
          /\ tasks[t].kind # "announce" => tasks[t].event = NoEvent
    /\ \A t, u \in DOMAIN tasks :
          tasks[t].kind = "announce" /\ tasks[u].event = tasks[t].event => t = u

\* The events the main loop has yet to handle are distinct, and one it has yet
\* to announce has neither ended nor been announced.
Pending == handler[Main].pending

PendingInv ==
    /\ \A i \in 1..Len(Pending) : Pending[i].id \in announced
    /\ \A i, j \in 1..Len(Pending) : Pending[i].id = Pending[j].id => i = j
    /\ \A i \in 1..Len(Pending) :
          Pending[i].status = "RAISED" =>
              /\ Pending[i].id \notin dismissed
              /\ \A t \in DOMAIN tasks : tasks[t].event # Pending[i].id

\* Where the main loop is tells what response_task is.
Here(at) == handler[Main].at = at

PlaceInv ==
    /\ Here("gather") =>
          /\ response_task # 0
          /\ handler[Main].task = response_task
          /\ ~Undisturbed(response_task)
    /\ Here("interrupted") => response_task = 0 /\ response_event_id = NoEvent
    /\ response_task # 0 /\ tasks[response_task].cancel => Here("gather")

\* What the main loop goes on with is still wanted when it does.
GoalInv ==
    /\ Here("batch") \/ handler[Main].then \in {"batch", "speak"} => ready
    /\ handler[Main].then = "speak" =>
          /\ ~ptt_active
          /\ Pending # <<>>
          /\ Head(Pending).status = "RAISED"
    /\ handler[Main].then = "close" => ~ready
    /\ ready => connection = "open"

\* response_event_id is the event of an announcement that is not over.
IdInv ==
    /\ response_event_id # NoEvent =>
          /\ response_task # 0
          /\ tasks[response_task].kind = "announce"
          /\ tasks[response_task].event = response_event_id
          /\ Live(response_task) \/ Here("gather")
    /\ ptt_active => response_event_id = NoEvent

\* Who speaks undisturbed is response_task or a welcome; an announcement has
\* its name in response_event_id, and nothing speaks for it to be silent.
SpeechInv ==
    \A t \in DOMAIN tasks :
        Undisturbed(t) /\ tasks[t].kind # "welcome" =>
            /\ t = response_task /\ ~ptt_active /\ connection # "closed"
            /\ tasks[t].kind = "announce" =>
                  /\ response_event_id = tasks[t].event
                  /\ tasks[t].event \notin dismissed
                  /\ ready

Inv ==
    /\ Typed /\ StreamInv /\ OpenInv
    /\ AnnouncedOnce /\ PendingInv
    /\ PlaceInv /\ GoalInv /\ IdInv /\ SpeechInv

------------------------------------------------------------------------------
(* The operators.                                                          *)

\* Muting a pipeline changes nothing else.
LEMMA Muting ==
    ASSUME NEW ts \in Seq(Response), NEW pipeline \in Nat
    PROVE  /\ Mute(ts, pipeline) \in Seq(Response)
           /\ Len(Mute(ts, pipeline)) = Len(ts)
           /\ \A t \in 1..Len(ts) :
                 /\ Mute(ts, pipeline)[t].kind = ts[t].kind
                 /\ Mute(ts, pipeline)[t].event = ts[t].event
                 /\ Mute(ts, pipeline)[t].state = ts[t].state
                 /\ Mute(ts, pipeline)[t].cancel = ts[t].cancel
                 /\ ts[t].muted => Mute(ts, pipeline)[t].muted
<1> DEFINE m == Mute(ts, pipeline)
<1>1. DOMAIN ts = 1..Len(ts) /\ Len(ts) \in Nat
      /\ \A t \in 1..Len(ts) : ts[t] \in Response
  OBVIOUS
<1>2. m = [t \in 1..Len(ts) |->
              IF pipeline # 0 /\ ts[t].pipeline = pipeline
                 /\ ts[t].state = "speaking"
              THEN [ts[t] EXCEPT !.muted = TRUE] ELSE ts[t]]
  BY <1>1 DEF Mute
<1>3. ASSUME NEW t \in 1..Len(ts)
      PROVE  /\ m[t] \in Response
             /\ m[t].kind = ts[t].kind /\ m[t].event = ts[t].event
             /\ m[t].state = ts[t].state /\ m[t].cancel = ts[t].cancel
             /\ ts[t].muted => m[t].muted
  <2>1. ts[t] \in Response
    BY <1>1
  <2>2. m[t] = [ts[t] EXCEPT !.muted = TRUE] \/ m[t] = ts[t]
    BY <1>2
  <2>. QED
    BY <2>1, <2>2 DEF Response
<1>4. m \in Seq(Response) /\ Len(m) = Len(ts)
  BY <1>1, <1>2, <1>3, SeqDef
<1>. QED
  BY <1>3, <1>4

\* The sequences SetToSeqs makes of a finite set list each element once.
LEMMA Listed ==
    ASSUME NEW S, IsFiniteSet(S), NEW s \in SetToSeqs(S)
    PROVE  /\ s \in Seq(S)
           /\ \A i, j \in 1..Len(s) : s[i] = s[j] => i = j
<1>1. Cardinality(S) \in Nat
  BY FS_CardinalityType
<1>2. s \in [1..Cardinality(S) -> S]
      /\ \A i, j \in 1..Cardinality(S) : i # j => s[i] # s[j]
  BY DEF SetToSeqs
<1>3. Len(s) = Cardinality(S) /\ s \in Seq(S)
  BY <1>1, <1>2, SeqDef
<1>. QED
  BY <1>2, <1>3

------------------------------------------------------------------------------
(* The steps of response tasks.                                            *)

\* A step after which nothing speaks that did not speak before.
Fades ==
    /\ tasks' \in Seq(Response)
    /\ Len(tasks') = Len(tasks)
    /\ \A t \in 1..Len(tasks) :
          /\ tasks'[t].kind = tasks[t].kind
          /\ tasks'[t].event = tasks[t].event
          /\ tasks'[t].cancel => tasks[t].cancel
          /\ Undisturbed(t)' => Undisturbed(t)

\* Such a step keeps the invariant, if response_event_id is let go of only by
\* the announcement it names, and is when that announcement is over, unless the
\* main loop waits to let go of it.
LEMMA Fading ==
    ASSUME Inv, Fades,
           UNCHANGED <<streamVars, stateVars, response_task, dismissed, handler>>,
           voice' \in Nat, pipelines' \in Nat,
           \/ response_event_id' = response_event_id
           \/ /\ response_event_id' = NoEvent
              /\ \A t \in 1..Len(tasks) :
                    Undisturbed(t)' => tasks[t].event # response_event_id,
           response_event_id' # NoEvent =>
               (Live(response_task) => Live(response_task)') \/ Here("gather")
    PROVE  Inv'
<1>s. /\ UNCHANGED <<raised, open, announced, withdrawn>>
      /\ UNCHANGED <<connection, ready, ptt_active>>
      /\ UNCHANGED <<response_task, dismissed, handler>>
  BY DEF streamVars, stateVars
<1>i. /\ Typed /\ StreamInv /\ OpenInv /\ AnnouncedOnce /\ PendingInv
      /\ PlaceInv /\ GoalInv /\ IdInv /\ SpeechInv
  BY DEF Inv
<1>d. /\ DOMAIN tasks = 1..Len(tasks) /\ DOMAIN tasks' = 1..Len(tasks)
      /\ Len(tasks) \in Nat
  BY <1>i DEF Typed, Fades
<1>r. response_task \in 0..Len(tasks)
  BY <1>i DEF Typed
<1>f. \A t \in 1..Len(tasks) :
          /\ tasks'[t].kind = tasks[t].kind
          /\ tasks'[t].event = tasks[t].event
          /\ tasks'[t].cancel => tasks[t].cancel
          /\ Undisturbed(t)' => Undisturbed(t)
  BY DEF Fades
<1>1. Typed'
  BY <1>s, <1>i DEF Typed, Fades, Stream!EventIds
<1>2. StreamInv' /\ OpenInv'
  BY <1>s, <1>i DEF StreamInv, OpenInv, Stream!TypeOK, Stream!EventIds,
     Stream!OneOpenEventPerRule, Stream!WithdrawnOnceAnnounced
<1>3. AnnouncedOnce' /\ PendingInv'
  BY <1>s, <1>i, <1>d, <1>f DEF AnnouncedOnce, PendingInv, Pending
<1>4. PlaceInv' /\ GoalInv'
  <2>1. response_task # 0 => response_task \in 1..Len(tasks)
    BY <1>r, <1>d
  <2>2. Here("gather") => ~Undisturbed(response_task)'
    BY <2>1, <1>i, <1>f DEF PlaceInv
  <2>3. (~Undisturbed(response_task))' <=> ~Undisturbed(response_task)'
    BY <1>s DEF Undisturbed, Live
  <2>4. response_event_id = NoEvent => response_event_id' = NoEvent
    OBVIOUS
  <2>. QED
    BY <2>1, <2>2, <2>3, <2>4, <1>s, <1>i, <1>f DEF PlaceInv, GoalInv, Here, Pending
<1>5. IdInv'
  <2>1. response_task # 0 => response_task \in 1..Len(tasks)
    BY <1>r, <1>d
  <2>2. Live(response_task)' => (Live(response_task))'
    BY <1>s DEF Live
  <2>. QED
    BY <2>1, <2>2, <1>s, <1>i, <1>f DEF IdInv, Here
<1>6. SpeechInv'
  BY <1>s, <1>i, <1>d, <1>f DEF SpeechInv
<1>. QED
  BY <1>1, <1>2, <1>3, <1>4, <1>5, <1>6 DEF Inv

LEMMA TaskStepInv ==
    ASSUME Inv, NEW t \in DOMAIN tasks, TaskSteps(t)
    PROVE  Inv' /\ Fades
<1>i. /\ Typed /\ AnnouncedOnce /\ PlaceInv /\ IdInv
  BY DEF Inv
<1>d. /\ DOMAIN tasks = 1..Len(tasks) /\ Len(tasks) \in Nat
      /\ tasks \in Seq(Response)
      /\ t \in 1..Len(tasks)
      /\ \A u \in 1..Len(tasks) : tasks[u] \in Response
  BY <1>i DEF Typed
<1>v. voice \in Nat /\ pipelines \in Nat
  BY <1>i DEF Typed
<1>u. ASSUME UNCHANGED <<streamVars, stateVars, response_task, idVars, handler>>
      PROVE  UNCHANGED <<streamVars, stateVars, response_task, dismissed, handler>>
  BY <1>u DEF idVars
<1>1. CASE TaskStarts(t)
  <2>1. /\ voice' \in Nat /\ pipelines' \in Nat
        /\ tasks' = [tasks EXCEPT ![t].state = "waiting", ![t].pipeline = voice']
        /\ tasks[t].state = "created"
        /\ response_event_id' = response_event_id
        /\ UNCHANGED <<streamVars, stateVars, response_task, idVars, handler>>
    BY <1>1, <1>v DEF TaskStarts
  <2>2. /\ tasks'[t] = [tasks[t] EXCEPT !.state = "waiting", !.pipeline = voice']
        /\ \A u \in 1..Len(tasks) : u # t => tasks'[u] = tasks[u]
        /\ tasks' \in Seq(Response) /\ Len(tasks') = Len(tasks)
    <3>1. [tasks[t] EXCEPT !.state = "waiting", !.pipeline = voice'] \in Response
      BY <2>1, <1>d DEF Response
    <3>2. tasks' = [tasks EXCEPT ![t] =
                       [tasks[t] EXCEPT !.state = "waiting", !.pipeline = voice']]
      BY <2>1, <1>d
    <3>. QED
      BY <3>1, <3>2, <1>d, ExceptSeq
  <2>3. Fades
    <3>1. PICK r \in Response : r = tasks[t]
      BY <1>d
    <3>2. /\ tasks'[t].kind = r.kind /\ tasks'[t].event = r.event
          /\ tasks'[t].cancel = r.cancel /\ tasks'[t].muted = r.muted
      BY <2>2, <3>1 DEF Response
    <3>3. ASSUME NEW u \in 1..Len(tasks)
          PROVE  /\ tasks'[u].kind = tasks[u].kind /\ tasks'[u].event = tasks[u].event
                 /\ tasks'[u].cancel => tasks[u].cancel
                 /\ Undisturbed(u)' => Undisturbed(u)
      <4>1. CASE u = t
        BY <1>d, <2>1, <3>1, <3>2, <4>1 DEF Undisturbed, Live
      <4>2. CASE u # t
        BY <2>2, <4>2 DEF Undisturbed, Live
      <4>. QED
        BY <4>1, <4>2
    <3>. QED
      BY <2>2, <3>3 DEF Fades
  <2>4. Live(response_task) => Live(response_task)'
    BY <2>1, <2>2, <1>d, <1>i DEF Live, Typed, Response
  <2>. QED
    BY <2>1, <2>3, <2>4, <1>u, Fading
<1>2. CASE TaskSpeaks(t)
  <2>1. /\ tasks' = [tasks EXCEPT ![t].state = "speaking"]
        /\ tasks[t].state = "waiting"
        /\ response_event_id' = response_event_id
        /\ voice' \in Nat /\ pipelines' \in Nat
        /\ UNCHANGED <<streamVars, stateVars, response_task, idVars, handler>>
    BY <1>2, <1>v DEF TaskSpeaks, voiceVars
  <2>2. /\ tasks'[t] = [tasks[t] EXCEPT !.state = "speaking"]
        /\ \A u \in 1..Len(tasks) : u # t => tasks'[u] = tasks[u]
        /\ tasks' \in Seq(Response) /\ Len(tasks') = Len(tasks)
    <3>1. [tasks[t] EXCEPT !.state = "speaking"] \in Response
      BY <1>d DEF Response
    <3>. QED
      BY <3>1, <2>1, <1>d, ExceptSeq
  <2>3. Fades
    BY <2>1, <2>2, <1>d DEF Fades, Undisturbed, Live, Response
  <2>4. Live(response_task) => Live(response_task)'
    BY <2>1, <2>2, <1>d, <1>i DEF Live, Typed, Response
  <2>. QED
    BY <2>1, <2>3, <2>4, <1>u, Fading
<1>3. CASE TaskFails(t)
  <2> DEFINE failing == [tasks EXCEPT ![t].state = "failing"]
  <2>1. /\ tasks' = Mute(failing, voice)
        /\ tasks[t].state \in {"waiting", "speaking"}
        /\ response_event_id' = response_event_id
        /\ voice' \in Nat /\ pipelines' \in Nat
        /\ UNCHANGED <<streamVars, stateVars, response_task, idVars, handler>>
    BY <1>3, <1>v DEF TaskFails
  <2>2. /\ failing[t] = [tasks[t] EXCEPT !.state = "failing"]
        /\ \A u \in 1..Len(tasks) : u # t => failing[u] = tasks[u]
        /\ failing \in Seq(Response) /\ Len(failing) = Len(tasks)
    <3>1. [tasks[t] EXCEPT !.state = "failing"] \in Response
      BY <1>d DEF Response
    <3>. QED
      BY <3>1, <1>d, ExceptSeq
  <2> HIDE DEF failing
  <2>3. /\ tasks' \in Seq(Response) /\ Len(tasks') = Len(tasks)
        /\ \A u \in 1..Len(tasks) :
              /\ tasks'[u].kind = failing[u].kind
              /\ tasks'[u].event = failing[u].event
              /\ tasks'[u].state = failing[u].state
              /\ tasks'[u].cancel = failing[u].cancel
              /\ failing[u].muted => tasks'[u].muted
    <3> DEFINE m == Mute(failing, voice)
    <3>1. /\ m \in Seq(Response) /\ Len(m) = Len(failing)
          /\ \A u \in 1..Len(failing) :
                /\ m[u].kind = failing[u].kind
                /\ m[u].event = failing[u].event
                /\ m[u].state = failing[u].state
                /\ m[u].cancel = failing[u].cancel
                /\ failing[u].muted => m[u].muted
      BY <2>2, <1>v, Muting
    <3>2. tasks' = m
      BY <2>1
    <3> HIDE DEF m
    <3>. QED
      BY <3>1, <3>2, <2>2
  <2>4. \A u \in 1..Len(tasks) :
            /\ failing[u].kind = tasks[u].kind
            /\ failing[u].event = tasks[u].event
            /\ failing[u].cancel = tasks[u].cancel
            /\ failing[u].muted = tasks[u].muted
            /\ failing[u].state = "done" <=> tasks[u].state = "done"
    <3>1. PICK r \in Response : r = tasks[t]
      BY <1>d
    <3>2. /\ failing[t].kind = r.kind /\ failing[t].event = r.event
          /\ failing[t].cancel = r.cancel /\ failing[t].muted = r.muted
          /\ failing[t].state = "failing" /\ r.state # "done"
      BY <2>1, <2>2, <3>1 DEF Response
    <3>. QED
      BY <2>2, <3>1, <3>2
  <2>5. Fades
    BY <2>3, <2>4, <1>d DEF Fades, Undisturbed, Live
  <2>6. Live(response_task) => Live(response_task)'
    BY <2>1, <2>3, <2>4, <1>d, <1>i DEF Live, Typed
  <2>. QED
    BY <2>1, <2>5, <2>6, <1>u, Fading
<1>4. CASE TaskEnds(t) \/ TaskReports(t) \/ TaskCancelled(t)
  <2>1. /\ Finished(t)
        /\ tasks[t].state # "created" \/ tasks[t].cancel
        /\ voice' \in Nat /\ pipelines' \in Nat
        /\ UNCHANGED <<streamVars, stateVars, response_task, idVars, handler>>
    BY <1>4, <1>v DEF TaskEnds, TaskReports, TaskCancelled, voiceVars
  <2>2. /\ tasks'[t] = [Done EXCEPT !.kind = tasks[t].kind, !.event = tasks[t].event]
        /\ \A u \in 1..Len(tasks) : u # t => tasks'[u] = tasks[u]
        /\ tasks' \in Seq(Response) /\ Len(tasks') = Len(tasks)
    <3>1. [Done EXCEPT !.kind = tasks[t].kind, !.event = tasks[t].event] \in Response
      BY <1>d DEF Response, Done
    <3>. QED
      BY <3>1, <2>1, <1>d, ExceptSeq DEF Finished
  <2>3. /\ tasks'[t].kind = tasks[t].kind /\ tasks'[t].event = tasks[t].event
        /\ tasks'[t].state = "done" /\ ~tasks'[t].cancel
    BY <2>2 DEF Done
  <2>4. Fades
    BY <2>2, <2>3, <1>d DEF Fades, Undisturbed, Live
  <2>5. \/ response_event_id' = response_event_id
        \/ /\ response_event_id' = NoEvent
           /\ \A u \in 1..Len(tasks) :
                 Undisturbed(u)' => tasks[u].event # response_event_id
    <3>1. CASE response_event_id' # response_event_id
      <4>1. /\ response_event_id' = NoEvent /\ tasks[t].kind = "announce"
            /\ response_event_id = tasks[t].event
        BY <3>1, <2>1 DEF Finished
      <4>2. ASSUME NEW u \in 1..Len(tasks), tasks[u].event = response_event_id
            PROVE  ~Undisturbed(u)'
        <5>1. u = t
          BY <4>1, <4>2, <1>i, <1>d DEF AnnouncedOnce
        <5>. QED
          BY <5>1, <2>3 DEF Undisturbed, Live
      <4>. QED
        BY <4>1, <4>2
    <3>. QED
      BY <3>1
  <2>6. response_event_id' # NoEvent =>
            (Live(response_task) => Live(response_task)') \/ Here("gather")
    <3>1. CASE response_task = t /\ response_event_id' # NoEvent
      <4>1. response_event_id # NoEvent /\ response_event_id' = response_event_id
        BY <3>1, <2>1 DEF Finished
      <4>2. tasks[t].kind = "announce" /\ tasks[t].event = response_event_id
            /\ t # 0
        BY <4>1, <3>1, <1>i DEF IdInv
      <4>3. tasks[t].state = "created"
        BY <4>1, <4>2, <3>1, <2>1 DEF Finished
      <4>. QED
        BY <4>2, <4>3, <3>1, <2>1, <1>i DEF PlaceInv
    <3>2. CASE response_task # t
      BY <3>2, <2>1, <2>2, <1>d, <1>i DEF Live, Typed
    <3>. QED
      BY <3>1, <3>2
  <2>. QED
    BY <2>1, <2>4, <2>5, <2>6, <1>u, Fading
<1>. QED
  BY <1>1, <1>2, <1>3, <1>4 DEF TaskSteps

------------------------------------------------------------------------------
(* Interrupting and starting responses.                                    *)

Thens == {"none", "batch", "speak", "ptt", "reset", "close"}

LEMMA PlaceWritten ==
    ASSUME Typed, NEW h \in Handlers, NEW place \in Place,
           handler' = [handler EXCEPT ![h] = place]
    PROVE  /\ handler' \in [Handlers -> Place]
           /\ handler'[h] = place
           /\ \A g \in Handlers : g # h => handler'[g] = handler[g]
  BY DEF Typed

\* Where the coroutine that interrupts goes is what is left to prove of a step.
LEMMA Interrupting ==
    ASSUME Inv, NEW then \in Thens, NEW pending \in Seq(Events),
           InterruptResponse(Main, then, pending)
    PROVE  /\ tasks' \in Seq(Response)
           /\ Len(tasks') = Len(tasks)
           /\ \A t \in 1..Len(tasks) :
                 /\ tasks'[t].kind = tasks[t].kind
                 /\ tasks'[t].event = tasks[t].event
                 /\ tasks'[t].cancel => tasks[t].cancel \/ t = response_task
                 /\ Undisturbed(t)' => tasks[t].kind = "welcome"
           /\ response_task' \in 0..Len(tasks)
           /\ response_event_id' \in {response_event_id, NoEvent}
           /\ handler' \in [Handlers -> Place]
           /\ handler'[Main].at \in {"gather", "interrupted"}
           /\ handler'[Main].then = then
           /\ handler'[Main].pending = pending
           /\ PlaceInv'
           /\ response_event_id' # NoEvent =>
                 response_task' = response_task /\ Here("gather")'
<1>i. Typed /\ PlaceInv /\ SpeechInv /\ IdInv
  BY DEF Inv
<1>d. /\ DOMAIN tasks = 1..Len(tasks) /\ Len(tasks) \in Nat
      /\ tasks \in Seq(Response)
      /\ \A u \in 1..Len(tasks) : tasks[u] \in Response
      /\ response_task \in 0..Len(tasks)
      /\ voice \in Nat
  BY <1>i DEF Typed
<1>m. Main \in Handlers
  BY DEF Handlers
<1>1. CASE Live(response_task)
  <2> DEFINE place == [at |-> "gather", then |-> then, task |-> response_task,
                       pending |-> pending]
             cancelled == [tasks EXCEPT ![response_task].cancel = TRUE]
             m == Mute(cancelled, voice)
  <2>1. /\ tasks' = m
        /\ handler' = [handler EXCEPT ![Main] = place]
        /\ response_task' = response_task
        /\ response_event_id' = response_event_id
    BY <1>1 DEF InterruptResponse
  <2>2. response_task \in 1..Len(tasks)
    BY <1>1, <1>d DEF Live
  <2>3. /\ cancelled[response_task] = [tasks[response_task] EXCEPT !.cancel = TRUE]
        /\ \A u \in 1..Len(tasks) : u # response_task => cancelled[u] = tasks[u]
        /\ cancelled \in Seq(Response) /\ Len(cancelled) = Len(tasks)
    <3>1. [tasks[response_task] EXCEPT !.cancel = TRUE] \in Response
      BY <2>2, <1>d DEF Response
    <3>. QED
      BY <3>1, <2>2, <1>d, ExceptSeq
  <2>4. \A u \in 1..Len(tasks) :
            /\ cancelled[u].kind = tasks[u].kind
            /\ cancelled[u].event = tasks[u].event
            /\ cancelled[u].state = tasks[u].state
            /\ cancelled[u].muted = tasks[u].muted
            /\ cancelled[u].cancel <=> (tasks[u].cancel \/ u = response_task)
    BY <2>2, <2>3, <1>d DEF Response
  <2> HIDE DEF cancelled
  <2>5. /\ m \in Seq(Response) /\ Len(m) = Len(tasks)
        /\ \A u \in 1..Len(tasks) :
              /\ m[u].kind = cancelled[u].kind
              /\ m[u].event = cancelled[u].event
              /\ m[u].state = cancelled[u].state
              /\ m[u].cancel = cancelled[u].cancel
              /\ cancelled[u].muted => m[u].muted
    BY <2>3, <1>d, Muting
  <2> HIDE DEF m
  <2>6. \A u \in 1..Len(tasks) : Undisturbed(u)' => Undisturbed(u) /\ u # response_task
    BY <2>1, <2>4, <2>5 DEF Undisturbed, Live
  <2>7. place \in Place
    BY <2>2, <1>d DEF Place, Thens
  <2>8. /\ handler' \in [Handlers -> Place] /\ handler'[Main] = place
    BY <2>1, <2>7, <1>m, <1>i, PlaceWritten
  <2>9. PlaceInv'
    <3>1. ~Undisturbed(response_task)'
      BY <2>2, <2>6, <2>1
    <3>. QED
      BY <3>1, <2>1, <2>2, <2>8 DEF PlaceInv, Here
  <2>10. \A u \in 1..Len(tasks) : Undisturbed(u)' => tasks[u].kind = "welcome"
    BY <2>6, <1>i, <1>d DEF SpeechInv
  <2>. QED
    BY <2>1, <2>2, <2>4, <2>5, <2>8, <2>9, <2>10 DEF Here
<1>2. CASE ~Live(response_task)
  <2> DEFINE place == [at |-> "interrupted", then |-> then, task |-> 0,
                       pending |-> pending]
  <2>1. /\ tasks' = tasks
        /\ handler' = [handler EXCEPT ![Main] = place]
        /\ response_task' = 0
        /\ response_event_id' = NoEvent
    BY <1>2 DEF InterruptResponse
  <2>2. place \in Place
    BY DEF Place, Thens
  <2>3. /\ handler' \in [Handlers -> Place] /\ handler'[Main] = place
    BY <2>1, <2>2, <1>m, <1>i, PlaceWritten
  <2>4. \A u \in 1..Len(tasks) : Undisturbed(u)' => tasks[u].kind = "welcome"
    <3>1. \A u \in 1..Len(tasks) : Undisturbed(u)' => Undisturbed(u) /\ u # response_task
      BY <2>1, <1>2 DEF Undisturbed, Live
    <3>. QED
      BY <3>1, <1>i, <1>d DEF SpeechInv
  <2>5. PlaceInv'
    BY <2>1, <2>3 DEF PlaceInv, Here
  <2>. QED
    BY <2>1, <2>3, <2>4, <2>5, <1>d
<1>. QED
  BY <1>1, <1>2

\* An interruption leaves the invariant, if what the main loop goes on with is
\* still wanted.
LEMMA InterruptInv ==
    ASSUME Inv, NEW then \in Thens, NEW pending \in Seq(Events),
           InterruptResponse(Main, then, pending),
           StreamInv', OpenInv', announced \subseteq announced',
           dismissed' \subseteq announced',
           connection' \in {"open", "closing", "closed"}, ready' \in BOOLEAN,
           UNCHANGED <<ptt_active, voice, pipelines>>,
           GoalInv', PendingInv'
    PROVE  Inv'
<1>i. Typed /\ AnnouncedOnce /\ IdInv
  BY DEF Inv
<1>1. /\ tasks' \in Seq(Response)
      /\ Len(tasks') = Len(tasks)
      /\ \A t \in 1..Len(tasks) :
            /\ tasks'[t].kind = tasks[t].kind
            /\ tasks'[t].event = tasks[t].event
            /\ Undisturbed(t)' => tasks[t].kind = "welcome"
      /\ response_task' \in 0..Len(tasks)
      /\ response_event_id' \in {response_event_id, NoEvent}
      /\ handler' \in [Handlers -> Place]
      /\ PlaceInv'
      /\ response_event_id' # NoEvent =>
            response_task' = response_task /\ Here("gather")'
  BY Interrupting
<1>d. DOMAIN tasks = 1..Len(tasks) /\ DOMAIN tasks' = 1..Len(tasks)
  BY <1>1, <1>i DEF Typed
<1>2. Typed'
  <2>1. response_event_id' \in Stream!EventIds \cup {NoEvent}
    BY <1>1, <1>i DEF Typed
  <2>2. (response_event_id \in Stream!EventIds \cup {NoEvent})'
        <=> response_event_id' \in Stream!EventIds \cup {NoEvent}
    BY DEF Stream!EventIds
  <2>. QED
    BY <2>1, <2>2, <1>1, <1>i DEF Typed
<1>3. AnnouncedOnce'
  BY <1>1, <1>d, <1>i DEF AnnouncedOnce
<1>4. IdInv'
  <2>1. response_task' # 0 => response_task' \in 1..Len(tasks)
    BY <1>1, <1>i DEF Typed
  <2>. QED
    BY <2>1, <1>1, <1>i DEF IdInv
<1>5. SpeechInv'
  BY <1>1, <1>d DEF SpeechInv
<1>. QED
  BY <1>1, <1>2, <1>3, <1>4, <1>5 DEF Inv

LEMMA Starting ==
    ASSUME Typed, NEW kind \in Kinds, NEW event \in Stream!EventIds \cup {NoEvent},
           Start(kind, event)
    PROVE  /\ tasks' \in Seq(Response)
           /\ Len(tasks') = Len(tasks) + 1
           /\ response_task' = Len(tasks) + 1
           /\ \A t \in 1..Len(tasks) : tasks'[t] = tasks[t]
           /\ tasks'[Len(tasks) + 1].kind = kind
           /\ tasks'[Len(tasks) + 1].event = event
           /\ ~tasks'[Len(tasks) + 1].cancel
           /\ tasks'[Len(tasks) + 1].state = "created"
<1> DEFINE new == [Done EXCEPT !.kind = kind, !.event = event, !.state = "created"]
<1>1. /\ new \in Response
      /\ new.kind = kind /\ new.event = event
      /\ new.state = "created" /\ new.cancel = FALSE
  BY DEF Response, Done
<1>2. tasks' = Append(tasks, new) /\ response_task' = Len(tasks) + 1
  BY DEF Start
<1> HIDE DEF new
<1>3. tasks \in Seq(Response) /\ Len(tasks) \in Nat
  BY DEF Typed
<1>4. /\ tasks' \in Seq(Response) /\ Len(tasks') = Len(tasks) + 1
      /\ \A t \in 1..Len(tasks) : tasks'[t] = tasks[t]
      /\ tasks'[Len(tasks) + 1] = new
  BY <1>1, <1>2, <1>3, AppendProperties
<1>. QED
  BY <1>1, <1>2, <1>3, <1>4

\* A response may start when nothing but a welcome speaks.
LEMMA StartInv ==
    ASSUME Inv, NEW kind \in Kinds, NEW event \in Stream!EventIds \cup {NoEvent},
           Start(kind, event),
           \A t \in DOMAIN tasks : Undisturbed(t) => tasks[t].kind = "welcome",
           handler' \in [Handlers -> Place],
           handler'[Main].at \in {"idle", "batch"},
           StreamInv', OpenInv', announced \subseteq announced',
           ready' \in BOOLEAN, ptt_active' \in BOOLEAN,
           UNCHANGED <<connection, dismissed, voice, pipelines>>,
           connection # "closed",
           kind = "announce" =>
               /\ event \in announced'
               /\ event \notin dismissed
               /\ \A t \in DOMAIN tasks : tasks[t].event # event
               /\ response_event_id' = event
               /\ ready' /\ ~ptt_active',
           kind # "announce" =>
               /\ event = NoEvent
               /\ response_event_id' = NoEvent
               /\ kind # "welcome" => ~ptt_active',
           GoalInv', PendingInv'
    PROVE  Inv'
<1>i. Typed /\ AnnouncedOnce /\ IdInv /\ PlaceInv /\ StreamInv
  BY DEF Inv
<1> DEFINE new == Len(tasks) + 1
<1>1. /\ tasks' \in Seq(Response)
      /\ Len(tasks') = new
      /\ response_task' = new
      /\ \A t \in 1..Len(tasks) : tasks'[t] = tasks[t]
      /\ tasks'[new].kind = kind
      /\ tasks'[new].event = event
      /\ ~tasks'[new].cancel
      /\ tasks'[new].state = "created"
  BY <1>i, Starting
<1>d. /\ DOMAIN tasks = 1..Len(tasks) /\ DOMAIN tasks' = 1..new
      /\ Len(tasks) \in Nat /\ new \notin 1..Len(tasks) /\ new # 0
      /\ \A t \in 1..new : t # new => t \in 1..Len(tasks)
  BY <1>1, <1>i DEF Typed
<1>e. NoEvent \notin Stream!EventIds
  BY DEF NoEvent, Stream!EventIds
<1>2. Typed'
  <2>1. response_event_id' \in Stream!EventIds \cup {NoEvent}
    OBVIOUS
  <2>2. (response_event_id \in Stream!EventIds \cup {NoEvent})'
        <=> response_event_id' \in Stream!EventIds \cup {NoEvent}
    BY DEF Stream!EventIds
  <2>3. response_task' \in 0..Len(tasks')
    BY <1>1, <1>d
  <2>. QED
    BY <2>1, <2>2, <2>3, <1>1, <1>i DEF Typed
<1> HIDE DEF new
<1>3. AnnouncedOnce'
  <2>1. ASSUME NEW t \in 1..new
        PROVE  /\ tasks'[t].kind = "announce" => tasks'[t].event \in announced'
               /\ tasks'[t].kind # "announce" => tasks'[t].event = NoEvent
    <3>1. CASE t = new
      BY <3>1, <1>1
    <3>2. CASE t # new
      BY <3>2, <1>1, <1>d, <1>i DEF AnnouncedOnce
    <3>. QED
      BY <3>1, <3>2
  <2>2. ASSUME NEW t \in 1..new, NEW u \in 1..new,
               tasks'[t].kind = "announce", tasks'[u].event = tasks'[t].event
        PROVE  t = u
    <3>1. CASE t # new /\ u # new
      BY <3>1, <2>2, <1>1, <1>d, <1>i DEF AnnouncedOnce
    <3>2. CASE t = new /\ u # new
      BY <3>2, <2>2, <1>1, <1>d
    <3>3. CASE t # new /\ u = new
      <4>1. /\ tasks[t].kind = "announce" /\ tasks[t].event = event
            /\ t \in 1..Len(tasks)
        BY <3>3, <2>2, <1>1, <1>d
      <4>2. tasks[t].event \in Stream!EventIds
        BY <4>1, <1>d, <1>i DEF AnnouncedOnce, StreamInv, Stream!TypeOK
      <4>3. kind = "announce"
        BY <4>1, <4>2, <1>e
      <4>. QED
        BY <4>1, <4>3, <1>d
    <3>. QED
      BY <3>1, <3>2, <3>3
  <2>. QED
    BY <2>1, <2>2, <1>d DEF AnnouncedOnce
<1>4. PlaceInv'
  BY <1>1, <1>d DEF PlaceInv, Here
<1>5. IdInv'
  <2>1. (Live(response_task))'
    BY <1>1, <1>d DEF Live
  <2>2. CASE kind = "announce"
    BY <2>1, <2>2, <1>1, <1>d DEF IdInv
  <2>3. CASE kind # "announce"
    BY <2>3 DEF IdInv
  <2>. QED
    BY <2>2, <2>3
<1>6. SpeechInv'
  <2>1. ASSUME NEW t \in 1..new, Undisturbed(t)', tasks'[t].kind # "welcome"
        PROVE  /\ t = response_task' /\ ~ptt_active' /\ connection' # "closed"
               /\ tasks'[t].kind = "announce" =>
                     /\ response_event_id' = tasks'[t].event
                     /\ tasks'[t].event \notin dismissed'
                     /\ ready'
    <3>1. t = new
      <4>1. CASE t # new
        <5>1. t \in 1..Len(tasks) /\ tasks'[t] = tasks[t]
          BY <4>1, <1>1, <1>d
        <5>2. Undisturbed(t)
          BY <5>1, <2>1 DEF Undisturbed, Live
        <5>. QED
          BY <5>1, <5>2, <2>1, <1>d
      <4>. QED
        BY <4>1
    <3>. QED
      BY <3>1, <2>1, <1>1
  <2>. QED
    BY <2>1, <1>d DEF SpeechInv
<1>. QED
  BY <1>2, <1>3, <1>4, <1>5, <1>6 DEF Inv

------------------------------------------------------------------------------
(* The events a refresh publishes.                                         *)

LEMMA ImageFinite ==
    ASSUME NEW S, IsFiniteSet(S), NEW f
    PROVE  IsFiniteSet({f[x] : x \in S})
<1> DEFINE T == {f[x] : x \in S}
           g == [x \in S |-> f[x]]
<1>1. g \in Surjection(S, T)
  BY DEF Surjection
<1>. QED
  BY <1>1, FS_Surjection

LEMMA BatchFinite ==
    ASSUME NEW closing, NEW raising, IsFiniteSet(closing), IsFiniteSet(raising)
    PROVE  /\ IsFiniteSet(Batch(closing, raising))
           /\ IsFiniteSet({Stream!NewEvent(r) : r \in raising})
<1> DEFINE ended  == [e \in closing |-> [id |-> e, status |-> "ENDED"]]
           new    == [r \in raising |-> Stream!NewEvent(r)]
           begun  == [r \in raising |-> [id |-> Stream!NewEvent(r), status |-> "RAISED"]]
<1>1. /\ {ended[e] : e \in closing} = {[id |-> e, status |-> "ENDED"] : e \in closing}
      /\ {new[r] : r \in raising} = {Stream!NewEvent(r) : r \in raising}
      /\ {begun[r] : r \in raising}
            = {[id |-> Stream!NewEvent(r), status |-> "RAISED"] : r \in raising}
  OBVIOUS
<1> HIDE DEF ended, new, begun
<1>2. /\ IsFiniteSet({ended[e] : e \in closing})
      /\ IsFiniteSet({new[r] : r \in raising})
      /\ IsFiniteSet({begun[r] : r \in raising})
  BY ImageFinite
<1>3. IsFiniteSet({ended[e] : e \in closing} \cup {begun[r] : r \in raising})
  BY <1>2, FS_Union
<1>. QED
  BY <1>1, <1>2, <1>3 DEF Batch

\* A batch has each event once, ended ones were announced before and raised
\* ones were not.
LEMMA Batched ==
    ASSUME StreamInv, OpenInv,
           NEW closing \in SUBSET open, NEW raising \in SUBSET Rules
    PROVE  /\ Batch(closing, raising) \subseteq Events
           /\ \A b \in Batch(closing, raising) :
                 /\ b.id \in announced \cup {Stream!NewEvent(r) : r \in raising}
                 /\ b.status = "RAISED" => b.id \notin announced
           /\ \A b, c \in Batch(closing, raising) : b.id = c.id => b = c
<1>1. \A r \in Rules : raised[r] \in Nat
  BY DEF StreamInv, Stream!TypeOK
<1>2. \A r \in raising : /\ Stream!NewEvent(r) \in Stream!EventIds
                         /\ Stream!NewEvent(r) \notin announced
                         /\ Stream!NewEvent(r) \notin open
  BY <1>1 DEF StreamInv, OpenInv, Stream!NewEvent, Stream!EventIds
<1>3. closing \subseteq announced /\ announced \subseteq Stream!EventIds
  BY DEF StreamInv, OpenInv, Stream!TypeOK
<1>4. ASSUME NEW b \in Batch(closing, raising)
      PROVE  \/ b.status = "ENDED" /\ b.id \in closing
                /\ b = [id |-> b.id, status |-> "ENDED"]
             \/ b.status = "RAISED"
                /\ b.id \in {Stream!NewEvent(r) : r \in raising}
                /\ b = [id |-> b.id, status |-> "RAISED"]
  BY DEF Batch
<1>5. \A b \in Batch(closing, raising) : b \in Events
  BY <1>2, <1>3, <1>4 DEF Events
<1>6. \A b \in Batch(closing, raising) :
          /\ b.id \in announced \cup {Stream!NewEvent(r) : r \in raising}
          /\ b.status = "RAISED" => b.id \notin announced
  BY <1>2, <1>3, <1>4
<1>7. \A b, c \in Batch(closing, raising) : b.id = c.id => b = c
  <2> SUFFICES ASSUME NEW b \in Batch(closing, raising),
                      NEW c \in Batch(closing, raising), b.id = c.id
               PROVE  b = c
    OBVIOUS
  <2>1. b.status = c.status
    BY <1>2, <1>4
  <2>. QED
    BY <2>1, <1>4
<1>. QED
  BY <1>5, <1>6, <1>7

\* What a refresh does to the stream and gives its coroutine to handle.
LEMMA Refreshing ==
    ASSUME GatewayAssumption, Inv, NEW h \in Handlers, Refresh(h)
    PROVE  /\ StreamInv' /\ OpenInv' /\ announced \subseteq announced'
           /\ handler' \in [Handlers -> Place]
           /\ \A g \in Handlers : g # h => handler'[g] = handler[g]
           /\ handler'[h].at = "batch" /\ handler'[h].then = "none"
           /\ \A i \in 1..Len(handler'[h].pending) :
                 /\ handler'[h].pending[i].id \in announced'
                 /\ handler'[h].pending[i].status = "RAISED"
                       => handler'[h].pending[i].id \notin announced
           /\ \A i, j \in 1..Len(handler'[h].pending) :
                 handler'[h].pending[i].id = handler'[h].pending[j].id => i = j
<1>1. PICK closing \in SUBSET open, raising \in SUBSET Rules :
          /\ Stream!Deliver(closing, raising, raising)
          /\ \E events \in SetToSeqs(Batch(closing, raising)) :
                Goes(h, "batch", events)
  BY DEF Refresh
<1>2. PICK events \in SetToSeqs(Batch(closing, raising)) : Goes(h, "batch", events)
  BY <1>1
<1>i. Typed /\ StreamInv /\ OpenInv
  BY DEF Inv
<1>3. IsFiniteSet(closing) /\ IsFiniteSet(raising)
  BY <1>i, FS_Subset DEF GatewayAssumption, OpenInv
<1>4. /\ IsFiniteSet(Batch(closing, raising))
      /\ IsFiniteSet({Stream!NewEvent(r) : r \in raising})
  BY <1>3, BatchFinite
<1>5. /\ events \in Seq(Batch(closing, raising))
      /\ \A i, j \in 1..Len(events) : events[i] = events[j] => i = j
  BY <1>4, Listed
<1>6. /\ Batch(closing, raising) \subseteq Events
      /\ \A b \in Batch(closing, raising) :
            /\ b.id \in announced \cup {Stream!NewEvent(r) : r \in raising}
            /\ b.status = "RAISED" => b.id \notin announced
      /\ \A b, c \in Batch(closing, raising) : b.id = c.id => b = c
  BY <1>i, Batched
<1>7. StreamInv'
  BY <1>1, <1>i, Delivered
<1>8. /\ announced' = announced \cup {Stream!NewEvent(r) : r \in raising}
      /\ open' = (open \ closing) \cup {Stream!NewEvent(r) : r \in raising}
  BY <1>1 DEF Stream!Deliver
<1>9. OpenInv'
  <2>1. IsFiniteSet(open \ closing)
    BY <1>i, FS_Subset DEF OpenInv
  <2>2. IsFiniteSet(open')
    BY <2>1, <1>4, <1>8, FS_Union
  <2>. QED
    BY <2>2, <1>8, <1>i DEF OpenInv
<1> DEFINE place == [at |-> "batch", then |-> "none", task |-> 0, pending |-> events]
<1>10. events \in Seq(Events) /\ \A i \in 1..Len(events) :
                                   events[i] \in Batch(closing, raising)
  BY <1>5, <1>6
<1>11. place \in Place
  BY <1>10 DEF Place
<1>12. /\ handler' \in [Handlers -> Place] /\ handler'[h] = place
       /\ \A g \in Handlers : g # h => handler'[g] = handler[g]
  BY <1>2, <1>11, <1>i, PlaceWritten DEF Goes
<1>13. \A i \in 1..Len(events) :
           /\ events[i].id \in announced'
           /\ events[i].status = "RAISED" => events[i].id \notin announced
  BY <1>10, <1>6, <1>8
<1>14. \A i, j \in 1..Len(events) : events[i].id = events[j].id => i = j
  BY <1>10, <1>5, <1>6
<1>. QED
  BY <1>7, <1>8, <1>9, <1>12, <1>13, <1>14

\* What the main loop has to handle after a refresh of its own.
LEMMA RefreshedPending ==
    ASSUME GatewayAssumption, Inv, Refresh(Main), dismissed' = dismissed,
           \A t \in DOMAIN tasks' :
               \/ tasks'[t].event = NoEvent
               \/ \E u \in DOMAIN tasks : tasks'[t].event = tasks[u].event
    PROVE  PendingInv'
<1>i. Typed /\ AnnouncedOnce
  BY DEF Inv
<1>1. /\ \A i \in 1..Len(handler'[Main].pending) :
            /\ handler'[Main].pending[i].id \in announced'
            /\ handler'[Main].pending[i].status = "RAISED"
                  => handler'[Main].pending[i].id \notin announced
      /\ \A i, j \in 1..Len(handler'[Main].pending) :
            handler'[Main].pending[i].id = handler'[Main].pending[j].id => i = j
      /\ StreamInv'
  BY Refreshing DEF Handlers
<1>2. \A t \in DOMAIN tasks' : tasks'[t].event \in announced \cup {NoEvent}
  BY <1>i DEF AnnouncedOnce
<1>3. NoEvent \notin announced'
  BY <1>1 DEF StreamInv, Stream!TypeOK, Stream!EventIds, NoEvent
<1>4. dismissed \subseteq announced
  BY <1>i DEF Typed
<1>. QED
  BY <1>1, <1>2, <1>3, <1>4 DEF PendingInv, Pending

------------------------------------------------------------------------------
(* The main loop's steps.                                                  *)

\* A step of the main loop that neither starts nor interrupts a response.
LEMMA GoesOn ==
    ASSUME Inv, Fades, ~Here("gather"),
           handler' \in [Handlers -> Place],
           handler'[Main].at \in {"idle", "batch"},
           GoalInv', PendingInv',
           StreamInv', OpenInv', announced \subseteq announced',
           dismissed' \subseteq announced',
           \A t \in DOMAIN tasks :
               Undisturbed(t) /\ tasks[t].kind = "announce"
                   => tasks[t].event \notin dismissed',
           UNCHANGED <<response_task, response_event_id>>,
           Live(response_task) => Live(response_task)',
           ready' \in BOOLEAN, ready => ready',
           connection' \in {"open", "closing", "closed"},
           connection' = connection \/ response_task = 0,
           ptt_active' \in BOOLEAN,
           ptt_active' => \/ ptt_active
                          \/ response_task = 0 /\ response_event_id = NoEvent,
           voice' \in Nat, pipelines' \in Nat
    PROVE  Inv'
<1>i. Typed /\ AnnouncedOnce /\ PlaceInv /\ IdInv /\ SpeechInv
  BY DEF Inv
<1>d. /\ DOMAIN tasks = 1..Len(tasks) /\ DOMAIN tasks' = 1..Len(tasks)
      /\ Len(tasks) \in Nat /\ response_task \in 0..Len(tasks)
  BY <1>i DEF Typed, Fades
<1>f. \A t \in 1..Len(tasks) :
          /\ tasks'[t].kind = tasks[t].kind
          /\ tasks'[t].event = tasks[t].event
          /\ tasks'[t].cancel => tasks[t].cancel
          /\ Undisturbed(t)' => Undisturbed(t)
  BY DEF Fades
<1>1. Typed'
  <2>1. response_event_id' \in Stream!EventIds \cup {NoEvent}
    BY <1>i DEF Typed
  <2>2. (response_event_id \in Stream!EventIds \cup {NoEvent})'
        <=> response_event_id' \in Stream!EventIds \cup {NoEvent}
    BY DEF Stream!EventIds
  <2>. QED
    BY <2>1, <2>2, <1>i DEF Typed, Fades
<1>2. AnnouncedOnce'
  BY <1>i, <1>d, <1>f DEF AnnouncedOnce
<1>r. response_task # 0 => response_task \in 1..Len(tasks)
  BY <1>d
<1>3. PlaceInv'
  BY <1>i, <1>f, <1>r DEF PlaceInv, Here
<1>4. IdInv'
  <2>1. Live(response_task)' => (Live(response_task))'
    BY DEF Live
  <2>. QED
    BY <2>1, <1>i, <1>f, <1>r DEF IdInv
<1>5. SpeechInv'
  <2> SUFFICES ASSUME NEW t \in 1..Len(tasks), Undisturbed(t)',
                      tasks'[t].kind # "welcome"
               PROVE  /\ t = response_task' /\ ~ptt_active' /\ connection' # "closed"
                      /\ tasks'[t].kind = "announce" =>
                            /\ response_event_id' = tasks'[t].event
                            /\ tasks'[t].event \notin dismissed'
                            /\ ready'
    BY <1>d DEF SpeechInv
  <2>1. /\ t = response_task /\ ~ptt_active /\ connection # "closed" /\ Undisturbed(t)
        /\ tasks[t].kind = "announce" =>
              response_event_id = tasks[t].event /\ ready
    BY <1>i, <1>d, <1>f DEF SpeechInv
  <2>. QED
    BY <2>1, <1>d, <1>f
<1>. QED
  BY <1>1, <1>2, <1>3, <1>4, <1>5 DEF Inv

LEMMA Unfading ==
    ASSUME Typed, tasks' = tasks
    PROVE  Fades
  BY DEF Typed, Fades, Undisturbed, Live

LEMMA MuteFades ==
    ASSUME Typed, tasks' = Mute(tasks, voice)
    PROVE  /\ Fades
           /\ response_task' = response_task =>
                 (Live(response_task) => Live(response_task)')
<1>1. tasks \in Seq(Response) /\ voice \in Nat /\ response_task \in 0..Len(tasks)
  BY DEF Typed
<1> DEFINE m == Mute(tasks, voice)
<1>2. /\ m \in Seq(Response) /\ Len(m) = Len(tasks)
      /\ \A t \in 1..Len(tasks) :
            /\ m[t].kind = tasks[t].kind
            /\ m[t].event = tasks[t].event
            /\ m[t].state = tasks[t].state
            /\ m[t].cancel = tasks[t].cancel
            /\ tasks[t].muted => m[t].muted
  BY <1>1, Muting
<1>3. tasks' = m
  OBVIOUS
<1> HIDE DEF m
<1>. QED
  BY <1>1, <1>2, <1>3 DEF Fades, Undisturbed, Live

LEMMA SameStream ==
    ASSUME StreamInv, OpenInv, UNCHANGED streamVars
    PROVE  StreamInv' /\ OpenInv' /\ announced' = announced
  BY DEF streamVars, StreamInv, OpenInv, Stream!TypeOK, Stream!EventIds,
     Stream!OneOpenEventPerRule, Stream!WithdrawnOnceAnnounced

\* The first pending event, and those after it.
LEMMA FirstPending ==
    ASSUME Typed, PendingInv, Pending # <<>>
    PROVE  /\ Pending \in Seq(Events) /\ Tail(Pending) \in Seq(Events)
           /\ Len(Pending) \in Nat /\ 1 \in 1..Len(Pending)
           /\ Head(Pending) = Pending[1] /\ Pending[1] \in Events
           /\ Pending[1].id \in announced
           /\ Len(Tail(Pending)) = Len(Pending) - 1
           /\ \A i \in 1..Len(Tail(Pending)) :
                 /\ Tail(Pending)[i] = Pending[i + 1]
                 /\ i + 1 \in 1..Len(Pending)
                 /\ Pending[i + 1].id # Pending[1].id
<1>1. handler[Main] \in Place
  BY DEF Typed, Handlers
<1>2. Pending \in Seq(Events)
  BY <1>1 DEF Place, Pending
<1> DEFINE p == Pending
<1>3. p \in Seq(Events) /\ p # <<>>
  BY <1>2
<1>4. /\ \A i \in 1..Len(p) : p[i].id \in announced
      /\ \A i, j \in 1..Len(p) : p[i].id = p[j].id => i = j
  BY DEF PendingInv
<1> HIDE DEF p
<1>5. /\ Len(p) \in Nat /\ Len(p) >= 1 /\ Head(p) = p[1] /\ p[1] \in Events
      /\ Tail(p) \in Seq(Events) /\ Len(Tail(p)) = Len(p) - 1
      /\ \A i \in 1..Len(Tail(p)) : Tail(p)[i] = p[i + 1]
  BY <1>3
<1>6. \A i \in 1..Len(Tail(p)) : i + 1 \in 1..Len(p) /\ i + 1 # 1
  BY <1>5
<1>7. /\ p \in Seq(Events) /\ Tail(p) \in Seq(Events)
      /\ Len(p) \in Nat /\ 1 \in 1..Len(p)
      /\ Head(p) = p[1] /\ p[1] \in Events
      /\ p[1].id \in announced
      /\ Len(Tail(p)) = Len(p) - 1
      /\ \A i \in 1..Len(Tail(p)) :
            /\ Tail(p)[i] = p[i + 1]
            /\ i + 1 \in 1..Len(p)
            /\ p[i + 1].id # p[1].id
  BY <1>3, <1>4, <1>5, <1>6
<1>. QED
  BY <1>7 DEF p

\* Handling the first pending event leaves the rest as it should be.
LEMMA RestPending ==
    ASSUME Typed, PendingInv, Pending # <<>>, handler'[Main].pending = Tail(Pending),
           announced \subseteq announced',
           dismissed' \subseteq dismissed \cup {Pending[1].id},
           \A t \in DOMAIN tasks' :
               \/ tasks'[t].event = Pending[1].id
               \/ \E u \in DOMAIN tasks : tasks'[t].event = tasks[u].event
    PROVE  PendingInv'
<1> DEFINE p == Pending
           rest == Tail(p)
<1>1. /\ Len(p) \in Nat /\ Len(rest) = Len(p) - 1
      /\ \A i \in 1..Len(rest) :
            /\ rest[i] = p[i + 1]
            /\ i + 1 \in 1..Len(p)
            /\ p[i + 1].id # p[1].id
  BY FirstPending
<1>2. /\ \A i \in 1..Len(p) : p[i].id \in announced
      /\ \A i, j \in 1..Len(p) : p[i].id = p[j].id => i = j
      /\ \A i \in 1..Len(p) :
            p[i].status = "RAISED" =>
                /\ p[i].id \notin dismissed
                /\ \A t \in DOMAIN tasks : tasks[t].event # p[i].id
  BY DEF PendingInv
<1>3. Pending' = rest /\ p = Pending
  BY DEF Pending
<1> HIDE DEF p, rest
<1>4. \A i \in 1..Len(rest) : rest[i].id \in announced'
  BY <1>1, <1>2
<1>5. \A i, j \in 1..Len(rest) : rest[i].id = rest[j].id => i = j
  <2> SUFFICES ASSUME NEW i \in 1..Len(rest), NEW j \in 1..Len(rest),
                      rest[i].id = rest[j].id
               PROVE  i = j
    OBVIOUS
  <2>1. i + 1 = j + 1
    BY <1>1, <1>2
  <2>. QED
    BY <2>1, <1>1
<1>6. \A i \in 1..Len(rest) :
          rest[i].status = "RAISED" =>
              /\ rest[i].id \notin dismissed'
              /\ \A t \in DOMAIN tasks' : tasks'[t].event # rest[i].id
  BY <1>1, <1>2, <1>3
<1>. QED
  BY <1>3, <1>4, <1>5, <1>6 DEF PendingInv

LEMMA HandleEndInv ==
    ASSUME Inv, HandleEnd(Main)
    PROVE  Inv'
<1> DEFINE e == Pending[1].id
<1>i. /\ Typed /\ StreamInv /\ OpenInv /\ AnnouncedOnce /\ PendingInv
      /\ PlaceInv /\ GoalInv /\ IdInv /\ SpeechInv
  BY DEF Inv
<1>1. /\ Here("batch") /\ Pending # <<>>
      /\ UNCHANGED streamVars
      /\ UNCHANGED <<connection, ready, ptt_active>>
      /\ UNCHANGED <<voice, pipelines>>
      /\ dismissed' = dismissed \cup {Head(Pending).id}
      /\ IF response_event_id = Head(Pending).id
         THEN InterruptResponse(Main, "batch", Tail(Pending))
         ELSE Goes(Main, "batch", Tail(Pending))
              /\ UNCHANGED <<tasks, response_task, response_event_id>>
  BY DEF HandleEnd, Handling, Pending, Here, stateVars, voiceVars, replyVars
<1>2. /\ Tail(Pending) \in Seq(Events)
      /\ Head(Pending).id = e /\ e \in announced
  BY <1>1, <1>i, FirstPending
<1>3. StreamInv' /\ OpenInv' /\ announced' = announced
  BY <1>1, <1>i, SameStream
<1>4. /\ dismissed' = dismissed \cup {e}
      /\ dismissed' \subseteq announced'
  BY <1>1, <1>2, <1>3, <1>i DEF Typed
<1>5. ready /\ connection = "open" /\ connection \in {"open", "closing", "closed"}
      /\ ready \in BOOLEAN /\ ptt_active \in BOOLEAN
  BY <1>1, <1>i DEF GoalInv, Typed
<1>6. "batch" \in Thens
  BY DEF Thens
<1>7. CASE response_event_id = e
  <2>1. InterruptResponse(Main, "batch", Tail(Pending))
    BY <1>1, <1>2, <1>7
  <2>2. /\ Len(tasks') = Len(tasks) /\ tasks' \in Seq(Response)
        /\ \A t \in 1..Len(tasks) : tasks'[t].event = tasks[t].event
        /\ handler'[Main].at \in {"gather", "interrupted"}
        /\ handler'[Main].then = "batch"
        /\ handler'[Main].pending = Tail(Pending)
    BY <2>1, <1>2, <1>6, Interrupting
  <2>3. PendingInv'
    <3>1. \A t \in DOMAIN tasks' :
              t \in DOMAIN tasks /\ tasks'[t].event = tasks[t].event
      BY <2>2, <1>i DEF Typed
    <3>. QED
      BY <3>1, <2>2, <1>1, <1>3, <1>4, <1>i, RestPending
  <2>4. GoalInv'
    BY <2>2, <1>1, <1>5 DEF GoalInv, Here
  <2>. QED
    BY <2>1, <2>3, <2>4, <1>1, <1>2, <1>3, <1>4, <1>5, <1>6, InterruptInv
<1>8. CASE response_event_id # e
  <2> DEFINE place == [at |-> "batch", then |-> "none", task |-> 0,
                       pending |-> Tail(Pending)]
  <2>1. /\ handler' = [handler EXCEPT ![Main] = place]
        /\ UNCHANGED <<tasks, response_task, response_event_id>>
    BY <1>1, <1>2, <1>8 DEF Goes
  <2>2. place \in Place
    BY <1>2 DEF Place
  <2>3. handler' \in [Handlers -> Place] /\ handler'[Main] = place
    BY <2>1, <2>2, <1>i, PlaceWritten DEF Handlers
  <2>4. PendingInv'
    BY <2>1, <2>3, <1>1, <1>3, <1>4, <1>i, RestPending
  <2>5. GoalInv'
    BY <2>3, <1>1, <1>5 DEF GoalInv, Here
  <2>6. Fades
    BY <2>1, <1>i, Unfading
  <2>7. \A t \in DOMAIN tasks :
            Undisturbed(t) /\ tasks[t].kind = "announce"
                => tasks[t].event \notin dismissed'
    BY <1>4, <1>8, <1>i DEF SpeechInv
  <2>8. Live(response_task) => Live(response_task)'
    BY <2>1 DEF Live
  <2>9. ~Here("gather")
    BY <1>1 DEF Here
  <2>10. voice' \in Nat /\ pipelines' \in Nat
    BY <1>1, <1>i DEF Typed
  <2>. QED
    BY <2>1, <2>3, <2>4, <2>5, <2>6, <2>7, <2>8, <2>9, <2>10,
       <1>1, <1>3, <1>4, <1>5, GoesOn
<1>. QED
  BY <1>7, <1>8

LEMMA HandleRaiseInv ==
    ASSUME Inv, HandleRaise(Main)
    PROVE  Inv'
<1> DEFINE e == Pending[1].id
<1>i. /\ Typed /\ StreamInv /\ OpenInv /\ AnnouncedOnce /\ PendingInv
      /\ PlaceInv /\ GoalInv /\ IdInv /\ SpeechInv
  BY DEF Inv
<1>1. /\ Here("batch") /\ Pending # <<>>
      /\ Head(Pending).status = "RAISED"
      /\ UNCHANGED streamVars
      /\ UNCHANGED <<connection, ready, ptt_active>>
      /\ UNCHANGED <<voice, pipelines>>
      /\ dismissed' = dismissed
  BY DEF HandleRaise, Handling, Pending, Here, stateVars, voiceVars
<1>2. /\ Tail(Pending) \in Seq(Events) /\ Pending \in Seq(Events)
      /\ Head(Pending).id = e /\ e \in announced
      /\ Head(Pending) = Pending[1] /\ 1 \in 1..Len(Pending)
  BY <1>1, <1>i, FirstPending
<1>3. StreamInv' /\ OpenInv' /\ announced' = announced
  BY <1>1, <1>i, SameStream
<1>4. /\ dismissed' \subseteq announced' /\ e \in Stream!EventIds
      /\ e \notin dismissed
      /\ \A t \in DOMAIN tasks : tasks[t].event # e
  BY <1>1, <1>2, <1>3, <1>i DEF Typed, PendingInv, StreamInv, Stream!TypeOK
<1>5. ready /\ connection = "open" /\ connection \in {"open", "closing", "closed"}
      /\ ready \in BOOLEAN /\ ptt_active \in BOOLEAN
  BY <1>1, <1>i DEF GoalInv, Typed
<1>9. /\ ~Here("gather")
      /\ voice' \in Nat /\ pipelines' \in Nat
  BY <1>1, <1>i DEF Typed, Here
<1> DEFINE place == [at |-> "batch", then |-> "none", task |-> 0,
                     pending |-> Tail(Pending)]
<1>6. ASSUME Goes(Main, "batch", Tail(Pending))
      PROVE  /\ handler' \in [Handlers -> Place]
             /\ handler'[Main] = place
             /\ GoalInv'
  <2>1. place \in Place
    BY <1>2 DEF Place
  <2>2. handler' = [handler EXCEPT ![Main] = place]
    BY <1>6 DEF Goes
  <2>3. handler' \in [Handlers -> Place] /\ handler'[Main] = place
    BY <2>1, <2>2, <1>i, PlaceWritten DEF Handlers
  <2>. QED
    BY <2>3, <1>1, <1>5 DEF GoalInv, Here
<1>7. CASE /\ Goes(Main, "batch", Tail(Pending))
           /\ UNCHANGED <<tasks, response_task, response_event_id>>
  <2>1. /\ handler' \in [Handlers -> Place] /\ handler'[Main] = place /\ GoalInv'
    BY <1>6, <1>7
  <2>2. PendingInv'
    BY <2>1, <1>7, <1>1, <1>3, <1>i, RestPending
  <2>3. Fades
    BY <1>7, <1>i, Unfading
  <2>4. \A t \in DOMAIN tasks :
            Undisturbed(t) /\ tasks[t].kind = "announce"
                => tasks[t].event \notin dismissed'
    BY <1>1, <1>i DEF SpeechInv
  <2>5. Live(response_task) => Live(response_task)'
    BY <1>7 DEF Live
  <2>. QED
    BY <2>1, <2>2, <2>3, <2>4, <2>5, <1>7, <1>1, <1>3, <1>4, <1>5, <1>9, GoesOn
<1>8. CASE ~ptt_active /\ InterruptResponse(Main, "speak", Pending)
  <2>1. "speak" \in Thens
    BY DEF Thens
  <2>2. /\ Len(tasks') = Len(tasks) /\ tasks' \in Seq(Response)
        /\ \A t \in 1..Len(tasks) : tasks'[t].event = tasks[t].event
        /\ handler'[Main].at \in {"gather", "interrupted"}
        /\ handler'[Main].then = "speak"
        /\ handler'[Main].pending = Pending
    BY <2>1, <1>8, <1>2, Interrupting
  <2>3. PendingInv'
    <3>1. DOMAIN tasks' = 1..Len(tasks) /\ DOMAIN tasks = 1..Len(tasks)
      BY <2>2, <1>i DEF Typed
    <3>2. Pending' = Pending
      BY <2>2 DEF Pending
    <3>. QED
      BY <3>1, <3>2, <2>2, <1>1, <1>3, <1>i DEF PendingInv
  <2>4. GoalInv'
    BY <2>2, <1>8, <1>1, <1>5 DEF GoalInv, Here, Pending
  <2>. QED
    BY <2>1, <2>3, <2>4, <1>8, <1>1, <1>2, <1>3, <1>4, <1>5, InterruptInv
<1>10. CASE /\ ~ptt_active /\ ~Live(response_task)
            /\ Start("announce", e) /\ response_event_id' = e
            /\ Goes(Main, "batch", Tail(Pending))
  <2>1. /\ handler' \in [Handlers -> Place] /\ handler'[Main] = place /\ GoalInv'
    BY <1>6, <1>10
  <2>2. \A t \in DOMAIN tasks : Undisturbed(t) => tasks[t].kind = "welcome"
    BY <1>10, <1>i DEF SpeechInv, Undisturbed
  <2>3. "announce" \in Kinds
    BY DEF Kinds
  <2>4. /\ tasks' \in Seq(Response) /\ Len(tasks') = Len(tasks) + 1
        /\ Len(tasks) \in Nat /\ DOMAIN tasks = 1..Len(tasks)
        /\ \A t \in 1..Len(tasks) : tasks'[t] = tasks[t]
        /\ tasks'[Len(tasks) + 1].event = e
    BY <2>3, <1>4, <1>10, <1>i, Starting DEF Typed
  <2>5. PendingInv'
    <3>1. \A t \in DOMAIN tasks' :
              \/ tasks'[t].event = e
              \/ t \in DOMAIN tasks /\ tasks'[t].event = tasks[t].event
      BY <2>4
    <3>. QED
      BY <3>1, <2>1, <1>1, <1>3, <1>i, RestPending
  <2>. QED
    BY <2>1, <2>2, <2>3, <2>5, <1>10, <1>1, <1>2, <1>3, <1>4, <1>5, StartInv
<1>. QED
  BY <1>1, <1>2, <1>7, <1>8, <1>10 DEF HandleRaise, Dropped, Pending, replyVars

LEMMA AnnounceInv ==
    ASSUME Inv, Announce(Main)
    PROVE  Inv'
<1> DEFINE e == Pending[1].id
<1>i. /\ Typed /\ StreamInv /\ OpenInv /\ AnnouncedOnce /\ PendingInv
      /\ PlaceInv /\ GoalInv /\ IdInv /\ SpeechInv
  BY DEF Inv
<1>1. /\ Here("interrupted") /\ handler[Main].then = "speak"
      /\ UNCHANGED streamVars
      /\ UNCHANGED <<connection, ready, ptt_active>>
      /\ UNCHANGED <<voice, pipelines>>
      /\ dismissed' = dismissed
      /\ Start("announce", Head(Pending).id)
      /\ response_event_id' = Head(Pending).id
      /\ Goes(Main, "batch", Tail(Pending))
  BY DEF Announce, At, Pending, Here, stateVars, voiceVars, idVars
<1>2. /\ ready /\ ~ptt_active /\ connection = "open"
      /\ Pending # <<>> /\ Head(Pending).status = "RAISED"
  BY <1>1, <1>i DEF GoalInv
<1>3. /\ Tail(Pending) \in Seq(Events)
      /\ Head(Pending).id = e /\ e \in announced
      /\ Head(Pending) = Pending[1] /\ 1 \in 1..Len(Pending)
  BY <1>2, <1>i, FirstPending
<1>4. StreamInv' /\ OpenInv' /\ announced' = announced
  BY <1>1, <1>i, SameStream
<1>5. /\ e \in Stream!EventIds /\ e \notin dismissed
      /\ \A t \in DOMAIN tasks : tasks[t].event # e
  BY <1>2, <1>3, <1>i DEF PendingInv, StreamInv, Stream!TypeOK
<1> DEFINE place == [at |-> "batch", then |-> "none", task |-> 0,
                     pending |-> Tail(Pending)]
<1>6. handler' \in [Handlers -> Place] /\ handler'[Main] = place /\ GoalInv'
  <2>1. place \in Place
    BY <1>3 DEF Place
  <2>2. handler' = [handler EXCEPT ![Main] = place]
    BY <1>1 DEF Goes
  <2>3. handler' \in [Handlers -> Place] /\ handler'[Main] = place
    BY <2>1, <2>2, <1>i, PlaceWritten DEF Handlers
  <2>. QED
    BY <2>3, <1>1, <1>2 DEF GoalInv, Here
<1>7. \A t \in DOMAIN tasks : Undisturbed(t) => tasks[t].kind = "welcome"
  BY <1>1, <1>i DEF SpeechInv, PlaceInv, Undisturbed, Live
<1>8. "announce" \in Kinds
  BY DEF Kinds
<1>9. /\ tasks' \in Seq(Response) /\ Len(tasks') = Len(tasks) + 1
      /\ Len(tasks) \in Nat /\ DOMAIN tasks = 1..Len(tasks)
      /\ \A t \in 1..Len(tasks) : tasks'[t] = tasks[t]
      /\ tasks'[Len(tasks) + 1].event = e
  BY <1>1, <1>3, <1>5, <1>8, <1>i, Starting DEF Typed
<1>10. PendingInv'
  <2>1. \A t \in DOMAIN tasks' :
            \/ tasks'[t].event = e
            \/ t \in DOMAIN tasks /\ tasks'[t].event = tasks[t].event
    BY <1>9
  <2>. QED
    BY <2>1, <1>6, <1>1, <1>2, <1>4, <1>i, RestPending
<1>11. ready' \in BOOLEAN /\ ptt_active' \in BOOLEAN
  BY <1>1, <1>i DEF Typed
<1>. QED
  BY <1>1, <1>2, <1>3, <1>4, <1>5, <1>6, <1>7, <1>8, <1>10, <1>11, StartInv

LEMMA ProceedInv ==
    ASSUME Inv, Proceed(Main)
    PROVE  Inv'
<1>i. /\ Typed /\ StreamInv /\ OpenInv /\ PendingInv
      /\ PlaceInv /\ GoalInv /\ SpeechInv
  BY DEF Inv
<1>1. /\ UNCHANGED streamVars
      /\ UNCHANGED <<connection, ready, ptt_active>>
      /\ UNCHANGED <<tasks, response_task, response_event_id>>
      /\ UNCHANGED <<voice, pipelines>>
      /\ dismissed' = dismissed /\ ~Here("gather")
      /\ \/ handler[Main].then = "batch" /\ Goes(Main, "batch", Pending)
         \/ Goes(Main, "idle", <<>>)
  BY DEF Proceed, At, Pending, Here, stateVars, voiceVars, idVars, replyVars
<1>2. handler[Main] \in Place /\ Pending \in Seq(Events)
  BY <1>i DEF Typed, Handlers, Place, Pending
<1>3. PICK at \in {"idle", "batch"}, pending \in {Pending, <<>>} :
          /\ Goes(Main, at, pending)
          /\ at = "batch" => handler[Main].then = "batch"
  BY <1>1
<1> DEFINE place == [at |-> at, then |-> "none", task |-> 0, pending |-> pending]
<1>4. place \in Place
  <2>1. pending \in Seq(Events)
    <3>1. CASE pending = Pending
      BY <3>1, <1>2
    <3>2. CASE pending = <<>>
      BY <3>2
    <3>. QED
      BY <3>1, <3>2
  <2>. QED
    BY <2>1 DEF Place
<1>5. handler' = [handler EXCEPT ![Main] = place]
  BY <1>3 DEF Goes
<1>6. handler' \in [Handlers -> Place] /\ handler'[Main] = place
  BY <1>4, <1>5, <1>i, PlaceWritten DEF Handlers
<1>7. StreamInv' /\ OpenInv' /\ announced' = announced
  BY <1>1, <1>i, SameStream
<1>8. PendingInv'
  <2>1. Pending' \in {Pending, <<>>}
    BY <1>6 DEF Pending
  <2>2. CASE Pending' = Pending
    BY <2>2, <1>1, <1>7, <1>i DEF PendingInv
  <2>3. CASE Pending' = <<>>
    BY <2>3 DEF PendingInv
  <2>. QED
    BY <2>1, <2>2, <2>3
<1>9. GoalInv'
  BY <1>1, <1>3, <1>6, <1>i DEF GoalInv, Here
<1>10. Fades /\ (Live(response_task) => Live(response_task)')
  BY <1>1, <1>i, Unfading DEF Live
<1>11. \A t \in DOMAIN tasks :
           Undisturbed(t) /\ tasks[t].kind = "announce"
               => tasks[t].event \notin dismissed'
  BY <1>1, <1>i DEF SpeechInv
<1>12. /\ dismissed' \subseteq announced'
       /\ ready' \in BOOLEAN /\ ptt_active' \in BOOLEAN
       /\ connection' \in {"open", "closing", "closed"}
       /\ voice' \in Nat /\ pipelines' \in Nat
  BY <1>1, <1>7, <1>i DEF Typed
<1>. QED
  BY <1>1, <1>6, <1>7, <1>8, <1>9, <1>10, <1>11, <1>12, GoesOn

LEMMA ResumeInv ==
    ASSUME Inv, Resume(Main)
    PROVE  Inv'
<1>i. /\ Typed /\ StreamInv /\ OpenInv /\ AnnouncedOnce /\ PendingInv
      /\ PlaceInv /\ GoalInv /\ SpeechInv
  BY DEF Inv
<1>1. /\ UNCHANGED streamVars
      /\ UNCHANGED <<connection, ready, ptt_active>>
      /\ UNCHANGED <<voice, pipelines, tasks>>
      /\ dismissed' = dismissed /\ Here("gather")
      /\ response_task' = 0 /\ response_event_id' = NoEvent
      /\ handler' = [handler EXCEPT ![Main].at = "interrupted", ![Main].task = 0]
  BY DEF Resume, Here, stateVars, voiceVars, idVars
<1>2. handler[Main] \in Place
  BY <1>i DEF Typed, Handlers
<1> DEFINE place == [handler[Main] EXCEPT !.at = "interrupted", !.task = 0]
<1>3. /\ place \in Place
      /\ place.at = "interrupted" /\ place.then = handler[Main].then
      /\ place.pending = Pending
  BY <1>2 DEF Place, Pending
<1>4. handler' \in [Handlers -> Place] /\ handler'[Main] = place
  <2>1. handler' = [handler EXCEPT ![Main] = place]
    BY <1>1, <1>i DEF Typed, Handlers
  <2>. QED
    BY <2>1, <1>3, <1>i, PlaceWritten DEF Handlers
<1> HIDE DEF place
<1>5. StreamInv' /\ OpenInv' /\ announced' = announced
  BY <1>1, <1>i, SameStream
<1>6. Typed'
  <2>1. (response_event_id \in Stream!EventIds \cup {NoEvent})'
    BY <1>1
  <2>2. response_task' \in 0..Len(tasks')
    BY <1>1, <1>i DEF Typed
  <2>. QED
    BY <2>1, <2>2, <1>1, <1>4, <1>5, <1>i DEF Typed
<1>7. AnnouncedOnce'
  BY <1>1, <1>5, <1>i DEF AnnouncedOnce
<1>8. Pending' = Pending
  BY <1>3, <1>4 DEF Pending
<1>9. PendingInv'
  BY <1>1, <1>5, <1>8, <1>i DEF PendingInv
<1>10. PlaceInv'
  BY <1>1, <1>3, <1>4 DEF PlaceInv, Here
<1>11. GoalInv'
  BY <1>1, <1>3, <1>4, <1>8, <1>i DEF GoalInv, Here
<1>12. IdInv'
  BY <1>1 DEF IdInv
<1>13. SpeechInv'
  <2> SUFFICES ASSUME NEW t \in DOMAIN tasks, Undisturbed(t)',
                      tasks[t].kind # "welcome"
               PROVE  FALSE
    BY <1>1 DEF SpeechInv
  <2>1. Undisturbed(t)
    BY <1>1 DEF Undisturbed, Live
  <2>. QED
    BY <2>1, <1>1, <1>i DEF SpeechInv, PlaceInv
<1>. QED
  BY <1>5, <1>6, <1>7, <1>9, <1>10, <1>11, <1>12, <1>13 DEF Inv

\* A step of another coroutine that leaves the responses alone.
LEMMA Elsewhere ==
    ASSUME Inv, handler' \in [Handlers -> Place], handler'[Main] = handler[Main],
           StreamInv', OpenInv', announced \subseteq announced',
           UNCHANGED <<connection, ready, ptt_active>>,
           UNCHANGED <<tasks, response_task, response_event_id>>,
           UNCHANGED <<dismissed, voice, pipelines>>
    PROVE  Inv'
<1>i. /\ Typed /\ AnnouncedOnce /\ PendingInv
      /\ PlaceInv /\ GoalInv /\ IdInv /\ SpeechInv
  BY DEF Inv
<1>1. Typed'
  <2>1. (response_event_id \in Stream!EventIds \cup {NoEvent})'
    BY <1>i DEF Typed, Stream!EventIds
  <2>. QED
    BY <2>1, <1>i DEF Typed
<1>2. AnnouncedOnce'
  BY <1>i DEF AnnouncedOnce
<1>3. PendingInv'
  BY <1>i DEF PendingInv, Pending
<1>4. PlaceInv' /\ GoalInv' /\ IdInv' /\ SpeechInv'
  BY <1>i DEF PlaceInv, GoalInv, IdInv, SpeechInv, Here, Pending, Undisturbed, Live
<1>. QED
  BY <1>1, <1>2, <1>3, <1>4 DEF Inv

\* A message that refreshes: what its events may not disturb.
LEMMA RefreshInv ==
    ASSUME GatewayAssumption, Inv, Refresh(Main), ~Here("gather"),
           ready' = TRUE, connection = "open",
           UNCHANGED <<tasks, response_task, response_event_id>>,
           UNCHANGED <<connection, ptt_active, dismissed, voice, pipelines>>
    PROVE  Inv'
<1>i. Typed /\ SpeechInv
  BY DEF Inv
<1>1. /\ StreamInv' /\ OpenInv' /\ announced \subseteq announced'
      /\ handler' \in [Handlers -> Place]
      /\ handler'[Main].at = "batch" /\ handler'[Main].then = "none"
  BY Refreshing DEF Handlers
<1>2. PendingInv'
  BY RefreshedPending
<1>3. GoalInv'
  BY <1>1 DEF GoalInv, Here
<1>4. Fades /\ (Live(response_task) => Live(response_task)')
  BY <1>i, Unfading DEF Live
<1>5. /\ dismissed' \subseteq announced'
      /\ ready' \in BOOLEAN /\ ptt_active' \in BOOLEAN
      /\ connection' \in {"open", "closing", "closed"}
      /\ voice' \in Nat /\ pipelines' \in Nat
  BY <1>1, <1>i DEF Typed
<1>6. \A t \in DOMAIN tasks :
          Undisturbed(t) /\ tasks[t].kind = "announce"
              => tasks[t].event \notin dismissed'
  BY <1>i DEF SpeechInv
<1>. QED
  BY <1>1, <1>2, <1>3, <1>4, <1>5, <1>6, GoesOn

LEMMA SnapshotInv ==
    ASSUME GatewayAssumption, Inv, Snapshot
    PROVE  Inv'
<1>i. Typed /\ AnnouncedOnce /\ IdInv /\ SpeechInv
  BY DEF Inv
<1>1. /\ Refresh(Main) /\ ready' = TRUE /\ connection = "open" /\ ~Here("gather")
      /\ UNCHANGED <<connection, ptt_active, response_event_id>>
      /\ UNCHANGED <<dismissed, voice, pipelines>>
  BY DEF Snapshot, MainIdle, Here, idVars, voiceVars
<1>2. CASE Live(response_task)
  BY <1>1, <1>2, RefreshInv DEF Snapshot
<1>3. CASE ~Live(response_task)
  <2>1. Start("welcome", NoEvent) /\ "welcome" \in Kinds
    BY <1>3 DEF Snapshot, Kinds
  <2>2. /\ StreamInv' /\ OpenInv' /\ announced \subseteq announced'
        /\ handler' \in [Handlers -> Place]
        /\ handler'[Main].at = "batch" /\ handler'[Main].then = "none"
    BY <1>1, Refreshing DEF Handlers
  <2>3. /\ tasks' \in Seq(Response) /\ Len(tasks') = Len(tasks) + 1
        /\ Len(tasks) \in Nat /\ DOMAIN tasks = 1..Len(tasks)
        /\ \A t \in 1..Len(tasks) : tasks'[t] = tasks[t]
        /\ tasks'[Len(tasks) + 1].event = NoEvent
    BY <2>1, <1>i, Starting DEF Typed
  <2>4. PendingInv'
    <3>1. \A t \in DOMAIN tasks' :
              \/ tasks'[t].event = NoEvent
              \/ t \in DOMAIN tasks /\ tasks'[t].event = tasks[t].event
      BY <2>3
    <3>. QED
      BY <3>1, <1>1, RefreshedPending
  <2>5. GoalInv'
    BY <2>2, <1>1 DEF GoalInv, Here
  <2>6. response_event_id = NoEvent
    BY <1>1, <1>3, <1>i DEF IdInv
  <2>7. \A t \in DOMAIN tasks : Undisturbed(t) => tasks[t].kind = "welcome"
    BY <1>3, <1>i DEF SpeechInv, Undisturbed
  <2>8. ready' \in BOOLEAN /\ ptt_active' \in BOOLEAN
    BY <1>1, <1>i DEF Typed
  <2>. QED
    BY <2>1, <2>2, <2>4, <2>5, <2>6, <2>7, <2>8, <1>1, StartInv
<1>. QED
  BY <1>2, <1>3

LEMMA DeltaInv ==
    ASSUME GatewayAssumption, Inv, Delta
    PROVE  Inv'
<1>1. /\ Refresh(Main) /\ ready' = TRUE /\ connection = "open" /\ ~Here("gather")
      /\ UNCHANGED <<tasks, response_task, response_event_id>>
      /\ UNCHANGED <<connection, ptt_active, dismissed, voice, pipelines>>
  BY DEF Delta, MainIdle, Here, idVars, voiceVars, stateVars, replyVars, Inv, Typed
<1>. QED
  BY <1>1, RefreshInv

\* A message that empties the stream: no event is left to be open.
LEMMA StreamEmptied ==
    ASSUME Inv, Stream!Deliver(open, {}, {})
    PROVE  StreamInv' /\ OpenInv' /\ announced' = announced
<1>1. StreamInv
  BY DEF Inv
<1>2. open' = {} /\ announced' = announced
  BY DEF Stream!Deliver
<1>3. StreamInv'
  BY <1>1, Delivered
<1>4. OpenInv'
  BY <1>2, FS_EmptySet DEF OpenInv
<1>. QED
  BY <1>2, <1>3, <1>4

\* A message that interrupts and leaves nothing pending.
LEMMA SilenceInv ==
    ASSUME Inv, NEW then \in Thens \ {"batch", "speak"},
           InterruptResponse(Main, then, <<>>),
           StreamInv', OpenInv', announced' = announced,
           connection' \in {"open", "closing", "closed"}, ready' \in BOOLEAN,
           ready' => connection' = "open" /\ then # "close",
           UNCHANGED <<ptt_active, dismissed, voice, pipelines>>
    PROVE  Inv'
<1>i. Typed
  BY DEF Inv
<1>t. then \in Thens /\ <<>> \in Seq(Events)
  OBVIOUS
<1>1. /\ handler'[Main].at \in {"gather", "interrupted"}
      /\ handler'[Main].then = then
      /\ handler'[Main].pending = <<>>
  BY <1>t, Interrupting
<1>2. GoalInv'
  BY <1>1 DEF GoalInv, Here
<1>3. PendingInv'
  BY <1>1 DEF PendingInv, Pending
<1>4. dismissed' \subseteq announced'
  BY <1>i DEF Typed
<1>. QED
  BY <1>t, <1>2, <1>3, <1>4, InterruptInv

LEMMA InterruptionInv ==
    ASSUME Inv, NewEpoch \/ PttStart \/ AssistantInterrupt \/ Disconnect
    PROVE  Inv'
<1>i. /\ Typed /\ StreamInv /\ OpenInv /\ GoalInv
  BY DEF Inv
<1>t. {"reset", "ptt", "none", "close"} \subseteq Thens \ {"batch", "speak"}
  BY DEF Thens
<1>1. CASE NewEpoch
  <2>1. /\ Stream!Deliver(open, {}, {}) /\ InterruptResponse(Main, "reset", <<>>)
        /\ ready' = FALSE
        /\ UNCHANGED <<connection, ptt_active, dismissed, voice, pipelines>>
    BY <1>1 DEF NewEpoch, idVars, voiceVars
  <2>2. connection' \in {"open", "closing", "closed"} /\ ready' \in BOOLEAN
    BY <2>1, <1>i DEF Typed
  <2>3. StreamInv' /\ OpenInv' /\ announced' = announced
    BY <2>1, StreamEmptied
  <2>. QED
    BY <2>1, <2>2, <2>3, <1>t, SilenceInv
<1>2. CASE Disconnect
  <2>1. /\ Stream!Deliver(open, {}, {}) /\ InterruptResponse(Main, "close", <<>>)
        /\ ready' = FALSE /\ connection' = "closing"
        /\ UNCHANGED <<ptt_active, dismissed, voice, pipelines>>
    BY <1>2 DEF Disconnect, idVars, voiceVars
  <2>2. StreamInv' /\ OpenInv' /\ announced' = announced
    BY <2>1, StreamEmptied
  <2>. QED
    BY <2>1, <2>2, <1>t, SilenceInv
<1>3. CASE PttStart \/ AssistantInterrupt
  <2>1. PICK then \in {"ptt", "none"} : InterruptResponse(Main, then, <<>>)
    BY <1>3 DEF PttStart, AssistantInterrupt
  <2>2. /\ UNCHANGED streamVars
        /\ UNCHANGED <<connection, ready>>
        /\ UNCHANGED <<ptt_active, dismissed, voice, pipelines>>
    BY <1>3 DEF PttStart, AssistantInterrupt, stateVars, idVars, voiceVars
  <2>3. /\ connection' \in {"open", "closing", "closed"} /\ ready' \in BOOLEAN
        /\ ready' => connection' = "open"
    BY <2>2, <1>i DEF Typed, GoalInv
  <2>4. StreamInv' /\ OpenInv' /\ announced' = announced
    BY <2>2, <1>i, SameStream
  <2>. QED
    BY <2>1, <2>2, <2>3, <2>4, <1>t, SilenceInv
<1>. QED
  BY <1>1, <1>2, <1>3

\* A reply that has nothing to do with events.
LEMMA ReplyInv ==
    ASSUME Inv, NEW kind \in {"coach", "turn"}, Start(kind, NoEvent),
           ~Here("gather"), handler[Main].at = "idle", connection = "open",
           \A t \in DOMAIN tasks : Undisturbed(t) => tasks[t].kind = "welcome",
           response_event_id = NoEvent, ptt_active' = FALSE,
           UNCHANGED streamVars,
           UNCHANGED <<connection, ready, response_event_id, dismissed, handler>>,
           UNCHANGED <<voice, pipelines>>
    PROVE  Inv'
<1>i. /\ Typed /\ StreamInv /\ OpenInv /\ AnnouncedOnce /\ PendingInv /\ GoalInv
  BY DEF Inv
<1>1. StreamInv' /\ OpenInv' /\ announced' = announced
  BY <1>i, SameStream
<1>2. GoalInv'
  BY <1>i DEF GoalInv, Here, Pending
<1>3. kind \in Kinds
  BY DEF Kinds
<1>4. /\ tasks' \in Seq(Response) /\ Len(tasks') = Len(tasks) + 1
      /\ Len(tasks) \in Nat /\ DOMAIN tasks = 1..Len(tasks)
      /\ \A t \in 1..Len(tasks) : tasks'[t] = tasks[t]
      /\ tasks'[Len(tasks) + 1].event = NoEvent
  BY <1>3, <1>i, Starting DEF Typed
<1>5. PendingInv'
  <2>1. Pending' = Pending
    BY DEF Pending
  <2>2. \A t \in DOMAIN tasks' :
            \/ tasks'[t].event = NoEvent
            \/ t \in DOMAIN tasks /\ tasks'[t].event = tasks[t].event
    BY <1>4
  <2>3. NoEvent \notin announced
    BY <1>i DEF StreamInv, Stream!TypeOK, Stream!EventIds, NoEvent
  <2>. QED
    BY <2>1, <2>2, <2>3, <1>1, <1>i DEF PendingInv
<1>6. /\ ready' \in BOOLEAN /\ ptt_active' \in BOOLEAN
      /\ handler' \in [Handlers -> Place]
      /\ handler'[Main].at = "idle"
  BY <1>i DEF Typed
<1>. QED
  BY <1>1, <1>2, <1>3, <1>5, <1>6, StartInv

LEMMA CoachFeedbackInv ==
    ASSUME Inv, CoachFeedback
    PROVE  Inv'
<1>i. Typed /\ IdInv /\ SpeechInv
  BY DEF Inv
<1>1. /\ Start("coach", NoEvent) /\ ~Live(response_task) /\ ~ptt_active
      /\ handler[Main].at = "idle" /\ ~Here("gather") /\ connection = "open"
      /\ UNCHANGED streamVars
      /\ UNCHANGED <<connection, ready, response_event_id, dismissed, handler>>
      /\ UNCHANGED <<ptt_active, voice, pipelines>>
  BY DEF CoachFeedback, MainIdle, Here, stateVars, idVars, voiceVars
<1>2. ptt_active' = FALSE
  BY <1>1, <1>i DEF Typed
<1>3. response_event_id = NoEvent
  BY <1>1, <1>i DEF IdInv
<1>4. \A t \in DOMAIN tasks : Undisturbed(t) => tasks[t].kind = "welcome"
  BY <1>1, <1>i DEF SpeechInv, Undisturbed
<1>. QED
  BY <1>1, <1>2, <1>3, <1>4, ReplyInv

\* Mute or not, a step to the idle loop after an interruption.
LEMMA RestInv ==
    ASSUME Inv, Here("interrupted"), Goes(Main, "idle", <<>>),
           Fades, Live(response_task) => Live(response_task)',
           UNCHANGED streamVars,
           UNCHANGED <<response_task, response_event_id, dismissed, ready>>,
           connection' = connection \/ (connection' = "closed" /\ ~ready),
           ptt_active' \in BOOLEAN, voice' \in Nat, pipelines' \in Nat
    PROVE  Inv'
<1>i. /\ Typed /\ StreamInv /\ OpenInv /\ PlaceInv /\ GoalInv /\ SpeechInv
  BY DEF Inv
<1>1. StreamInv' /\ OpenInv' /\ announced' = announced
  BY <1>i, SameStream
<1> DEFINE place == [at |-> "idle", then |-> "none", task |-> 0, pending |-> <<>>]
<1>2. place \in Place
  BY DEF Place
<1>3. handler' = [handler EXCEPT ![Main] = place]
  BY DEF Goes
<1>4. handler' \in [Handlers -> Place] /\ handler'[Main] = place
  BY <1>2, <1>3, <1>i, PlaceWritten DEF Handlers
<1>5. GoalInv'
  BY <1>4, <1>i DEF GoalInv, Here
<1>6. PendingInv'
  BY <1>4 DEF PendingInv, Pending
<1>7. response_task = 0 /\ response_event_id = NoEvent /\ ~Here("gather")
  BY <1>i DEF PlaceInv, Here
<1>8. \A t \in DOMAIN tasks :
          Undisturbed(t) /\ tasks[t].kind = "announce"
              => tasks[t].event \notin dismissed'
  BY <1>i DEF SpeechInv
<1>9. /\ dismissed' \subseteq announced' /\ ready' \in BOOLEAN
      /\ connection' \in {"open", "closing", "closed"}
  BY <1>1, <1>i DEF Typed
<1>. QED
  BY <1>1, <1>4, <1>5, <1>6, <1>7, <1>8, <1>9, GoesOn

LEMMA MainStepInv ==
    ASSUME Inv, MainStep
    PROVE  Inv'
<1>i. Typed /\ GoalInv
  BY DEF Inv
<1>f. tasks' = tasks \/ tasks' = Mute(tasks, voice) =>
          Fades /\ (response_task' = response_task =>
                        (Live(response_task) => Live(response_task)'))
  BY <1>i, Unfading, MuteFades DEF Live
<1>v. voice \in Nat /\ pipelines \in Nat /\ ptt_active \in BOOLEAN
  BY <1>i DEF Typed
<1>1. CASE ResetAssistant
  <2>1. /\ Here("interrupted") /\ Goes(Main, "idle", <<>>)
        /\ tasks' = Mute(tasks, voice) /\ voice' \in Nat /\ pipelines' \in Nat
        /\ connection' = connection /\ ptt_active' \in BOOLEAN
        /\ UNCHANGED streamVars
        /\ UNCHANGED <<response_task, response_event_id, dismissed, ready>>
    BY <1>1, <1>v DEF ResetAssistant, At, Here, stateVars
  <2>2. Fades /\ (Live(response_task) => Live(response_task)')
    BY <2>1, <1>f
  <2>. QED
    BY <2>1, <2>2, RestInv
<1>2. CASE StartPtt
  <2>1. /\ Here("interrupted") /\ Goes(Main, "idle", <<>>)
        /\ tasks' = tasks /\ ptt_active' \in BOOLEAN
        /\ voice' \in Nat /\ pipelines' \in Nat /\ connection' = connection
        /\ UNCHANGED streamVars
        /\ UNCHANGED <<response_task, response_event_id, dismissed, ready>>
    BY <1>2, <1>v DEF StartPtt, At, Here, replyVars, idVars, voiceVars
  <2>2. Fades /\ (Live(response_task) => Live(response_task)')
    BY <2>1, <1>f
  <2>. QED
    BY <2>1, <2>2, RestInv
<1>3. CASE Cleanup
  <2>1. /\ Here("interrupted") /\ Goes(Main, "idle", <<>>)
        /\ handler[Main].then = "close"
        /\ tasks' = Mute(tasks, voice) /\ connection' = "closed"
        /\ ptt_active' \in BOOLEAN /\ voice' \in Nat /\ pipelines' \in Nat
        /\ UNCHANGED streamVars
        /\ UNCHANGED <<response_task, response_event_id, dismissed, ready>>
    BY <1>3, <1>v DEF Cleanup, At, Here, idVars, voiceVars
  <2>2. Fades /\ (Live(response_task) => Live(response_task)')
    BY <2>1, <1>f
  <2>3. ~ready
    BY <2>1, <1>i DEF GoalInv
  <2>. QED
    BY <2>1, <2>2, <2>3, RestInv
<1>. QED
  BY <1>1, <1>2, <1>3 DEF MainStep

LEMMA PttEndInv ==
    ASSUME Inv, PttEnd
    PROVE  Inv'
<1>i. /\ Typed /\ StreamInv /\ OpenInv /\ PendingInv
      /\ GoalInv /\ IdInv /\ SpeechInv
  BY DEF Inv
<1>1. /\ handler[Main].at = "idle" /\ ~Here("gather") /\ connection = "open"
      /\ ptt_active /\ ptt_active' = FALSE
      /\ UNCHANGED streamVars
      /\ UNCHANGED <<connection, ready, response_event_id, dismissed, handler>>
      /\ UNCHANGED <<voice, pipelines>>
  BY DEF PttEnd, MainIdle, Here, idVars, voiceVars
<1>2. CASE UNCHANGED <<tasks, response_task>>
  <2>1. StreamInv' /\ OpenInv' /\ announced' = announced
    BY <1>1, <1>i, SameStream
  <2>2. Fades /\ (Live(response_task) => Live(response_task)')
    BY <1>2, <1>i, Unfading DEF Live
  <2>3. GoalInv'
    BY <1>1, <1>i DEF GoalInv, Here, Pending
  <2>4. PendingInv'
    BY <1>1, <1>2, <2>1, <1>i DEF PendingInv, Pending
  <2>5. \A t \in DOMAIN tasks :
            Undisturbed(t) /\ tasks[t].kind = "announce"
                => tasks[t].event \notin dismissed'
    BY <1>1, <1>i DEF SpeechInv
  <2>6. /\ dismissed' \subseteq announced' /\ ready' \in BOOLEAN
        /\ ptt_active' \in BOOLEAN
        /\ connection' \in {"open", "closing", "closed"}
        /\ handler' \in [Handlers -> Place] /\ handler'[Main].at = "idle"
        /\ voice' \in Nat /\ pipelines' \in Nat
    BY <1>1, <2>1, <1>i DEF Typed
  <2>. QED
    BY <1>1, <1>2, <2>1, <2>2, <2>3, <2>4, <2>5, <2>6, GoesOn
<1>3. CASE Start("turn", NoEvent)
  <2>1. response_event_id = NoEvent
    BY <1>1, <1>i DEF IdInv
  <2>2. \A t \in DOMAIN tasks : Undisturbed(t) => tasks[t].kind = "welcome"
    BY <1>1, <1>i DEF SpeechInv
  <2>. QED
    BY <1>1, <1>3, <2>1, <2>2, ReplyInv
<1>. QED
  BY <1>2, <1>3 DEF PttEnd

\* A tool call without events does nothing but refresh and return.
LEMMA ToolStep ==
    ASSUME Bystanders, NEW h \in Tools,
           Coroutine(h) \/ ToolCall(h) \/ ToolAborted(h)
    PROVE  (Proceed(h) /\ Goes(h, "idle", <<>>)) \/ ToolCall(h)
<1>1. handler[h].at \in {"idle", "batch"} /\ handler[h].pending = <<>>
  BY DEF Bystanders
<1>2. ~HandleEnd(h) /\ ~HandleRaise(h)
  BY <1>1 DEF HandleEnd, HandleRaise, Handling
<1>3. ~Announce(h) /\ ~Resume(h) /\ ~ToolAborted(h)
  BY <1>1 DEF Announce, At, Resume, ToolAborted
<1>4. Proceed(h) => Goes(h, "idle", <<>>)
  BY <1>1 DEF Proceed, At
<1>. QED
  BY <1>2, <1>3, <1>4 DEF Coroutine

LEMMA ToolStepInv ==
    ASSUME GatewayAssumption, Inv, Bystanders, NEW h \in Tools,
           Coroutine(h) \/ ToolCall(h) \/ ToolAborted(h)
    PROVE  Inv' /\ tasks' = tasks
<1>i. Typed /\ StreamInv /\ OpenInv
  BY DEF Inv
<1>h. h \in Handlers /\ Main \in Handlers /\ h # Main
  BY DEF GatewayAssumption, Handlers
<1>1. CASE Proceed(h) /\ Goes(h, "idle", <<>>)
  <2> DEFINE place == [at |-> "idle", then |-> "none", task |-> 0, pending |-> <<>>]
  <2>1. place \in Place /\ handler' = [handler EXCEPT ![h] = place]
    BY <1>1 DEF Place, Goes
  <2>2. handler' \in [Handlers -> Place] /\ handler'[Main] = handler[Main]
    BY <2>1, <1>h, <1>i, PlaceWritten
  <2>3. /\ UNCHANGED streamVars
        /\ UNCHANGED <<connection, ready, ptt_active>>
        /\ UNCHANGED <<tasks, response_task, response_event_id>>
        /\ UNCHANGED <<dismissed, voice, pipelines>>
    BY <1>1 DEF Proceed, stateVars, replyVars, idVars, voiceVars
  <2>4. StreamInv' /\ OpenInv' /\ announced' = announced
    BY <2>3, <1>i, SameStream
  <2>. QED
    BY <2>2, <2>3, <2>4, Elsewhere
<1>2. CASE ToolCall(h)
  <2>1. /\ Refresh(h)
        /\ UNCHANGED <<connection, ready, ptt_active>>
        /\ UNCHANGED <<tasks, response_task, response_event_id>>
        /\ UNCHANGED <<dismissed, voice, pipelines>>
    BY <1>2 DEF ToolCall, stateVars, replyVars, idVars, voiceVars
  <2>2. /\ StreamInv' /\ OpenInv' /\ announced \subseteq announced'
        /\ handler' \in [Handlers -> Place] /\ handler'[Main] = handler[Main]
    BY <2>1, <1>h, Refreshing
  <2>. QED
    BY <2>1, <2>2, Elsewhere
<1>. QED
  BY <1>1, <1>2, ToolStep

LEMMA StutterInv ==
    ASSUME Inv, UNCHANGED vars
    PROVE  Inv'
<1>1. /\ UNCHANGED streamVars
      /\ UNCHANGED <<connection, ready, ptt_active>>
      /\ UNCHANGED <<tasks, response_task, response_event_id>>
      /\ UNCHANGED <<dismissed, voice, pipelines>>
      /\ handler' = handler
  BY DEF vars, stateVars, replyVars, idVars, voiceVars
<1>2. Typed /\ StreamInv /\ OpenInv
  BY DEF Inv
<1>3. StreamInv' /\ OpenInv' /\ announced' = announced
  BY <1>1, <1>2, SameStream
<1>4. handler' \in [Handlers -> Place]
  BY <1>1, <1>2 DEF Typed
<1>. QED
  BY <1>1, <1>3, <1>4, Elsewhere

LEMMA MainInv ==
    ASSUME GatewayAssumption, Inv, Message \/ MainStep \/ Coroutine(Main)
    PROVE  Inv'
<1>1. CASE Message
  BY <1>1, SnapshotInv, DeltaInv, InterruptionInv, CoachFeedbackInv, PttEndInv
     DEF Message
<1>2. CASE Coroutine(Main)
  BY <1>2, HandleEndInv, HandleRaiseInv, AnnounceInv, ProceedInv, ResumeInv
     DEF Coroutine
<1>. QED
  BY <1>1, <1>2, MainStepInv

LEMMA StepInv ==
    ASSUME GatewayAssumption, Inv, Bystanders, [Next]_vars
    PROVE  Inv'
<1>1. CASE \E h \in Handlers : Coroutine(h)
  <2>1. PICK h \in Handlers : Coroutine(h)
    BY <1>1
  <2>. QED
    BY <2>1, MainInv, ToolStepInv DEF Handlers
<1>2. CASE \E h \in Tools : ToolCall(h) \/ ToolAborted(h)
  BY <1>2, ToolStepInv
<1>3. CASE \E t \in DOMAIN tasks : TaskSteps(t)
  BY <1>3, TaskStepInv
<1>4. CASE UNCHANGED vars
  BY <1>4, StutterInv
<1>. QED
  BY <1>1, <1>2, <1>3, <1>4, MainInv DEF Next

LEMMA InitInv == Init => Inv
<1> SUFFICES ASSUME Init PROVE Inv
  OBVIOUS
<1>1. /\ raised = [r \in Rules |-> 0] /\ open = {} /\ announced = {}
      /\ withdrawn = {}
  BY DEF Init, Stream!Init
<1>2. /\ connection = "open" /\ ready = FALSE /\ ptt_active = FALSE
      /\ tasks = <<>> /\ response_task = 0 /\ response_event_id = NoEvent
      /\ dismissed = {} /\ voice = 0 /\ pipelines = 0
      /\ handler = [h \in Handlers |-> Idle]
  BY DEF Init
<1>3. handler[Main] = Idle /\ Idle \in Place
  BY <1>2 DEF Handlers, Idle, Place
<1>4. Typed
  <2>1. handler \in [Handlers -> Place]
    BY <1>2, <1>3
  <2>2. tasks \in Seq(Response) /\ Len(tasks) = 0
    BY <1>2
  <2>3. response_task \in 0..Len(tasks)
    BY <1>2, <2>2
  <2>4. response_event_id \in Stream!EventIds \cup {NoEvent}
    BY <1>2
  <2>. QED
    BY <2>1, <2>2, <2>3, <2>4, <1>2 DEF Typed
<1>5. StreamInv
  BY <1>1 DEF StreamInv, Stream!TypeOK, Stream!EventIds, Stream!OneOpenEventPerRule,
     Stream!WithdrawnOnceAnnounced
<1>6. OpenInv
  BY <1>1, FS_EmptySet DEF OpenInv
<1>7. AnnouncedOnce /\ PendingInv /\ SpeechInv
  BY <1>2, <1>3 DEF AnnouncedOnce, PendingInv, SpeechInv, Pending, Idle
<1>8. PlaceInv /\ GoalInv /\ IdInv
  BY <1>2, <1>3 DEF PlaceInv, GoalInv, IdInv, Here, Idle
<1>. QED
  BY <1>4, <1>5, <1>6, <1>7, <1>8 DEF Inv

------------------------------------------------------------------------------
(* The theorems.                                                           *)

\* The invariant holds as long as no tool call publishes an event.
THEOREM GatewayInvariance == Spec /\ []Bystanders => []Inv
<1>1. Inv /\ Bystanders /\ [Next]_vars => Inv'
  BY StepInv, GatewayAssumption
<1>. QED
  BY <1>1, InitInv, PTL DEF Spec

\* While the pilot talks nothing is said but an overtaken welcome.
THEOREM PttAlwaysSilences == Spec /\ []Bystanders => []PttSilences
<1>1. Inv => PttSilences
  BY DEF Inv, SpeechInv, PttSilences
<1>. QED
  BY <1>1, GatewayInvariance, PTL

\* A resolved event is not announced any more.
THEOREM ResolvedAlwaysSilent == Spec /\ []Bystanders => []ResolvedAreSilent
<1>1. Inv => ResolvedAreSilent
  <2> SUFFICES ASSUME Inv, NEW t \in DOMAIN tasks, Undisturbed(t)
               PROVE  tasks[t].event \notin dismissed
    BY DEF ResolvedAreSilent
  <2>1. CASE tasks[t].kind = "announce"
    BY <2>1 DEF Inv, SpeechInv
  <2>2. CASE tasks[t].kind # "announce"
    <3>1. tasks[t].event = NoEvent
      BY <2>2 DEF Inv, AnnouncedOnce
    <3>. QED
      BY <3>1 DEF Inv, Typed, StreamInv, Stream!TypeOK, Stream!EventIds, NoEvent
  <2>. QED
    BY <2>1, <2>2
<1>. QED
  BY <1>1, GatewayInvariance, PTL

\* Between a new epoch and the next snapshot no event is announced.
THEOREM SlotsAlwaysSeparate == Spec /\ []Bystanders => []SlotsAreSeparate
<1>1. Inv => SlotsAreSeparate
  BY DEF Inv, SpeechInv, SlotsAreSeparate
<1>. QED
  BY <1>1, GatewayInvariance, PTL

\* Whatever speaks, but for an overtaken welcome, can be interrupted.
THEOREM ResponsesAlwaysHeld == Spec /\ []Bystanders => []ResponsesAreHeld
<1>1. Inv => ResponsesAreHeld
  BY DEF Inv, SpeechInv, ResponsesAreHeld
<1>. QED
  BY <1>1, GatewayInvariance, PTL

\* Nothing but an overtaken welcome is said on a connection that is over.
THEOREM ClosedAlwaysSilent == Spec /\ []Bystanders => []ClosedIsSilent
<1>1. Inv => ClosedIsSilent
  BY DEF Inv, SpeechInv, ClosedIsSilent
<1>. QED
  BY <1>1, GatewayInvariance, PTL

\* A response that a step cancels was response_task, and the main loop has
\* interrupted it.
LEMMA CancelledByMain ==
    ASSUME GatewayAssumption, Inv, Bystanders, [Next]_vars, NEW t \in DOMAIN tasks,
           ~tasks[t].cancel, tasks'[t].cancel
    PROVE  /\ t = response_task
           /\ \E then \in Thens : \E pending \in Seq(Events) :
                 /\ InterruptResponse(Main, then, pending)
                 /\ \/ NewEpoch \/ PttStart \/ AssistantInterrupt \/ Disconnect
                    \/ HandleEnd(Main) /\ response_event_id = Head(Pending).id
                    \/ /\ HandleRaise(Main) /\ then = "speak" /\ pending = Pending
                       /\ Head(Pending).id[1] \in Warnings
<1>i. Typed /\ PendingInv
  BY DEF Inv
<1>d. /\ t \in 1..Len(tasks) /\ DOMAIN tasks = 1..Len(tasks) /\ Len(tasks) \in Nat
  BY <1>i DEF Typed
<1>k. tasks' # tasks /\ ~Fades
  BY <1>d DEF Fades
<1>s. \A kind \in Kinds : \A event \in Stream!EventIds \cup {NoEvent} : ~Start(kind, event)
  BY <1>d, <1>i, Starting
<1>n. "welcome" \in Kinds /\ "coach" \in Kinds /\ "turn" \in Kinds /\ "announce" \in Kinds
  BY DEF Kinds
<1>e. \A i \in Thens, p \in Seq(Events) : InterruptResponse(Main, i, p) => t = response_task
  BY <1>d, Interrupting
<1>1. ~Snapshot /\ ~Delta /\ ~CoachFeedback /\ ~PttEnd
  BY <1>k, <1>s, <1>n DEF Snapshot, Delta, CoachFeedback, PttEnd, replyVars
<1>2. ~MainStep
  BY <1>k, <1>i, MuteFades
     DEF MainStep, ResetAssistant, StartPtt, Cleanup, replyVars
<1>3. ~\E u \in DOMAIN tasks : TaskSteps(u)
  BY <1>k, TaskStepInv
<1>4. ~\E h \in Tools : Coroutine(h) \/ ToolCall(h) \/ ToolAborted(h)
  BY <1>k, ToolStepInv
<1>5. ~UNCHANGED vars
  BY <1>k DEF vars, replyVars
<1>6. ~Proceed(Main) /\ ~Resume(Main)
  BY <1>k DEF Proceed, Resume, replyVars
<1>7. ~Announce(Main)
  <2>1. CASE Announce(Main)
    <3>1. /\ Start("announce", Head(Pending).id)
          /\ handler[Main].at = "interrupted" /\ handler[Main].then = "speak"
      BY <2>1 DEF Announce, At, Pending
    <3>2. Pending # <<>>
      BY <3>1 DEF Inv, GoalInv
    <3>3. Head(Pending).id \in Stream!EventIds
      BY <3>2, <1>i, FirstPending DEF Inv, StreamInv, Stream!TypeOK
    <3>. QED
      BY <3>1, <3>3, <1>s, <1>n
  <2>. QED
    BY <2>1
<1>8. ASSUME NewEpoch \/ PttStart \/ AssistantInterrupt \/ Disconnect
      PROVE  \E then \in Thens : InterruptResponse(Main, then, <<>>)
  BY <1>8 DEF NewEpoch, PttStart, AssistantInterrupt, Disconnect, Thens
<1>9. ASSUME HandleEnd(Main) \/ HandleRaise(Main)
      PROVE  /\ Pending # <<>> /\ Pending \in Seq(Events)
             /\ Tail(Pending) \in Seq(Events)
             /\ Head(Pending).id \in Stream!EventIds
  <2>1. Pending # <<>>
    BY <1>9 DEF HandleEnd, HandleRaise, Handling, Pending
  <2>. QED
    BY <2>1, <1>i, FirstPending DEF Inv, StreamInv, Stream!TypeOK
<1>10. ASSUME HandleEnd(Main)
       PROVE  /\ InterruptResponse(Main, "batch", Tail(Pending))
              /\ response_event_id = Head(Pending).id
  BY <1>10, <1>k DEF HandleEnd, Pending, replyVars
<1>11. ASSUME HandleRaise(Main)
       PROVE  /\ InterruptResponse(Main, "speak", Pending)
              /\ Head(Pending).id[1] \in Warnings
  BY <1>9, <1>11, <1>k, <1>s, <1>n DEF HandleRaise, Dropped, Pending, replyVars
<1>12. \/ NewEpoch \/ PttStart \/ AssistantInterrupt \/ Disconnect
       \/ HandleEnd(Main) \/ HandleRaise(Main)
  BY <1>1, <1>2, <1>3, <1>4, <1>5, <1>6, <1>7
     DEF Next, Message, Coroutine, Handlers
<1>13. CASE NewEpoch \/ PttStart \/ AssistantInterrupt \/ Disconnect
  <2>1. PICK then \in Thens : InterruptResponse(Main, then, <<>>)
    BY <1>8, <1>13
  <2>2. <<>> \in Seq(Events)
    OBVIOUS
  <2>. QED
    BY <2>1, <2>2, <1>13, <1>e
<1>14. CASE HandleEnd(Main)
  <2>1. "batch" \in Thens
    BY DEF Thens
  <2>. QED
    BY <2>1, <1>14, <1>9, <1>10, <1>e
<1>15. CASE HandleRaise(Main)
  <2>1. "speak" \in Thens
    BY DEF Thens
  <2>. QED
    BY <2>1, <1>15, <1>9, <1>11, <1>e
<1>. QED
  BY <1>12, <1>13, <1>14, <1>15

\* A turn is cancelled for the pilot, a new slot, a disconnect or a warning.
THEOREM TurnsAlwaysKept == Spec /\ []Bystanders => TurnsAreKept
<1>1. ASSUME GatewayAssumption, Inv, Bystanders, [Next]_vars, NEW t \in DOMAIN tasks,
             tasks[t].kind = "turn", ~tasks[t].cancel, tasks'[t].cancel
      PROVE  \E h \in Handlers : handler[h] # handler'[h] /\ TurnsYieldTo(h)
  <2>1. PICK then \in Thens, pending \in Seq(Events) :
            /\ InterruptResponse(Main, then, pending)
            /\ \/ NewEpoch \/ PttStart \/ AssistantInterrupt \/ Disconnect
               \/ HandleEnd(Main) /\ response_event_id = Head(Pending).id
               \/ /\ HandleRaise(Main) /\ then = "speak" /\ pending = Pending
                  /\ Head(Pending).id[1] \in Warnings
    BY <1>1, CancelledByMain
  <2>2. t = response_task
    BY <1>1, CancelledByMain
  <2>3. /\ handler'[Main].at \in {"gather", "interrupted"}
        /\ handler'[Main].then = then
        /\ handler'[Main].pending = pending
    BY <1>1, <2>1, Interrupting
  <2>4. handler[Main].at \in {"idle", "batch"}
    BY <2>1 DEF NewEpoch, PttStart, AssistantInterrupt, Disconnect, MainIdle,
       HandleEnd, HandleRaise, Handling
  <2>5. handler[Main] # handler'[Main]
    BY <2>3, <2>4
  <2>6. TurnsYieldTo(Main)
    <3>1. CASE NewEpoch \/ PttStart \/ AssistantInterrupt \/ Disconnect
      <4>1. PICK then2 \in {"reset", "ptt", "none", "close"} :
                InterruptResponse(Main, then2, <<>>)
        BY <3>1 DEF NewEpoch, PttStart, AssistantInterrupt, Disconnect
      <4>2. then2 \in Thens /\ <<>> \in Seq(Events)
        BY DEF Thens
      <4>3. handler'[Main].then = then2
        BY <4>1, <4>2, <1>1, Interrupting
      <4>. QED
        BY <4>3 DEF TurnsYieldTo
    <3>2. CASE HandleEnd(Main) /\ response_event_id = Head(Pending).id
      <4>1. Pending # <<>> /\ Typed /\ PendingInv /\ StreamInv /\ IdInv
        BY <3>2, <1>1 DEF HandleEnd, Handling, Pending, Inv
      <4>2. response_event_id # NoEvent
        BY <3>2, <4>1, FirstPending DEF StreamInv, Stream!TypeOK, Stream!EventIds, NoEvent
      <4>. QED
        BY <4>1, <4>2, <2>2, <1>1 DEF IdInv
    <3>3. CASE then = "speak" /\ pending = Pending /\ Head(Pending).id[1] \in Warnings
      BY <3>3, <2>3 DEF TurnsYieldTo
    <3>. QED
      BY <2>1, <3>1, <3>2, <3>3
  <2>. QED
    BY <2>5, <2>6 DEF Handlers
<1>2. Inv /\ Bystanders /\ [Next]_vars =>
          [\A t \in DOMAIN tasks :
              tasks[t].kind = "turn" /\ ~tasks[t].cancel /\ tasks'[t].cancel
                  => \E h \in Handlers : handler[h] # handler'[h] /\ TurnsYieldTo(h)]_vars
  BY <1>1, GatewayAssumption
<1>. QED
  BY <1>2, GatewayInvariance, PTL DEF Spec, TurnsAreKept
==============================================================================

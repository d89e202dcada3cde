---------------------------- MODULE TelemetryStream ----------------------------
(***************************************************************************)
(* From cockpit to cloud: the publisher of the client (TelemetryPublisher) *)
(* listens to BiosClient and hands catalogs, snapshots and deltas to the   *)
(* bounded outbound queue of the cloud connection; the writer puts them on *)
(* the websocket; the gateway's TelemetryIngress assembles them again and  *)
(* the complete ones reach the raw telemetry store.                        *)
(*                                                                         *)
(* Publisher, queue and BiosClient live on the client's event loop, so     *)
(* each of their handlers is one step.  Only telemetry is on the queue.    *)
(* Epochs are numbered where the code draws a UUID.  A pending value is    *)
(* never dropped for lack of room: the limit of 8192 pending controls is   *)
(* above the 4096 controls the gateway takes in a catalog.                 *)
(*                                                                         *)
(* A definition named Mutant... is the definition after it with a          *)
(* plausible bug; nothing uses it.                                         *)
(***************************************************************************)
EXTENDS BiosClient, Sequences, SequencesExt

CONSTANTS
    Switches,       \* controls whose integer_max is 1
    MaxTransitions, \* max_switch_transitions, 8 in the code
    CatalogChunk,   \* entries of a catalog message, 256
    SnapshotChunk,  \* values of a snapshot message, 1024
    DeltaSize,      \* values of a delta, 1024
    QueueLimit,     \* messages the queue takes from a stream
    WireSize,       \* messages on their way at a time
    MaxSessions,    \* bound on the cloud sessions
    MaxRefreshes    \* bound on the refreshes of unchanged values, which also
                    \* count as writes

ASSUME StreamAssumption ==
    /\ Controls \subseteq Nat /\ IsFiniteSet(Controls)
    /\ Switches \subseteq Controls
    /\ {MaxTransitions, CatalogChunk, SnapshotChunk, DeltaSize, QueueLimit,
        WireSize} \subseteq Nat \ {0}
    /\ {MaxSessions, MaxRefreshes} \subseteq Nat

VARIABLES
    publisher,  \* epoch (0 for None), aircraft, sequence, initial, pending
    epochs,     \* epochs begun so far
    link,       \* "down", "up", or "ending": the socket is lost, ready still set
    sessions,
    queue,      \* _outbound
    wire,       \* what the socket carries
    ingress,    \* the gateway's TelemetryIngress
    raw,        \* its RawTelemetryStore
    refreshes

linkVars == <<link, sessions, wire>>
cloudVars == <<ingress, raw>>
vars == <<biosVars, publisher, epochs, linkVars, queue, cloudVars, refreshes>>

Kinds == {"catalog", "snapshot", "delta"}
Message(kind, epoch, sequence, aircraft, chunk, count, entries, values) ==
    [kind |-> kind, epoch |-> epoch, sequence |-> sequence,
     aircraft |-> aircraft, chunk |-> chunk, count |-> count,
     entries |-> entries, values |-> values]
Messages == [kind : Kinds, epoch : Nat, sequence : Nat, aircraft : Aircraft,
             chunk : Nat, count : Nat, entries : SUBSET Controls, values : Shown]

Reset == [epoch |-> 0, aircraft |-> NoAircraft, sequence |-> 0,
          initial |-> <<>>, pending |-> <<>>]

\* last_sequence is one less than `next`; chunk counts are 0 for None.
NewIngress == [epoch |-> 0, aircraft |-> NoAircraft, next |-> 0, ready |-> FALSE,
               catalogs |-> 0, catalogCount |-> 0, catalog |-> {},
               snapshots |-> 0, snapshotCount |-> 0, snapshot |-> Empty]

\* Every variable has its type; queue, wire and coalesced values stay bounded,
\* and only a switch has more than one value waiting.
TypeOK ==
    /\ BiosTypeOK
    /\ publisher \in [epoch : 0..epochs, aircraft : Slots, sequence : Nat,
                      initial : Seq(Messages),
                      pending : Seq([control : Controls, values : Seq(Values)])]
    /\ \A p \in ToSet(publisher.pending) : Len(p.values) \in 1..MaxTransitions
    /\ \A p \in ToSet(publisher.pending) \ {q \in ToSet(publisher.pending) :
                                                q.control \in Switches} :
          Len(p.values) = 1
    /\ epochs \in Nat /\ sessions \in 0..MaxSessions /\ refreshes \in 0..MaxRefreshes
    /\ link \in {"down", "up", "ending"}
    /\ queue \in Seq(Messages) /\ Len(queue) =< QueueLimit
    /\ wire \in Seq(Messages) /\ Len(wire) =< WireSize
    /\ ingress \in [epoch : 0..epochs, aircraft : Slots, next : Nat,
                    ready : BOOLEAN, catalogs : Nat, catalogCount : Nat,
                    catalog : SUBSET Controls, snapshots : Nat,
                    snapshotCount : Nat, snapshot : Shown]
    /\ raw \in Shown

Init ==
    /\ BiosInit
    /\ publisher = Reset /\ epochs = 0
    /\ link = "down" /\ sessions = 0
    /\ queue = <<>> /\ wire = <<>>
    /\ ingress = NewIngress /\ raw = Empty
    /\ refreshes = 0

------------------------------------------------------------------------------
(* TelemetryPublisher: epochs.                                             *)

\* A finite set of numbers in increasing order: the k-th has k - 1 below it.
InOrder(S) ==
    [k \in 1..Cardinality(S) |->
        CHOOSE x \in S : Cardinality({y \in S : y < x}) = k - 1]

\* The elements of s at the positions in T, in their order.
Selected(s, T) == [k \in 1..Cardinality(T) |-> s[InOrder(T)[k]]]

\* What the chunks of a set hold, the smallest first; of nothing, one empty chunk.
Chunks(S, size) ==
    LET s == InOrder(S)
    IN  [i \in 1..(IF S = {} THEN 1 ELSE (Cardinality(S) - 1) \div size + 1) |->
            {s[k] : k \in {j \in DOMAIN s : (j - 1) \div size = i - 1}}]

\* The catalog, then the snapshot; nothing to say is said in an empty chunk.
Initial(epoch, a, values) ==
    LET catalogs  == Chunks(Definitions[a], CatalogChunk)
        snapshots == Chunks(DOMAIN values, SnapshotChunk)
    IN  [i \in DOMAIN catalogs |->
            Message("catalog", epoch, i - 1, a, i - 1, Len(catalogs),
                    catalogs[i], Empty)]
        \o
        [i \in DOMAIN snapshots |->
            Message("snapshot", epoch, Len(catalogs) + i - 1, a, i - 1,
                    Len(snapshots), {}, Restrict(values, snapshots[i]))]

Begun(a, values) ==
    LET initial == Initial(epochs + 1, a, values)
    IN  [epoch |-> epochs + 1, aircraft |-> a, sequence |-> Len(initial),
         initial |-> initial, pending |-> <<>>]

\* _begin_epoch.
BeginEpoch(a, values) ==
    IF a = NoAircraft
    THEN publisher' = Reset /\ UNCHANGED epochs
    ELSE publisher' = Begun(a, values) /\ epochs' = epochs + 1

------------------------------------------------------------------------------
(* TelemetryPublisher: pending values, in the order of a dictionary.       *)

\* What _queue_value makes of a control's values, which are not empty.
Coalesce(c, values, v) ==
    IF Last(values) # v /\ c \in Switches /\ Len(values) < MaxTransitions
    THEN Append(values, v)
    ELSE [values EXCEPT ![Len(values)] = v]

\* The values of a control that wait.
Queued(pending, c) ==
    IF \E i \in DOMAIN pending : pending[i].control = c
    THEN pending[CHOOSE i \in DOMAIN pending : pending[i].control = c].values
    ELSE <<>>

\* What already waits is kept.
MutantQueueAll(pending, changes) ==
    LET fresh == InOrder({c \in DOMAIN changes : Queued(pending, c) = <<>>})
    IN  pending \o [k \in DOMAIN fresh |->
                       [control |-> fresh[k], values |-> <<changes[fresh[k]]>>]]

\* _queue_value for each change: into the control's values, or behind the others.
QueueAll(pending, changes) ==
    LET fresh == InOrder({c \in DOMAIN changes : Queued(pending, c) = <<>>})
    IN  [i \in DOMAIN pending |->
            LET c == pending[i].control
            IN  IF c \notin DOMAIN changes THEN pending[i]
                ELSE [control |-> c,
                      values |-> Coalesce(c, pending[i].values, changes[c])]]
        \o [k \in DOMAIN fresh |->
               [control |-> fresh[k], values |-> <<changes[fresh[k]]>>]]

\* The newest value is sent, the oldest removed.
MutantHeads(pending) ==
    LET taken == {pending[i].control : i \in {j \in DOMAIN pending : j =< DeltaSize}}
    IN  [c \in taken |-> Last(Queued(pending, c))]

\* The controls whose first value the next delta takes, and what is left.
Heads(pending) ==
    LET taken == {pending[i].control : i \in {j \in DOMAIN pending : j =< DeltaSize}}
    IN  [c \in taken |-> Head(Queued(pending, c))]

Behead(pending) ==
    LET left == [i \in DOMAIN pending |->
                    IF i > DeltaSize THEN pending[i]
                    ELSE [control |-> pending[i].control,
                          values |-> Tail(pending[i].values)]]
    IN  Selected(left, {i \in DOMAIN left : left[i].values # <<>>})

------------------------------------------------------------------------------
(* The client: callbacks of BiosClient, flushes, the connection.           *)

Export ==
    /\ writes + refreshes < MaxWrites
    /\ \/ \E c \in Controls, v \in Values : ExportValue(c, v)
       \/ \E a \in Slots : ExportName(a)
    /\ UNCHANGED <<publisher, epochs, linkVars, queue, cloudVars, refreshes>>

Malformed ==
    /\ FrameMalformed
    /\ UNCHANGED <<publisher, epochs, linkVars, queue, cloudVars, refreshes>>

\* _aircraft_changed, then _control_changed for each change.
Frame ==
    LET session == link # "down"
        result  == FrameResult(session)
    IN  /\ FrameComplete(session)
        /\ IF result.news /\ session
           THEN BeginEpoch(name, Active(result.bytes, name))
           ELSE /\ UNCHANGED epochs
                /\ publisher' =
                      IF publisher.epoch = 0 THEN publisher
                      ELSE [publisher EXCEPT !.pending = QueueAll(@, result.changes)]
        /\ UNCHANGED <<linkVars, queue, cloudVars, refreshes>>

\* _dcs_connection_changed.
DcsLost ==
    /\ Expire
    /\ publisher' = Reset
    /\ UNCHANGED <<epochs, linkVars, queue, cloudVars, refreshes>>

Room == QueueLimit - Len(queue)

\* The queue refuses one of the initial messages.
FlushInitial ==
    /\ publisher.epoch # 0
    /\ Len(publisher.initial) > Room
    /\ queue' = queue \o SubSeq(publisher.initial, 1, Room)
    /\ publisher' = [publisher EXCEPT
                        !.initial = SubSeq(@, Room + 1, Len(@))]
    /\ UNCHANGED <<biosVars, epochs, linkVars, cloudVars, refreshes>>

Delta(pending) ==
    Message("delta", publisher.epoch, publisher.sequence, publisher.aircraft, 0, 1,
            {}, Heads(pending))

\* It takes them all, and a delta if there is something new or a refresh due.
FlushDelta(due) ==
    LET fresh   == IF due THEN Active(bytes, current_aircraft) ELSE Empty
        pending == QueueAll(publisher.pending, fresh)
        sent    == pending # <<>> /\ Room > Len(publisher.initial)
    IN  /\ publisher.epoch # 0
        /\ Len(publisher.initial) =< Room
        /\ due => refreshes < MaxRefreshes /\ writes + refreshes < MaxWrites
        /\ refreshes' = IF due THEN refreshes + 1 ELSE refreshes
        /\ IF due THEN TakeSnapshot ELSE UNCHANGED biosVars
        /\ queue' = queue \o publisher.initial
                          \o (IF sent THEN <<Delta(pending)>> ELSE <<>>)
        /\ publisher' =
              [publisher EXCEPT
                  !.initial = <<>>,
                  !.sequence = IF sent THEN @ + 1 ELSE @,
                  !.pending = IF sent THEN Behead(pending) ELSE pending]
        /\ UNCHANGED <<epochs, linkVars, cloudVars>>

\* A refresh is due and finds that the frames have stopped.
FlushLost ==
    /\ publisher.epoch # 0
    /\ Len(publisher.initial) =< Room
    /\ Expire
    /\ queue' = queue \o publisher.initial
    /\ publisher' = Reset
    /\ UNCHANGED <<epochs, linkVars, cloudVars, refreshes>>

\* The epoch is left to the next aircraft change.
MutantConnect ==
    /\ link = "down" /\ link' = "up"
    /\ sessions < MaxSessions /\ sessions' = sessions + 1
    /\ UNCHANGED <<biosVars, publisher, epochs, queue, wire, cloudVars, refreshes>>

\* The handshake has succeeded: set_session_active(True).
Connect ==
    /\ link = "down" /\ link' = "up"
    /\ sessions < MaxSessions /\ sessions' = sessions + 1
    /\ BeginEpoch(current_aircraft, Active(bytes, current_aircraft))
    /\ TakeSnapshot
    /\ UNCHANGED <<queue, wire, cloudVars, refreshes>>

Transmit ==
    /\ link = "up"
    /\ queue # <<>> /\ Len(wire) < WireSize
    /\ wire' = Append(wire, Head(queue))
    /\ queue' = Tail(queue)
    /\ UNCHANGED <<biosVars, publisher, epochs, link, sessions, cloudVars, refreshes>>

\* The socket breaks; the next one starts with a new ingress and a new store.
Break ==
    /\ link = "up" /\ link' = "ending"
    /\ wire' = <<>>
    /\ ingress' = NewIngress /\ raw' = Empty
    /\ UNCHANGED <<biosVars, publisher, epochs, sessions, queue, refreshes>>

\* _set_disconnected, after the last attempt to send session.end.
Disconnect ==
    /\ link = "ending" /\ link' = "down"
    /\ queue' = <<>>
    /\ publisher' = Reset
    /\ UNCHANGED <<biosVars, epochs, sessions, wire, cloudVars, refreshes>>

------------------------------------------------------------------------------
(* The gateway: TelemetryIngress and apply_telemetry_batch.                *)

Continues(m) ==
    /\ m.epoch = ingress.epoch /\ m.aircraft = ingress.aircraft
    /\ m.sequence = ingress.next

NewEpoch(m) == m.kind = "catalog" /\ m.epoch # ingress.epoch

CatalogComplete ==
    ingress.catalogCount # 0 /\ ingress.catalogs = ingress.catalogCount

\* accept returns instead of raising an error.
Acceptable(m) ==
    CASE NewEpoch(m) -> m.sequence = 0 /\ m.chunk = 0
      [] m.kind = "catalog" /\ ~NewEpoch(m) ->
            /\ Continues(m)
            /\ ~ingress.ready /\ ingress.snapshotCount = 0
            /\ m.chunk = ingress.catalogs
            /\ ingress.catalogCount \in {0, m.count}
            /\ m.entries \cap ingress.catalog = {}
      [] m.kind = "snapshot" ->
            /\ Continues(m)
            /\ CatalogComplete /\ ~ingress.ready
            /\ m.chunk = ingress.snapshots
            /\ ingress.snapshotCount \in {0, m.count}
            /\ DOMAIN m.values \subseteq ingress.catalog
            /\ DOMAIN m.values \cap DOMAIN ingress.snapshot = {}
      [] m.kind = "delta" ->
            /\ Continues(m)
            /\ ingress.ready
            /\ DOMAIN m.values \subseteq ingress.catalog

Accepted(m) ==
    CASE m.kind = "catalog" ->
            LET base == IF NewEpoch(m) THEN NewIngress ELSE ingress
            IN  [base EXCEPT !.epoch = m.epoch, !.aircraft = m.aircraft,
                             !.next = m.sequence + 1, !.catalogs = @ + 1,
                             !.catalogCount = m.count, !.catalog = @ \cup m.entries]
      [] m.kind = "snapshot" ->
            [ingress EXCEPT !.next = @ + 1, !.snapshots = @ + 1,
                            !.snapshotCount = m.count,
                            !.snapshot = Put(@, m.values),
                            !.ready = m.chunk + 1 = m.count]
      [] m.kind = "delta" -> [ingress EXCEPT !.next = @ + 1]

\* What apply_telemetry_batch does to the store.
Applied(m) ==
    CASE NewEpoch(m) -> Empty
      [] m.kind = "snapshot" /\ Accepted(m).ready -> Put(raw, Accepted(m).snapshot)
      [] m.kind = "delta" -> Put(raw, m.values)
      [] OTHER -> raw

Receive ==
    /\ wire # <<>> /\ wire' = Tail(wire)
    /\ LET m == Head(wire)
       IN  /\ ingress' = IF Acceptable(m) THEN Accepted(m) ELSE ingress
           /\ raw' = IF Acceptable(m) THEN Applied(m) ELSE raw
    /\ UNCHANGED <<biosVars, publisher, epochs, link, sessions, queue, refreshes>>

------------------------------------------------------------------------------

Next ==
    \/ Export \/ Malformed \/ Frame \/ DcsLost
    \/ FlushInitial \/ (\E due \in BOOLEAN : FlushDelta(due)) \/ FlushLost
    \/ Connect \/ Transmit \/ Break \/ Disconnect
    \/ Receive

\* The publisher flushes at 15 Hz, writer and gateway run, the connection is
\* reopened for as long as the client runs.  DCS-BIOS owes nothing.
Fairness ==
    /\ WF_vars(FlushInitial \/ FlushDelta(FALSE))
    /\ WF_vars(Transmit)
    /\ WF_vars(Receive)
    /\ WF_vars(Connect)
    /\ WF_vars(Disconnect)

Spec == Init /\ [][Next]_vars /\ Fairness

------------------------------------------------------------------------------
(* Properties.                                                             *)

\* docs/protocol.md: the client sends a contiguous sequence of catalog,
\* snapshot and deltas.  Whatever frames, flushes and reconnects do, the
\* gateway accepts every message that reaches it: one refusal would lose
\* all later messages of the epoch.
NothingRefused ==
    link = "up" /\ wire # <<>> => Acceptable(Head(wire))

Streaming == link = "up" /\ publisher.epoch # 0

\* What the gateway shows of a control, or is about to, in this epoch, oldest
\* first: what it has, what is on its way, what is pending.
Held(c) ==
    LET has == IF ingress.epoch # publisher.epoch THEN Empty
               ELSE IF ingress.ready THEN raw ELSE ingress.snapshot
    IN  IF c \in DOMAIN has THEN <<has[c]>> ELSE <<>>

Pipe == wire \o queue \o publisher.initial

Underway(c) ==
    LET mine == {i \in DOMAIN Pipe : /\ Pipe[i].epoch = publisher.epoch
                                     /\ c \in DOMAIN Pipe[i].values}
    IN  [k \in 1..Cardinality(mine) |-> Selected(Pipe, mine)[k].values[c]]

Waiting(c) == Queued(publisher.pending, c)

Path(c) == Held(c) \o Underway(c) \o Waiting(c)

\* Coalescing, refreshing, a full queue, a snapshot taken inside a frame or a
\* new slot never lose the newest value: once the frame that changed it is
\* complete, what a control shows is the last thing the gateway will hear.
LatestSurvives ==
    Streaming =>
        \A c \in DOMAIN Active(bytes, current_aircraft) \ dirty :
            Path(c) # <<>> /\ Last(Path(c)) = bytes[c]

\* The positions of a switch reach the gateway in order and none is skipped,
\* except that the last is overwritten when MaxTransitions wait.
Replaced(s, t) == Len(s) = Len(t) /\ Front(s) = Front(t)

TransitionsSurvive ==
    [][\A c \in Switches :
          Streaming /\ Streaming' /\ publisher'.epoch = publisher.epoch =>
              \/ Path(c)' = Path(c)
              \/ Path(c) # <<>> /\ Path(c)' = Tail(Path(c))
              \/ Path(c)' # <<>> /\ Front(Path(c)') = Path(c)
              \/ /\ Len(Waiting(c)) = MaxTransitions
                 /\ Replaced(Path(c), Path(c)')]_vars

\* docs/protocol.md: a new epoch resets the gateway's telemetry state, which
\* shows nothing before the new snapshot is complete and never a control the
\* slot does not have.
SlotsAreSeparate ==
    /\ raw # Empty => ingress.ready
    /\ DOMAIN raw \subseteq ingress.catalog

\* In the end the gateway shows what the cockpit shows, provided the session
\* lasts and the frames do not stop.
Mirrored ==
    link = "up" /\ current_aircraft # NoAircraft =>
        /\ ingress.ready /\ ingress.aircraft = current_aircraft
        /\ \A c \in DOMAIN Active(bytes, current_aircraft) \ dirty :
              c \in DOMAIN raw /\ raw[c] = bytes[c]

CockpitIsMirrored == <>[]Mirrored
==============================================================================

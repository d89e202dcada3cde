----------------------------- MODULE FlightRecords -----------------------------
(***************************************************************************)
(* What one realtime connection leaves in the account database: a row of   *)
(* flight_sessions for each client session and a row of flight_summaries   *)
(* for each flight that FlightStatsManager has finished.                   *)
(*                                                                         *)
(* Summaries wait in a bounded deque until they are stored.  The main loop *)
(* and the tool calls of a voice turn run persist_pending_summaries side   *)
(* by side, each over its own copy of the deque, and suspend in every      *)
(* query.  A query may fail, and a tool call may be cancelled in one; a    *)
(* commit that fails may have taken place.                                 *)
(*                                                                         *)
(* A summary is the ordinal of its flight, where the code draws a UUID.    *)
(* Client sessions are numbered for the same reason; a client never starts *)
(* one again.                                                              *)
(*                                                                         *)
(* A definition named Mutant... is the definition after it with a          *)
(* plausible bug; nothing uses it.                                         *)
(***************************************************************************)
EXTENDS Naturals, Sequences, SequencesExt

CONSTANTS
    Tools,          \* tool calls that may run side by side
    PendingLimit,   \* pending_limit of FlightStatsManager, 32
    MaxSummaries,   \* bound on the flights
    MaxSessions     \* bound on the client sessions

Main == "main"
Handlers == {Main} \cup Tools

ASSUME RecordsAssumption ==
    /\ Main \notin Tools
    /\ PendingLimit \in Nat \ {0}
    /\ {MaxSummaries, MaxSessions} \subseteq Nat

VARIABLES
    user,           \* session.user_id is set: not a development token
    connection,     \* "open", "closing" or "closed"
    session,        \* session.session_id, 0 for None
    ready,          \* telemetry.ready
    flying,         \* FlightStatsManager._aircraft is set
    summaries,      \* flights finished so far
    pending,        \* FlightStatsManager._pending
    stored,         \* table flight_summaries in the order of received_at
    flights,        \* table flight_sessions, by client session
    unended,        \* client sessions whose end the database has failed
    cleanup,        \* the session whose end the cleanup task writes, or 0
    persist         \* where each coroutine is: "events" in front of
                    \* persist_pending_summaries, "select" or "insert" in it

connectionVars == <<user, connection, session, ready>>
statsVars      == <<flying, summaries, pending>>
flightVars     == <<flights, unended, cleanup>>
vars == <<connectionVars, statsVars, stored, flightVars, persist>>

Idle == [at |-> "idle", todo |-> <<>>]

Persisting(h) == persist[h].at \in {"select", "insert"}

\* Every variable has its type; the deque keeps its limit.
TypeOK ==
    /\ user \in BOOLEAN /\ ready \in BOOLEAN /\ flying \in BOOLEAN
    /\ connection \in {"open", "closing", "closed"}
    /\ session \in 0..Len(flights)
    /\ summaries \in 0..MaxSummaries
    /\ pending \in Seq(1..summaries) /\ Len(pending) =< PendingLimit
    /\ stored \in Seq(1..summaries)
    /\ flights \in Seq({"none", "open", "ended"})
    /\ unended \subseteq 1..Len(flights)
    /\ cleanup \in 0..Len(flights)
    /\ persist \in [Handlers -> [at : {"idle", "events", "select", "insert"},
                                 todo : Seq(1..summaries)]]
    /\ \A h \in Handlers : Persisting(h) <=> persist[h].todo # <<>>

Init ==
    /\ user \in BOOLEAN
    /\ connection = "open" /\ session = 0 /\ ready = FALSE
    /\ flying = FALSE /\ summaries = 0 /\ pending = <<>>
    /\ stored = <<>>
    /\ flights = <<>> /\ unended = {} /\ cleanup = 0
    /\ persist = [h \in Handlers |-> Idle]

------------------------------------------------------------------------------
(* The deque and persist_pending_summaries.                                *)

\* The deque has no maxlen.
MutantAppendBounded(p, s) == Append(p, s)

\* deque.append: a full deque forgets its oldest element.
AppendBounded(p, s) ==
    Append(IF Len(p) = PendingLimit THEN Tail(p) ELSE p, s)

\* The first that waits is taken for the one that was stored.
MutantAcknowledge(p, s) == IF p = <<>> THEN p ELSE Tail(p)

Acknowledge(p, s) ==
    IF s \in ToSet(p) THEN RemoveAt(p, CHOOSE i \in DOMAIN p : p[i] = s) ELSE p

\* The loop begins over a copy of what waits.  Without a user all of it is
\* acknowledged at once.
Persist(h, waiting) ==
    /\ pending' = IF user THEN waiting ELSE <<>>
    /\ persist' = [persist EXCEPT ![h] =
                      IF user /\ waiting # <<>>
                      THEN [at |-> "select", todo |-> waiting] ELSE Idle]

\* ingest_flight_summary has answered for the head of the copy.
Ingested(h) ==
    LET left == Tail(persist[h].todo)
    IN  /\ pending' = Acknowledge(pending, Head(persist[h].todo))
        /\ persist' = [persist EXCEPT ![h] =
                          IF left = <<>> THEN Idle
                          ELSE [at |-> "select", todo |-> left]]

Known(s) == s \in ToSet(stored)

\* The SELECT finds the summary, and it is a duplicate, or does not.
Select(h) ==
    /\ persist[h].at = "select"
    /\ IF Known(Head(persist[h].todo))
       THEN Ingested(h)
       ELSE /\ persist' = [persist EXCEPT ![h].at = "insert"]
            /\ UNCHANGED pending
    /\ UNCHANGED <<connectionVars, flying, summaries, stored, flightVars>>

\* The commit meets the unique constraint if another coroutine was faster.
Inserted(s) == IF Known(s) THEN stored ELSE Append(stored, s)

Insert(h) ==
    /\ persist[h].at = "insert"
    /\ stored' = Inserted(Head(persist[h].todo))
    /\ Ingested(h)
    /\ UNCHANGED <<connectionVars, flying, summaries, flightVars>>

\* The loop goes on with the next summary.
MutantGivenUp(h) ==
    LET left == Tail(persist[h].todo)
    IN  IF ~Persisting(h) \/ h \in Tools \/ left = <<>> THEN Idle
        ELSE [at |-> "select", todo |-> left]

\* A storage failure ends the loop, a cancellation the whole tool call.
GivenUp(h) == Idle

Breaks(h) ==
    /\ Persisting(h) \/ (h \in Tools /\ persist[h].at = "events")
    /\ \/ UNCHANGED stored
       \/ persist[h].at = "insert" /\ stored' = Inserted(Head(persist[h].todo))
    /\ persist' = [persist EXCEPT ![h] = GivenUp(h)]
    /\ UNCHANGED <<connectionVars, statsVars, flightVars>>

------------------------------------------------------------------------------
(* Telemetry: what the aircraft state makes of it for the statistics.      *)

\* finish, and the loop over what waits then.
FinishAndPersist(h) ==
    /\ flying => summaries < MaxSummaries
    /\ flying' = FALSE
    /\ summaries' = IF flying THEN summaries + 1 ELSE summaries
    /\ Persist(h, IF flying THEN AppendBounded(pending, summaries + 1) ELSE pending)

MainIsFree == connection = "open" /\ persist[Main].at = "idle"

Handling(h) == persist' = [persist EXCEPT ![h].at = "events"]

\* refresh_aircraft_state, by a delta or by a tool call, up to the first await
\* for an event.  Tool calls go on while the connection is closing.
Refresh(h) ==
    /\ persist[h].at = "idle"
    /\ ready
    /\ IF h = Main THEN connection = "open" /\ session # 0
                   ELSE connection # "closed"
    /\ flying' = TRUE
    /\ Handling(h)
    /\ UNCHANGED <<connectionVars, summaries, pending, stored, flightVars>>

\* A complete snapshot.
Snapshot ==
    /\ MainIsFree /\ session # 0 /\ ~ready
    /\ ready' = TRUE
    /\ flying' = TRUE
    /\ Handling(Main)
    /\ UNCHANGED <<user, connection, session, summaries, pending, stored, flightVars>>

\* Storage is tried again only when a flight is over.
MutantBegin(h) ==
    /\ persist[h].at = "events"
    /\ persist' = [persist EXCEPT ![h] = Idle]
    /\ UNCHANGED <<connectionVars, statsVars, stored, flightVars>>

\* The events are handled, whatever has become of the telemetry meanwhile.
Begin(h) ==
    /\ persist[h].at = "events"
    /\ Persist(h, pending)
    /\ UNCHANGED <<connectionVars, flying, summaries, stored, flightVars>>

\* The catalog of a new epoch.
NewEpoch ==
    /\ MainIsFree /\ session # 0
    /\ ready' = FALSE
    /\ FinishAndPersist(Main)
    /\ UNCHANGED <<user, connection, session, stored, flightVars>>

------------------------------------------------------------------------------
(* Client sessions and the end of the connection.                          *)

\* The main loop ends and its cleanup begins.
Close ==
    /\ connection' = "closing"
    /\ FinishAndPersist(Main)

\* The client is gone, or an exception leaves the main loop.
Disconnect ==
    /\ connection = "open" /\ ~Persisting(Main)
    /\ Close
    /\ UNCHANGED <<user, session, ready, stored, flightVars>>

\* start_flight; `row` is what the database holds when it has failed.
SessionStart ==
    /\ MainIsFree /\ session = 0 /\ Len(flights) < MaxSessions
    /\ session' = Len(flights) + 1
    /\ \/ /\ flights' = Append(flights, IF user THEN "open" ELSE "none")
          /\ UNCHANGED <<connection, statsVars, persist>>
       \/ /\ user
          /\ \E row \in {"none", "open"} : flights' = Append(flights, row)
          /\ Close
    /\ UNCHANGED <<user, ready, stored, unended, cleanup>>

Ended(n) == IF flights[n] = "open" THEN [flights EXCEPT ![n] = "ended"] ELSE flights

\* end_flight; telemetry of the session is left as it is.
SessionEnd ==
    /\ MainIsFree /\ session # 0
    /\ session' = 0
    /\ \/ /\ flights' = IF user THEN Ended(session) ELSE flights
          /\ UNCHANGED <<connection, statsVars, persist, unended>>
       \/ /\ user
          /\ flights' \in {flights, Ended(session)}
          /\ unended' = unended \cup {session}
          /\ Close
    /\ UNCHANGED <<user, ready, stored, cleanup>>

\* The session is left out when the telemetry is over already.
MutantCleanup ==
    /\ connection = "closing" /\ persist[Main].at = "idle"
    /\ connection' = "closed"
    /\ ready' = FALSE
    /\ cleanup' = IF user /\ ready THEN session ELSE 0
    /\ UNCHANGED <<user, session, statsVars, stored, flights, unended, persist>>

\* The rest of the cleanup.  The end of the flight is left to a task.
Cleanup ==
    /\ connection = "closing" /\ persist[Main].at = "idle"
    /\ connection' = "closed"
    /\ ready' = FALSE
    /\ cleanup' = IF user THEN session ELSE 0
    /\ UNCHANGED <<user, session, statsVars, stored, flights, unended, persist>>

\* The task writes the end of the flight, or logs that it could not.
EndFlight ==
    /\ cleanup # 0
    /\ cleanup' = 0
    /\ \/ flights' = Ended(cleanup) /\ UNCHANGED unended
       \/ /\ flights' \in {flights, Ended(cleanup)}
          /\ unended' = unended \cup {cleanup}
    /\ UNCHANGED <<connectionVars, statsVars, stored, persist>>

Next ==
    \/ \E h \in Handlers : Refresh(h) \/ Begin(h) \/ Select(h) \/ Insert(h) \/ Breaks(h)
    \/ Snapshot \/ NewEpoch
    \/ SessionStart \/ SessionEnd \/ Disconnect \/ Cleanup \/ EndFlight

\* Queries are answered; refreshes go on while telemetry does (15 Hz deltas, a
\* refresh every two seconds); the storage does not fail every time.
Fairness ==
    /\ \A h \in Handlers : WF_vars(Begin(h) \/ Select(h) \/ Insert(h) \/ Breaks(h))
    /\ WF_vars(Refresh(Main))
    /\ SF_vars(Select(Main)) /\ SF_vars(Insert(Main))
    /\ WF_vars(Cleanup) /\ WF_vars(EndFlight)

Spec == Init /\ [][Next]_vars /\ Fairness

------------------------------------------------------------------------------
(* Properties.                                                             *)

Overflown(s) == s + PendingLimit =< summaries

\* docs/habits.md: one record for each flight.  However coroutines interleave,
\* fail and are cancelled, none of the last PendingLimit flights is lost: its
\* summary is stored, or still waits, if only until the connection is over.
SummariesKept ==
    user => \A s \in 1..summaries :
                Overflown(s) \/ s \in ToSet(pending) \/ Known(s)

\* docs/habits.md: insertion is idempotent, and get_pilot_habits speaks of the
\* last flights: a summary is stored once and in the order of the flights,
\* unless it left the full deque while it was being stored.
StoredInOrder ==
    \A i, j \in DOMAIN stored :
        i < j => stored[i] < stored[j] \/
                 (stored[i] # stored[j] /\ Overflown(stored[j]))

(***************************************************************************)
(* What the two invariants rest on: the deque holds summaries in order and *)
(* as late as its room allows; whatever precedes a summary in the copy of  *)
(* a coroutine or in the table is stored, comes earlier in the copy or has *)
(* left the full deque.                                                    *)
(***************************************************************************)
Increasing(s) == \A i, j \in DOMAIN s : i < j => s[i] < s[j]

PendingOrdered ==
    /\ Increasing(pending)
    /\ \A i \in DOMAIN pending : pending[i] + (Len(pending) - i) =< summaries

LoopsOrdered ==
    \A h \in Handlers :
        LET todo == persist[h].todo
        IN  /\ Increasing(todo)
            /\ \A i \in DOMAIN todo : \A s \in 1..(todo[i] - 1) :
                  Overflown(s) \/ Known(s) \/ \E j \in 1..(i - 1) : todo[j] = s

StoredClosed ==
    \A i \in DOMAIN stored : \A s \in 1..(stored[i] - 1) : Overflown(s) \/ Known(s)

IInv ==
    /\ TypeOK
    /\ SummariesKept
    /\ StoredInOrder
    /\ PendingOrdered
    /\ LoopsOrdered
    /\ StoredClosed

\* What waits is stored if telemetry goes on and the storage recovers.
SummariesArrive ==
    \A s \in 1..MaxSummaries :
        s \in ToSet(pending) ~>
            \/ s \notin ToSet(pending)
            \/ connection # "open" \/ session = 0 \/ ~ready

\* end_flight and the cleanup of realtime: once the connection is closed no
\* session keeps an open row, unless the database has failed at its end.
FlightsEnd ==
    \A n \in 1..MaxSessions :
        (connection = "closed") ~>
            (n \in DOMAIN flights => flights[n] # "open" \/ n \in unended)
==============================================================================

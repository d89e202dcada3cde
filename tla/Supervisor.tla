----------------------------- MODULE Supervisor -----------------------------
(***************************************************************************)
(* LocalBackendManager: the desktop's supervision of a local backend       *)
(* process.  Its methods run on the UI thread, on pool threads and on the  *)
(* monitor threads they start, with no lock between them: what one thread  *)
(* does between two waits is one step here.                                *)
(*                                                                         *)
(* Processes are numbered in the order of their launch; 0 is no process.   *)
(* What a process serves, logs, versions and status texts are left out.    *)
(***************************************************************************)
EXTENDS Naturals, Sequences, FiniteSets

CONSTANTS
    UI,             \* the UI thread
    None,           \* no monitor
    Pool,           \* threads of the pool
    Monitors,       \* supervisor threads, in so far as they get started
    RestartLimit,   \* restart_limit
    MaxRequests     \* bound on the calls of start and restart

ASSUME SupervisorAssumption ==
    /\ IsFiniteSet(Pool) /\ IsFiniteSet(Monitors) /\ Pool \cap Monitors = {}
    /\ UI \notin Pool \cup Monitors /\ None \notin Monitors
    /\ RestartLimit \in Nat /\ MaxRequests \in Nat

Threads == {UI} \cup Pool \cup Monitors

VARIABLES
    life,           \* of each process launched
    foreign,        \* an independently running backend answers
    process, owned, stopping, monitor, restartCount,    \* of LocalBackendManager
    thread,         \* what each thread is at
    closed,         \* the window is closed
    requests,       \* history: calls of start and restart
    raced           \* history: a stop began while another thread was busy, or a start
                    \* cleared stopping before the monitors had seen it

manager == <<process, owned, stopping, monitor, restartCount>>
supervisorVars == <<life, foreign, manager, thread, closed, requests, raced>>

AtRest == [at |-> "idle", then |-> "none", took |-> 0]
Alive(p) == p # 0 /\ life[p] # "exited"

\* Something on the port answers the probe, or answers that it cannot start.
Answers  == foreign \/ \E p \in DOMAIN life : life[p] = "ready"
Refuses  == \E p \in DOMAIN life : life[p] = "broken"

SupervisorTypeOK ==
    /\ life \in Seq({"starting", "ready", "broken", "exited"})
    /\ process \in 0..Len(life) /\ owned \in BOOLEAN /\ stopping \in BOOLEAN
    /\ monitor \in Monitors \cup {None} /\ restartCount \in 0..RestartLimit
    /\ thread \in [Threads -> [at : {"idle", "probe", "launch", "wait", "adopt", "stop", "end",
                                     "clear", "join", "watch", "over"},
                               then : {"none", "start", "fail", "close"}, took : 0..Len(life)]]
    /\ foreign \in BOOLEAN /\ closed \in BOOLEAN /\ raced \in BOOLEAN
    /\ requests \in 0..MaxRequests

\* _ensure_local_backend, when the desktop starts in local mode.
SupervisorInit ==
    /\ life = <<>> /\ foreign \in BOOLEAN
    /\ process = 0 /\ owned = FALSE /\ stopping = FALSE /\ monitor = None /\ restartCount = 0
    /\ closed = FALSE /\ requests = 1 /\ raced = FALSE
    /\ \E w \in Pool : thread = [t \in Threads |-> IF t = w THEN [AtRest EXCEPT !.at = "probe"] ELSE AtRest]

\* Neither a call nor a relaunch is under way, but for that of t.
Resting == {"idle", "watch", "over"}
OthersRest(t) == \A u \in Threads \ {t} : thread[u].at \in Resting
Quiet == OthersRest(None)

Goes(t, stage) == thread' = [thread EXCEPT ![t].at = stage]
Stops(t, next) == thread' = [thread EXCEPT ![t] = [at |-> "stop", then |-> next, took |-> 0]]

\* A call returns or raises; the monitor goes on.
Returns(t) == thread' = [thread EXCEPT ![t] = [AtRest EXCEPT !.at = IF t \in Monitors THEN "watch" ELSE "idle"]]

------------------------------------------------------------------------------
(* The processes.                                                          *)

Becomes(p, stage) ==
    /\ life' = [life EXCEPT ![p] = stage]
    /\ UNCHANGED <<foreign, manager, thread, closed, requests, raced>>

\* The port is bound by one process; the other exits.
Serves(p) == life[p] = "starting" /\ ~Answers /\ ~Refuses /\ Becomes(p, "ready")
Breaks(p) == life[p] = "starting" /\ ~Answers /\ ~Refuses /\ Becomes(p, "broken")
Exits(p)  == life[p] \in {"starting", "ready"} /\ Becomes(p, "exited")

ForeignEnds ==
    /\ foreign /\ foreign' = FALSE
    /\ UNCHANGED <<life, manager, thread, closed, requests, raced>>

------------------------------------------------------------------------------
(* start.                                                                  *)

\* A backend that answers is used and is not owned.
Probe(t) ==
    /\ thread[t].at = "probe"
    /\ IF Answers THEN owned' = FALSE /\ Returns(t) /\ UNCHANGED <<stopping, raced>>
                  ELSE /\ stopping' = FALSE /\ Goes(t, "launch") /\ UNCHANGED owned
                       /\ raced' = (raced \/ \E m \in Monitors : thread[m].at \notin {"idle", "over"})
    /\ UNCHANGED <<life, foreign, process, monitor, restartCount, closed, requests>>

\* A process is owned when it is ready, not before.
MutantLaunch(t) ==
    /\ thread[t].at = "launch"
    /\ life' = Append(life, "starting") /\ process' = Len(life) + 1
    /\ Goes(t, "wait")
    /\ UNCHANGED <<foreign, owned, stopping, monitor, restartCount, closed, requests, raced>>

Launch(t) ==
    /\ thread[t].at = "launch"
    /\ life' = Append(life, "starting") /\ process' = Len(life) + 1 /\ owned' = TRUE
    /\ Goes(t, "wait")
    /\ UNCHANGED <<foreign, stopping, monitor, restartCount, closed, requests, raced>>

\* _wait_ready; a monitor goes back to watching.
WaitReady(t) ==
    /\ thread[t].at = "wait"
    /\ \/ process = 0 /\ Stops(t, "fail")
       \/ process # 0 /\ ~Alive(process) /\ Returns(t)
       \/ Alive(process) /\ Answers /\ Goes(t, IF t \in Monitors THEN "watch" ELSE "adopt")
       \/ Alive(process) /\ ~Answers /\ Refuses /\ Stops(t, "fail")
    /\ UNCHANGED <<life, foreign, manager, closed, requests, raced>>

\* The loop has no end of its own.
MutantDeadline(t) == thread[t].at = "wait" /\ process = 0 /\ Stops(t, "fail")
    /\ UNCHANGED <<life, foreign, manager, closed, requests, raced>>

\* startup_timeout.
Deadline(t) ==
    /\ thread[t].at = "wait" /\ Stops(t, "fail")
    /\ UNCHANGED <<life, foreign, manager, closed, requests, raced>>

\* A call that got its backend owns it and has it watched.
AdoptBackend(t) ==
    /\ thread[t].at = "adopt"
    /\ \E m \in Monitors :
           /\ thread[m].at = "idle"
           /\ monitor' = m
           /\ thread' = [thread EXCEPT ![t] = AtRest, ![m].at = "watch"]
    /\ owned' = TRUE
    /\ UNCHANGED <<life, foreign, process, stopping, restartCount, closed, requests, raced>>

------------------------------------------------------------------------------
(* stop.                                                                   *)

StopBegins(t) ==
    /\ thread[t].at = "stop"
    /\ stopping' = TRUE
    /\ thread' = [thread EXCEPT ![t].at = "end", ![t].took = IF owned /\ Alive(process) THEN process ELSE 0]
    /\ raced' = (raced \/ ~OthersRest(t))
    /\ UNCHANGED <<life, foreign, process, owned, monitor, restartCount, closed, requests>>

\* terminate, and kill after a while.  A process that is killed is taken to end within
\* the two seconds that stop waits for it.
Terminate(t) ==
    /\ thread[t].at = "end"
    /\ life' = [p \in DOMAIN life |-> IF p = thread[t].took THEN "exited" ELSE life[p]]
    /\ Goes(t, "clear")
    /\ UNCHANGED <<foreign, manager, closed, requests, raced>>

Clear(t) ==
    /\ thread[t].at = "clear"
    /\ process' = 0 /\ owned' = FALSE
    /\ Goes(t, "join")
    /\ UNCHANGED <<life, foreign, stopping, monitor, restartCount, closed, requests, raced>>

\* join(timeout=1): the monitor may or may not have ended.  restart zeroes the count
\* and starts.
Join(t) ==
    /\ thread[t].at = "join"
    /\ monitor' = None
    /\ CASE thread[t].then = "start" -> restartCount' = 0 /\ Goes(t, "probe") /\ UNCHANGED closed
         [] thread[t].then = "close" -> closed' = TRUE /\ Returns(t) /\ UNCHANGED restartCount
         [] OTHER -> Returns(t) /\ UNCHANGED <<restartCount, closed>>
    /\ UNCHANGED <<life, foreign, process, owned, stopping, requests, raced>>

------------------------------------------------------------------------------
(* _monitor_process.                                                       *)

\* One restart too many.
MutantGivesUp == restartCount > RestartLimit

GivesUp == restartCount >= RestartLimit

Watch(m) ==
    /\ thread[m].at = "watch"
    /\ \/ /\ stopping /\ Goes(m, "over")
          /\ UNCHANGED <<owned, restartCount>>
       \/ /\ ~stopping /\ process # 0 /\ ~Alive(process) /\ GivesUp
          /\ owned' = FALSE /\ Goes(m, "over") /\ UNCHANGED restartCount
       \/ /\ ~stopping /\ process # 0 /\ ~Alive(process) /\ ~GivesUp
          /\ restartCount' = restartCount + 1 /\ Goes(m, "launch") /\ UNCHANGED owned
    /\ UNCHANGED <<life, foreign, process, stopping, monitor, closed, requests, raced>>

------------------------------------------------------------------------------
(* MainWindow.                                                             *)

Request(t) ==
    /\ ~closed /\ thread[UI].at = "idle" /\ requests < MaxRequests
    /\ requests' = requests + 1
    /\ Stops(t, "start")
    /\ UNCHANGED <<life, foreign, manager, closed, raced>>

\* The button, on a pool thread; a key that is saved, on the UI thread.
RestartBackend == \E w \in Pool : thread[w].at = "idle" /\ Request(w)
SaveKey == owned /\ Request(UI)

CloseEvent ==
    /\ ~closed /\ thread[UI].at = "idle" /\ Stops(UI, "close")
    /\ UNCHANGED <<life, foreign, manager, closed, requests, raced>>

Step(t) ==
    \/ Probe(t) \/ Launch(t) \/ WaitReady(t) \/ Deadline(t) \/ AdoptBackend(t)
    \/ StopBegins(t) \/ Terminate(t) \/ Clear(t) \/ Join(t)

SupervisorNext ==
    \/ \E t \in Threads : Step(t)
    \/ \E m \in Monitors : Watch(m)
    \/ \E p \in DOMAIN life : Serves(p) \/ Breaks(p) \/ Exits(p)
    \/ ForeignEnds \/ RestartBackend \/ SaveKey \/ CloseEvent

\* Threads run, processes need do nothing.
Fairness == \A t \in Threads : WF_supervisorVars(Step(t))

SupervisorSpec == SupervisorInit /\ [][SupervisorNext]_supervisorVars /\ Fairness

------------------------------------------------------------------------------
(* Properties.                                                             *)

\* Every call of start, restart and stop returns, whatever the backend does: the
\* window, which calls them on its own thread too, does not hang.
CallsEnd == \A t \in Threads \ Monitors : thread[t].at # "idle" ~> thread[t].at = "idle"

\* docs/deployment-architecture.md: "two bounded restarts", for each time it was asked.
RestartsBounded == Len(life) =< requests * (1 + RestartLimit)

\* As long as no stop begins while another thread probes, launches or waits, and no
\* start clears stopping before a monitor has seen it, a process that runs with no call under way is the
\* manager's own, which the next call ends, and none runs once the window has closed.
NoneForgotten ==
    ~raced /\ Quiet => \A p \in DOMAIN life : Alive(p) => p = process /\ owned /\ ~closed

\* docs/deployment-architecture.md: "Closing the desktop gracefully terminates only a
\* backend it launched": none of them outlives the window and the calls under way.
ClosedLeavesNothing == closed /\ Quiet => \A p \in DOMAIN life : ~Alive(p)

==============================================================================

---------------------------- MODULE DesktopProofs ----------------------------
(***************************************************************************)
(* The desktop application: how many processes its supervisor launches,    *)
(* that it loses none of them, for every set of threads and every restart  *)
(* limit; refresh tokens and signing out, for every number of tokens and   *)
(* requests.                                                               *)
(***************************************************************************)
EXTENDS Supervisor, SignIn, FiniteSetTheorems, TLAPS

-----------------------------------------------------------------------------
(* The local backend's supervisor.                                         *)

\* A call that has yet to stop what runs before it starts, and a thread that may be
\* about to launch.
Begins(x)   == x.at \in {"stop", "end", "clear", "join"} /\ x.then = "start"
Launches(x) == x.at \in {"probe", "launch"}

Beginning == {t \in Threads : Begins(thread[t])}
Launching == {t \in Threads : Launches(thread[t])}
Begun     == requests - Cardinality(Beginning)

Places == {"idle", "probe", "launch", "wait", "adopt", "stop", "end", "clear", "join", "watch", "over"}
Moment == [at : Places, then : {"none", "start", "fail", "close"}, took : Nat]

SupervisorTyped ==
    /\ life \in Seq({"starting", "ready", "broken", "exited"})
    /\ restartCount \in 0..RestartLimit /\ requests \in Nat
    /\ process \in Nat /\ thread \in [Threads -> Moment]

\* Each call that has begun may launch once, and a monitor once more for each restart
\* that is left to it: what is launched, and what is about to be, is within that.
LaunchInv ==
    Len(life) + Cardinality(Launching) + (RestartLimit - restartCount)
        =< Begun * (1 + RestartLimit)

Inv == SupervisorTyped /\ LaunchInv

LEMMA Finite ==
    /\ IsFiniteSet(Threads)
    /\ \A S \in SUBSET Threads : IsFiniteSet(S) /\ Cardinality(S) \in Nat
<1>1. IsFiniteSet({UI}) /\ IsFiniteSet(Pool) /\ IsFiniteSet(Monitors)
  BY FS_Singleton, SupervisorAssumption DEF SupervisorAssumption
<1>2. IsFiniteSet(Threads)
  BY <1>1, FS_Union DEF Threads
<1>. QED
  BY <1>2, FS_Subset, FS_CardinalityType

\* A set of threads of which one may join or leave.
LEMMA OneChanges ==
    ASSUME NEW S \in SUBSET Threads, NEW T \in SUBSET Threads, NEW t \in Threads,
           \A u \in Threads \ {t} : u \in T <=> u \in S
    PROVE  Cardinality(T) = Cardinality(S) + (IF t \in T THEN 1 ELSE 0)
                                           - (IF t \in S THEN 1 ELSE 0)
<1>0. IsFiniteSet(S) /\ IsFiniteSet(T) /\ Cardinality(S) \in Nat /\ Cardinality(T) \in Nat
  BY Finite
<1>1. CASE t \in S /\ t \in T
  <2>1. S = T
    BY <1>1
  <2>. QED
    BY <1>0, <1>1, <2>1
<1>2. CASE t \in S /\ t \notin T
  <2>1. T = S \ {t}
    BY <1>2
  <2>2. Cardinality(T) = Cardinality(S) - 1
    BY <1>0, <1>2, <2>1, FS_RemoveElement
  <2>. QED
    BY <1>0, <1>2, <2>2
<1>3. CASE t \notin S /\ t \in T
  <2>1. T = S \cup {t}
    BY <1>3
  <2>2. Cardinality(T) = Cardinality(S) + 1
    BY <1>0, <1>3, <2>1, FS_AddElement
  <2>. QED
    BY <1>0, <1>3, <2>2
<1>4. CASE t \notin S /\ t \notin T
  <2>1. S = T
    BY <1>4
  <2>. QED
    BY <1>0, <1>4, <2>1
<1>. QED
  BY <1>1, <1>2, <1>3, <1>4

\* What one thread's move from x to y changes.
LEMMA OneMoves ==
    ASSUME SupervisorTyped, NEW t \in Threads, NEW y \in Moment,
           thread' = [thread EXCEPT ![t] = y]
    PROVE  /\ thread' \in [Threads -> Moment]
           /\ Cardinality(Beginning') = Cardinality(Beginning)
                 + (IF Begins(y) THEN 1 ELSE 0) - (IF Begins(thread[t]) THEN 1 ELSE 0)
           /\ Cardinality(Launching') = Cardinality(Launching)
                 + (IF Launches(y) THEN 1 ELSE 0) - (IF Launches(thread[t]) THEN 1 ELSE 0)
<1>1. \A u \in Threads : thread'[u] = IF u = t THEN y ELSE thread[u]
  BY DEF SupervisorTyped
<1>2. /\ Beginning \in SUBSET Threads /\ Beginning' \in SUBSET Threads
      /\ Launching \in SUBSET Threads /\ Launching' \in SUBSET Threads
  BY DEF Beginning, Launching
<1>3. /\ \A u \in Threads \ {t} : u \in Beginning' <=> u \in Beginning
      /\ \A u \in Threads \ {t} : u \in Launching' <=> u \in Launching
  BY <1>1 DEF Beginning, Launching, Begins, Launches
<1>4. /\ t \in Beginning' <=> Begins(y)
      /\ t \in Beginning <=> Begins(thread[t])
  BY <1>1 DEF Beginning, Begins
<1>5. /\ t \in Launching' <=> Launches(y)
      /\ t \in Launching <=> Launches(thread[t])
  BY <1>1 DEF Launching, Launches
<1>6. /\ Cardinality(Beginning') = Cardinality(Beginning)
            + (IF Begins(y) THEN 1 ELSE 0) - (IF Begins(thread[t]) THEN 1 ELSE 0)
      /\ Cardinality(Launching') = Cardinality(Launching)
            + (IF Launches(y) THEN 1 ELSE 0) - (IF Launches(thread[t]) THEN 1 ELSE 0)
  BY <1>2, <1>3, <1>4, <1>5, OneChanges
<1>. QED
  BY <1>1, <1>6 DEF SupervisorTyped

\* Where a thread goes to.
LEMMA GoesAs ==
    ASSUME SupervisorTyped, NEW t \in Threads, NEW stage \in Places, Goes(t, stage)
    PROVE  \E y \in Moment : /\ y = [at |-> stage, then |-> thread[t].then, took |-> thread[t].took]
                             /\ thread' = [thread EXCEPT ![t] = y]
<1>1. thread[t] \in Moment
  BY DEF SupervisorTyped
<1>2. [thread[t] EXCEPT !.at = stage] = [at |-> stage, then |-> thread[t].then, took |-> thread[t].took]
  BY <1>1 DEF Moment, Places
<1>3. thread' = [thread EXCEPT ![t] = [thread[t] EXCEPT !.at = stage]]
  BY DEF Goes
<1>4. [at |-> stage, then |-> thread[t].then, took |-> thread[t].took] \in Moment
  BY <1>1 DEF Moment, Places
<1>. QED
  BY <1>2, <1>3, <1>4

LEMMA ReturnsAs ==
    ASSUME NEW t \in Threads, Returns(t)
    PROVE  \E y \in Moment : thread' = [thread EXCEPT ![t] = y] /\ ~Begins(y) /\ ~Launches(y)
<1>1. PICK stage \in {"watch", "idle"} :
          thread' = [thread EXCEPT ![t] = [at |-> stage, then |-> "none", took |-> 0]]
  <2>1. [AtRest EXCEPT !.at = "watch"] = [at |-> "watch", then |-> "none", took |-> 0]
    BY DEF AtRest
  <2>2. [AtRest EXCEPT !.at = "idle"] = [at |-> "idle", then |-> "none", took |-> 0]
    BY DEF AtRest
  <2>3. CASE t \in Monitors
    BY <2>1, <2>3 DEF Returns
  <2>4. CASE t \notin Monitors
    BY <2>2, <2>4 DEF Returns
  <2>. QED
    BY <2>3, <2>4
<1>2. [at |-> stage, then |-> "none", took |-> 0] \in Moment
  BY DEF Moment, Places
<1>3. ~Begins([at |-> stage, then |-> "none", took |-> 0])
      /\ ~Launches([at |-> stage, then |-> "none", took |-> 0])
  BY DEF Begins, Launches
<1>. QED
  BY <1>1, <1>2, <1>3

\* A move that neither begins nor launches anything, or gives a launch up.
LEMMA QuietMove ==
    ASSUME Inv, NEW t \in Threads, NEW y \in Moment,
           thread' = [thread EXCEPT ![t] = y], process' \in Nat,
           Begins(y) <=> Begins(thread[t]), Launches(y) => Launches(thread[t]),
           life' \in Seq({"starting", "ready", "broken", "exited"}), Len(life') = Len(life),
           UNCHANGED <<restartCount, requests>>
    PROVE  Inv'
<1>1. /\ Cardinality(Beginning') = Cardinality(Beginning)
      /\ Cardinality(Launching') =< Cardinality(Launching)
  <2>1. Cardinality(Beginning) \in Nat /\ Cardinality(Launching) \in Nat
    BY Finite DEF Beginning, Launching
  <2>2. /\ Cardinality(Beginning') = Cardinality(Beginning)
             + (IF Begins(y) THEN 1 ELSE 0) - (IF Begins(thread[t]) THEN 1 ELSE 0)
        /\ Cardinality(Launching') = Cardinality(Launching)
             + (IF Launches(y) THEN 1 ELSE 0) - (IF Launches(thread[t]) THEN 1 ELSE 0)
    BY OneMoves DEF Inv
  <2>. QED
    BY <2>1, <2>2
<1>2. SupervisorTyped'
  BY OneMoves DEF Inv, SupervisorTyped
<1>3. /\ Cardinality(Launching) \in Nat /\ Cardinality(Launching') \in Nat
      /\ RestartLimit \in Nat /\ restartCount \in Nat /\ Len(life) \in Nat
  BY Finite, SupervisorAssumption DEF Beginning, Launching, SupervisorAssumption, Inv, SupervisorTyped
<1>4. Begun' = Begun
  BY <1>1 DEF Begun
<1>5. LaunchInv'
  <2>1. Begun * (1 + RestartLimit) \in Int
    <3>1. Begun \in Int
      BY Finite DEF Begun, Beginning, Inv, SupervisorTyped
    <3>. QED
      BY <1>3, <3>1
  <2>. QED
    BY <1>1, <1>3, <1>4, <2>1 DEF Inv, LaunchInv
<1>. QED
  BY <1>2, <1>5 DEF Inv

LEMMA Numbers ==
    ASSUME Inv
    PROVE  /\ Cardinality(Beginning) \in Nat /\ Cardinality(Launching) \in Nat
           /\ RestartLimit \in Nat /\ restartCount \in 0..RestartLimit /\ Len(life) \in Nat
           /\ Begun \in Int /\ requests \in Nat
<1>1. Cardinality(Beginning) \in Nat /\ Cardinality(Launching) \in Nat
  BY Finite DEF Beginning, Launching
<1>. QED
  BY <1>1, SupervisorAssumption DEF SupervisorAssumption, Inv, SupervisorTyped, Begun

LEMMA Times == ASSUME NEW m \in Int, NEW n \in Int PROVE (m + 1) * n = m * n + n /\ m * n \in Int
OBVIOUS

LEMMA TimesMonotone == ASSUME NEW m \in Int, NEW n \in Int, m =< n, NEW k \in Nat PROVE m * k =< n * k
<1>1. PICK d \in Nat : n = m + d
  BY n - m \in Nat
<1>2. n * k = m * k + d * k /\ d * k >= 0 /\ m * k \in Int
  BY <1>1
<1>. QED
  BY <1>2

------------------------------------------------------------------------------
(* The steps that count.                                                   *)

LEMMA LaunchStep ==
    ASSUME Inv, NEW t \in Threads, Launch(t)
    PROVE  Inv'
<1>1. PICK y \in Moment : /\ y = [at |-> "wait", then |-> thread[t].then, took |-> thread[t].took]
                         /\ thread' = [thread EXCEPT ![t] = y]
  BY GoesAs DEF Launch, Inv, Places
<1>2. ~Begins(y) /\ ~Launches(y) /\ Launches(thread[t]) /\ ~Begins(thread[t])
  BY <1>1 DEF Launch, Begins, Launches
<1>3. /\ Cardinality(Beginning') = Cardinality(Beginning)
      /\ Cardinality(Launching') = Cardinality(Launching) - 1
  <2>1. /\ Cardinality(Beginning') = Cardinality(Beginning)
             + (IF Begins(y) THEN 1 ELSE 0) - (IF Begins(thread[t]) THEN 1 ELSE 0)
        /\ Cardinality(Launching') = Cardinality(Launching)
             + (IF Launches(y) THEN 1 ELSE 0) - (IF Launches(thread[t]) THEN 1 ELSE 0)
    BY <1>1, <1>2, OneMoves DEF Inv
  <2>. QED
    BY <1>1, <1>2, <2>1, Numbers
<1>4. /\ life' \in Seq({"starting", "ready", "broken", "exited"}) /\ Len(life') = Len(life) + 1
      /\ process' \in Nat
  BY DEF Launch, Inv, SupervisorTyped
<1>5. UNCHANGED <<restartCount, requests>>
  BY DEF Launch
<1>6. SupervisorTyped'
  BY <1>1, <1>2, <1>4, <1>5, OneMoves DEF Inv, SupervisorTyped
<1>7. Begun' = Begun
  BY <1>3, <1>5 DEF Begun
<1>8. LaunchInv'
  <2>1. Begun * (1 + RestartLimit) \in Int
    BY Numbers
  <2>. QED
    BY <1>3, <1>4, <1>5, <1>7, <2>1, Numbers DEF Inv, LaunchInv
<1>. QED
  BY <1>6, <1>8 DEF Inv

\* A crash uses up one of the restarts left.
LEMMA WatchStep ==
    ASSUME Inv, NEW m \in Monitors, Watch(m)
    PROVE  Inv'
<1>0. m \in Threads /\ ~Begins(thread[m]) /\ ~Launches(thread[m])
  BY DEF Watch, Begins, Launches, Threads
<1>1. CASE restartCount' = restartCount /\ Goes(m, "over")
  <2>1. PICK y \in Moment : /\ y = [at |-> "over", then |-> thread[m].then, took |-> thread[m].took]
                           /\ thread' = [thread EXCEPT ![m] = y]
    BY <1>0, <1>1, GoesAs DEF Inv, Places
  <2>2. ~Begins(y) /\ ~Launches(y)
    BY <2>1 DEF Begins, Launches
  <2>3. life' = life /\ requests' = requests /\ process' \in Nat /\ life \in Seq({"starting", "ready", "broken", "exited"})
    BY DEF Watch, Inv, SupervisorTyped
  <2>. QED
    BY <1>0, <1>1, <2>1, <2>2, <2>3, QuietMove
<1>2. CASE ~GivesUp /\ restartCount' = restartCount + 1 /\ Goes(m, "launch")
  <2>1. PICK y \in Moment : /\ y = [at |-> "launch", then |-> thread[m].then, took |-> thread[m].took]
                           /\ thread' = [thread EXCEPT ![m] = y]
    BY <1>0, <1>2, GoesAs DEF Inv, Places
  <2>2. ~Begins(y) /\ Launches(y)
    BY <2>1 DEF Begins, Launches
  <2>3. /\ Cardinality(Beginning') = Cardinality(Beginning)
        /\ Cardinality(Launching') = Cardinality(Launching) + 1
    <3>1. /\ Cardinality(Beginning') = Cardinality(Beginning)
               + (IF Begins(y) THEN 1 ELSE 0) - (IF Begins(thread[m]) THEN 1 ELSE 0)
          /\ Cardinality(Launching') = Cardinality(Launching)
               + (IF Launches(y) THEN 1 ELSE 0) - (IF Launches(thread[m]) THEN 1 ELSE 0)
      BY <1>0, <2>1, <2>2, OneMoves DEF Inv
    <3>. QED
      BY <1>0, <2>1, <2>2, <3>1, Numbers
  <2>4. life' = life /\ requests' = requests /\ process' = process
    BY DEF Watch
  <2>5. restartCount' \in 0..RestartLimit
    BY <1>2, Numbers DEF GivesUp
  <2>6. SupervisorTyped'
    BY <1>0, <2>1, <2>2, <2>4, <2>5, OneMoves DEF Inv, SupervisorTyped
  <2>7. Begun' = Begun
    BY <2>3, <2>4 DEF Begun
  <2>8. LaunchInv'
    <3>1. Begun * (1 + RestartLimit) \in Int
      BY Numbers
    <3>. QED
      BY <1>2, <2>3, <2>4, <2>7, <3>1, Numbers DEF Inv, LaunchInv
  <2>. QED
    BY <2>6, <2>8 DEF Inv
<1>. QED
  BY <1>1, <1>2 DEF Watch

\* A call that has stopped what ran begins: it may launch, and has all restarts ahead.
LEMMA JoinStep ==
    ASSUME Inv, NEW t \in Threads, Join(t)
    PROVE  Inv'
<1>0. /\ life' = life /\ requests' = requests /\ process' \in Nat
      /\ life \in Seq({"starting", "ready", "broken", "exited"})
  BY DEF Join, Inv, SupervisorTyped
<1>1. CASE thread[t].then = "start"
  <2>0. restartCount' = 0 /\ Goes(t, "probe") /\ thread[t].at = "join"
    BY <1>1 DEF Join
  <2>1. PICK y \in Moment : /\ y = [at |-> "probe", then |-> thread[t].then, took |-> thread[t].took]
                           /\ thread' = [thread EXCEPT ![t] = y]
    BY <2>0, GoesAs DEF Inv, Places
  <2>2. ~Begins(y) /\ Launches(y) /\ Begins(thread[t]) /\ ~Launches(thread[t])
    BY <1>1, <2>0, <2>1 DEF Begins, Launches
  <2>3. /\ Cardinality(Beginning') = Cardinality(Beginning) - 1
        /\ Cardinality(Launching') = Cardinality(Launching) + 1
    <3>1. /\ Cardinality(Beginning') = Cardinality(Beginning)
               + (IF Begins(y) THEN 1 ELSE 0) - (IF Begins(thread[t]) THEN 1 ELSE 0)
          /\ Cardinality(Launching') = Cardinality(Launching)
               + (IF Launches(y) THEN 1 ELSE 0) - (IF Launches(thread[t]) THEN 1 ELSE 0)
      BY <2>1, <2>2, OneMoves DEF Inv
    <3>. QED
      BY <2>1, <2>2, <3>1, Numbers
  <2>4. SupervisorTyped'
    BY <1>0, <2>0, <2>1, OneMoves, Numbers DEF Inv, SupervisorTyped
  <2>5. Begun' = Begun + 1
    BY <1>0, <2>3, Numbers DEF Begun
  <2>6. Begun' * (1 + RestartLimit) = Begun * (1 + RestartLimit) + (1 + RestartLimit)
        /\ Begun * (1 + RestartLimit) \in Int
    <3>1. Begun \in Int /\ 1 + RestartLimit \in Int
      BY Numbers
    <3>2. (Begun + 1) * (1 + RestartLimit) = Begun * (1 + RestartLimit) + (1 + RestartLimit)
          /\ Begun * (1 + RestartLimit) \in Int
      BY ONLY <3>1, Times
    <3>. QED
      BY <2>5, <3>2
  <2>7. LaunchInv'
    BY <1>0, <2>0, <2>3, <2>6, Numbers, SMTT(30) DEF Inv, LaunchInv
  <2>. QED
    BY <2>4, <2>7 DEF Inv
<1>2. CASE thread[t].then # "start"
  <2>1. restartCount' = restartCount /\ Returns(t)
    BY <1>2 DEF Join
  <2>2. PICK y \in Moment : thread' = [thread EXCEPT ![t] = y] /\ ~Begins(y) /\ ~Launches(y)
    BY <2>1, ReturnsAs
  <2>3. ~Begins(thread[t])
    BY <1>2 DEF Begins
  <2>. QED
    BY <1>0, <2>1, <2>2, <2>3, QuietMove
<1>. QED
  BY <1>1, <1>2

\* A call is asked for: it has yet to begin.
LEMMA RequestStep ==
    ASSUME Inv, NEW t \in Threads, thread[t].at = "idle", Request(t)
    PROVE  Inv'
<1>1. PICK y \in Moment : y = [at |-> "stop", then |-> "start", took |-> 0]
  BY DEF Moment, Places
<1>2. thread' = [thread EXCEPT ![t] = y] /\ Begins(y) /\ ~Launches(y)
      /\ ~Begins(thread[t]) /\ ~Launches(thread[t])
  BY <1>1 DEF Request, Stops, Begins, Launches
<1>3. /\ Cardinality(Beginning') = Cardinality(Beginning) + 1
      /\ Cardinality(Launching') = Cardinality(Launching)
  <2>1. /\ Cardinality(Beginning') = Cardinality(Beginning)
             + (IF Begins(y) THEN 1 ELSE 0) - (IF Begins(thread[t]) THEN 1 ELSE 0)
        /\ Cardinality(Launching') = Cardinality(Launching)
             + (IF Launches(y) THEN 1 ELSE 0) - (IF Launches(thread[t]) THEN 1 ELSE 0)
    BY <1>1, <1>2, OneMoves DEF Inv
  <2>. QED
    BY <1>1, <1>2, <2>1, Numbers
<1>4. life' = life /\ restartCount' = restartCount /\ requests' = requests + 1
      /\ process' = process
  BY DEF Request, manager
<1>5. SupervisorTyped'
  BY <1>1, <1>2, <1>4, OneMoves DEF Inv, SupervisorTyped
<1>6. Begun' = Begun
  BY <1>3, <1>4, Numbers DEF Begun
<1>7. LaunchInv'
  BY <1>3, <1>4, <1>6 DEF Inv, LaunchInv
<1>. QED
  BY <1>5, <1>7 DEF Inv

------------------------------------------------------------------------------
(* The steps that do not.                                                  *)

LEMMA ManagerStill ==
    ASSUME Inv, UNCHANGED <<thread, process, restartCount, requests>>,
           life' \in Seq({"starting", "ready", "broken", "exited"}), Len(life') = Len(life)
    PROVE  Inv'
BY DEF Inv, SupervisorTyped, LaunchInv, Begun, Beginning, Launching, Begins, Launches

\* A thread goes to a stage that neither begins nor launches anything.
LEMMA GoesStep ==
    ASSUME Inv, NEW t \in Threads, NEW stage \in {"launch", "adopt", "watch", "end", "clear", "join"},
           Goes(t, stage), stage = "launch" => Launches(thread[t]),
           IF stage \in {"end", "clear", "join"} THEN thread[t].at \in {"stop", "end", "clear"}
           ELSE thread[t].at \in {"probe", "wait"},
           life' \in Seq({"starting", "ready", "broken", "exited"}), Len(life') = Len(life),
           process' \in Nat, UNCHANGED <<restartCount, requests>>
    PROVE  Inv'
<1>1. PICK y \in Moment : y = [at |-> stage, then |-> thread[t].then, took |-> thread[t].took]
                         /\ thread' = [thread EXCEPT ![t] = y]
  BY GoesAs DEF Inv, Places
<1>3. Begins(y) <=> Begins(thread[t])
  BY <1>1 DEF Begins
<1>4. Launches(y) => Launches(thread[t])
  BY <1>1 DEF Launches
<1>. QED
  BY <1>1, <1>3, <1>4, QuietMove

\* A call returns, or one that failed or closes begins to stop what runs.
LEMMA EndsStep ==
    ASSUME Inv, NEW t \in Threads, ~Begins(thread[t]),
           Returns(t) \/ Stops(t, "fail") \/ Stops(t, "close"),
           UNCHANGED <<life, process, restartCount, requests>>
    PROVE  Inv'
<1>1. PICK y \in Moment : thread' = [thread EXCEPT ![t] = y] /\ ~Begins(y) /\ ~Launches(y)
  <2>1. CASE Returns(t)
    BY <2>1, ReturnsAs
  <2>2. ASSUME NEW next \in {"fail", "close"}, Stops(t, next)
        PROVE  \E y \in Moment : thread' = [thread EXCEPT ![t] = y] /\ ~Begins(y) /\ ~Launches(y)
    <3>1. [at |-> "stop", then |-> next, took |-> 0] \in Moment
      BY DEF Moment, Places
    <3>2. ~Begins([at |-> "stop", then |-> next, took |-> 0])
          /\ ~Launches([at |-> "stop", then |-> next, took |-> 0])
      BY DEF Begins, Launches
    <3>. QED
      BY <2>2, <3>1, <3>2 DEF Stops
  <2>. QED
    BY <2>1, <2>2
<1>2. /\ life' \in Seq({"starting", "ready", "broken", "exited"}) /\ Len(life') = Len(life)
      /\ process' \in Nat
  BY DEF Inv, SupervisorTyped
<1>. QED
  BY <1>1, <1>2, QuietMove

LEMMA AdoptStep ==
    ASSUME Inv, NEW t \in Threads, AdoptBackend(t)
    PROVE  Inv'
<1>1. PICK m \in Monitors :
          /\ thread[m].at = "idle"
          /\ thread' = [thread EXCEPT ![t] = AtRest, ![m].at = "watch"]
  BY DEF AdoptBackend
<1>2. m \in Threads /\ t # m /\ thread[t].at = "adopt"
  BY <1>1 DEF AdoptBackend, Threads
<1>3. PICK x \in Moment : /\ x = [at |-> "watch", then |-> thread[m].then, took |-> thread[m].took]
                         /\ x = [thread[m] EXCEPT !.at = "watch"]
  <2>1. thread[m] \in Moment
    BY <1>2 DEF Inv, SupervisorTyped
  <2>2. [thread[m] EXCEPT !.at = "watch"]
            = [at |-> "watch", then |-> thread[m].then, took |-> thread[m].took]
    BY <2>1 DEF Moment
  <2>3. [at |-> "watch", then |-> thread[m].then, took |-> thread[m].took] \in Moment
    BY <2>1 DEF Moment, Places
  <2>. QED
    BY <2>2, <2>3
<1>4. \A u \in Threads : thread'[u] = IF u = t THEN AtRest ELSE IF u = m THEN x ELSE thread[u]
  BY <1>1, <1>2, <1>3 DEF Inv, SupervisorTyped
<1>5. Beginning' = Beginning /\ Launching' = Launching
  <2>1. ~Begins(AtRest) /\ ~Launches(AtRest) /\ ~Begins(x) /\ ~Launches(x)
    BY <1>3 DEF Begins, Launches, AtRest
  <2>2. ~Begins(thread[t]) /\ ~Launches(thread[t]) /\ ~Begins(thread[m]) /\ ~Launches(thread[m])
    BY <1>1, <1>2 DEF Begins, Launches
  <2>3. \A u \in Threads : Begins(thread'[u]) <=> Begins(thread[u])
    BY <1>4, <2>1, <2>2
  <2>4. \A u \in Threads : Launches(thread'[u]) <=> Launches(thread[u])
    BY <1>4, <2>1, <2>2
  <2>. QED
    BY <2>3, <2>4 DEF Beginning, Launching
<1>6. life' = life /\ restartCount' = restartCount /\ requests' = requests /\ process' = process
  BY DEF AdoptBackend
<1>7. SupervisorTyped'
  <2>1. AtRest \in Moment
    BY DEF AtRest, Moment, Places
  <2>2. thread' \in [Threads -> Moment]
    BY <1>1, <1>2, <1>3, <2>1 DEF Inv, SupervisorTyped
  <2>. QED
    BY <1>6, <2>2 DEF Inv, SupervisorTyped
<1>. QED
  BY <1>5, <1>6, <1>7 DEF Inv, LaunchInv, Begun

LEMMA ThreadStep ==
    ASSUME Inv, NEW t \in Threads, Step(t)
    PROVE  Inv'
<1>0. life \in Seq({"starting", "ready", "broken", "exited"}) /\ process \in Nat
  BY DEF Inv, SupervisorTyped
<1>1. CASE Probe(t)
  <2>1. thread[t].at = "probe" /\ UNCHANGED <<life, process, restartCount, requests>>
    BY <1>1 DEF Probe
  <2>2. Returns(t) \/ Goes(t, "launch")
    BY <1>1 DEF Probe
  <2>. QED
    BY <1>0, <2>1, <2>2, GoesStep, EndsStep DEF Begins, Launches
<1>2. CASE Launch(t)
  BY <1>2, LaunchStep
<1>3. CASE WaitReady(t)
  <2>1. thread[t].at = "wait" /\ UNCHANGED <<life, process, restartCount, requests>>
    BY <1>3 DEF WaitReady, manager
  <2>2. Stops(t, "fail") \/ Returns(t) \/ Goes(t, "watch") \/ Goes(t, "adopt")
    BY <1>3 DEF WaitReady
  <2>. QED
    BY <1>0, <2>1, <2>2, GoesStep, EndsStep DEF Begins
<1>4. CASE Deadline(t)
  BY <1>4, EndsStep DEF Deadline, Begins, manager
<1>5. CASE AdoptBackend(t)
  BY <1>5, AdoptStep
<1>6. CASE StopBegins(t)
  <2>0. thread[t] \in Moment
    BY DEF Inv, SupervisorTyped
  <2>1. PICK took \in Nat :
            thread' = [thread EXCEPT ![t] = [thread[t] EXCEPT !.at = "end", !.took = took]]
    BY <1>0, <1>6 DEF StopBegins
  <2>2. PICK y \in Moment : /\ y.at = "end" /\ y.then = thread[t].then
                           /\ thread' = [thread EXCEPT ![t] = y]
    <3>1. PICK y : y = [thread[t] EXCEPT !.at = "end", !.took = took]
      OBVIOUS
    <3>2. y \in Moment /\ y.at = "end" /\ y.then = thread[t].then
      BY <2>0, <3>1 DEF Moment, Places
    <3>. QED
      BY <2>1, <3>1, <3>2
  <2>3. Begins(y) <=> Begins(thread[t])
    BY <1>6, <2>2 DEF StopBegins, Begins
  <2>4. ~Launches(y)
    BY <2>2 DEF Launches
  <2>5. UNCHANGED <<life, process, restartCount, requests>>
    BY <1>6 DEF StopBegins
  <2>. QED
    BY <1>0, <2>2, <2>3, <2>4, <2>5, QuietMove
<1>7. CASE Terminate(t)
  <2>1. life' \in Seq({"starting", "ready", "broken", "exited"}) /\ Len(life') = Len(life)
    BY <1>0, <1>7 DEF Terminate
  <2>2. thread[t].at = "end" /\ Goes(t, "clear") /\ UNCHANGED <<process, restartCount, requests>>
    BY <1>7 DEF Terminate, manager
  <2>. QED
    BY <1>0, <2>1, <2>2, GoesStep
<1>8. CASE Clear(t)
  <2>1. /\ thread[t].at = "clear" /\ Goes(t, "join") /\ process' = 0
        /\ UNCHANGED <<life, restartCount, requests>>
    BY <1>8 DEF Clear
  <2>. QED
    BY <1>0, <2>1, GoesStep
<1>9. CASE Join(t)
  BY <1>9, JoinStep
<1>. QED
  BY <1>1, <1>2, <1>3, <1>4, <1>5, <1>6, <1>7, <1>8, <1>9 DEF Step

LEMMA NextInv ==
    ASSUME Inv, [SupervisorNext]_supervisorVars
    PROVE  Inv'
<1>0. life \in Seq({"starting", "ready", "broken", "exited"})
  BY DEF Inv, SupervisorTyped
<1>1. ASSUME NEW t \in Threads, Step(t) PROVE Inv'
  BY <1>1, ThreadStep
<1>2. ASSUME NEW m \in Monitors, Watch(m) PROVE Inv'
  BY <1>2, WatchStep
<1>3. ASSUME NEW p \in DOMAIN life, Serves(p) \/ Breaks(p) \/ Exits(p) PROVE Inv'
  <2>1. PICK stage \in {"ready", "broken", "exited"} : Becomes(p, stage)
    BY <1>3 DEF Serves, Breaks, Exits
  <2>2. life' \in Seq({"starting", "ready", "broken", "exited"}) /\ Len(life') = Len(life)
    BY <1>0, <2>1 DEF Becomes
  <2>3. UNCHANGED <<thread, process, restartCount, requests>>
    BY <2>1 DEF Becomes, manager
  <2>. QED
    BY <2>2, <2>3, ManagerStill
<1>4. CASE ForeignEnds
  BY <1>0, <1>4, ManagerStill DEF ForeignEnds, manager
<1>5. CASE RestartBackend
  BY <1>5, RequestStep DEF RestartBackend, Threads
<1>6. CASE SaveKey
  BY <1>6, RequestStep DEF SaveKey, Request, Threads
<1>7. CASE CloseEvent
  BY <1>7, EndsStep DEF CloseEvent, Begins, Threads, manager
<1>8. CASE UNCHANGED supervisorVars
  BY <1>0, <1>8, ManagerStill DEF supervisorVars, manager
<1>. QED
  BY <1>1, <1>2, <1>3, <1>4, <1>5, <1>6, <1>7, <1>8 DEF SupervisorNext

LEMMA InitInv == SupervisorInit => Inv
<1> SUFFICES ASSUME SupervisorInit PROVE Inv
  OBVIOUS
<1>1. PICK w \in Pool : thread = [t \in Threads |-> IF t = w THEN [AtRest EXCEPT !.at = "probe"] ELSE AtRest]
  BY DEF SupervisorInit
<1>2. w \in Threads /\ RestartLimit \in Nat
  BY SupervisorAssumption DEF Threads, SupervisorAssumption
<1>3. Beginning = {} /\ Launching = {w}
  BY <1>1, <1>2 DEF Beginning, Launching, Begins, Launches, AtRest
<1>4. Cardinality(Beginning) = 0 /\ Cardinality(Launching) = 1
  BY <1>3, FS_EmptySet, FS_Singleton
<1>5. SupervisorTyped
  <2>1. thread \in [Threads -> Moment]
    BY <1>1 DEF AtRest, Moment, Places
  <2>. QED
    BY <1>2, <2>1 DEF SupervisorInit, SupervisorTyped
<1>6. Begun = 1 /\ Len(life) = 0 /\ restartCount = 0
  BY <1>4 DEF SupervisorInit, Begun
<1>7. LaunchInv
  BY <1>2, <1>4, <1>6 DEF LaunchInv
<1>. QED
  BY <1>5, <1>7 DEF Inv

\* However threads interleave, the supervisor launches no more than one process and its
\* bounded restarts for each time it was asked (LocalBackendManager._monitor_process).
THEOREM RestartsAlwaysBounded == SupervisorSpec => []RestartsBounded
<1>1. Inv => RestartsBounded
  <2> SUFFICES ASSUME Inv PROVE RestartsBounded
    OBVIOUS
  <2>1. Begun =< requests
    BY Numbers DEF Begun
  <2>2. Begun * (1 + RestartLimit) =< requests * (1 + RestartLimit)
    BY <2>1, TimesMonotone, Numbers
  <2>3. Len(life) =< Begun * (1 + RestartLimit)
    <3>1. Begun * (1 + RestartLimit) \in Int
      BY Numbers
    <3>. QED
      BY <3>1, Numbers DEF Inv, LaunchInv
  <2>4. Begun * (1 + RestartLimit) \in Int /\ requests * (1 + RestartLimit) \in Int
    BY Numbers
  <2>. QED
    BY <2>2, <2>3, <2>4, Numbers DEF RestartsBounded
<1>. QED
  BY <1>1, InitInv, NextInv, PTL DEF SupervisorSpec

------------------------------------------------------------------------------
(* Which processes run.                                                    *)

\* A thread in the middle of a call or of a relaunch, and a monitor that has started
\* and not ended.
Busy(t) == thread[t].at \in {"probe", "launch", "wait", "adopt", "end", "clear", "join"}
Live(m) == thread[m].at \notin {"idle", "over"}
NoMonitor == \A m \in Monitors : ~Live(m)

\* Which threads do what.
RolesInv ==
    /\ process \in 0..Len(life)
    /\ \A m \in Monitors : /\ thread[m].at \notin {"probe", "adopt"}
                           /\ thread[m].then \notin {"start", "close"}
    /\ \A t \in Threads \ Monitors : thread[t].at \notin {"watch", "over"}
    /\ \A t \in Threads : thread[t].then = "close" => t = UI

\* Without a race the calls and relaunches exclude each other.
ExclusionInv ==
    /\ \A t, u \in Threads : Busy(t) /\ Busy(u) => t = u
    /\ \A m, n \in Monitors : Live(m) /\ Live(n) => m = n
    /\ \A t \in Threads :
          /\ thread[t].at \in {"launch", "wait", "adopt"} => t \in Monitors \/ NoMonitor
          /\ thread[t].at \in {"end", "clear", "join"} => stopping
          /\ thread[t].at = "probe" => stopping \/ NoMonitor
    /\ thread[UI].at \in {"end", "clear", "join"} => OthersRest(UI)

\* What runs is the manager's, and is not there when another is launched.
OwnedInv ==
    /\ \A p \in DOMAIN life : Alive(p) => p = process /\ owned
    /\ \A t \in Threads :
          /\ thread[t].at \in {"probe", "launch", "clear", "join"} => ~Alive(process)
          /\ thread[t].at = "end" /\ Alive(process) => thread[t].took = process

\* After the window has closed nothing is under way, and nothing will be.
ClosedInv ==
    closed => /\ \A t \in Threads : thread[t].at \in Resting
              /\ stopping
              /\ \A p \in DOMAIN life : ~Alive(p)

OwnershipInv == RolesInv /\ (~raced => ExclusionInv /\ OwnedInv /\ ClosedInv)

LEMMA ThreadsAre ==
    /\ UI \in Threads \ Monitors /\ Monitors \subseteq Threads
    /\ Pool \subseteq Threads \ Monitors
BY SupervisorAssumption DEF SupervisorAssumption, Threads

\* What each way to move a thread leaves it at.
LEMMA GoesSeen ==
    ASSUME SupervisorTyped, NEW t \in Threads, NEW stage, Goes(t, stage)
    PROVE  /\ thread'[t].at = stage /\ thread'[t].then = thread[t].then
           /\ thread'[t].took = thread[t].took
           /\ \A u \in Threads \ {t} : thread'[u] = thread[u]
<1>1. thread[t] \in Moment
  BY DEF SupervisorTyped
<1>2. PICK y : y = [thread[t] EXCEPT !.at = stage]
  OBVIOUS
<1>3. y.at = stage /\ y.then = thread[t].then /\ y.took = thread[t].took
  BY <1>1, <1>2 DEF Moment
<1>4. thread' = [thread EXCEPT ![t] = y]
  BY <1>2 DEF Goes
<1>5. thread'[t] = y /\ \A u \in Threads \ {t} : thread'[u] = thread[u]
  BY <1>4 DEF SupervisorTyped
<1>. QED
  BY <1>3, <1>5

LEMMA StopsSeen ==
    ASSUME SupervisorTyped, NEW t \in Threads, NEW next, Stops(t, next)
    PROVE  /\ thread'[t].at = "stop" /\ thread'[t].then = next
           /\ \A u \in Threads \ {t} : thread'[u] = thread[u]
BY DEF SupervisorTyped, Stops

LEMMA ReturnsSeen ==
    ASSUME SupervisorTyped, NEW t \in Threads, Returns(t)
    PROVE  /\ thread'[t].at = IF t \in Monitors THEN "watch" ELSE "idle"
           /\ thread'[t].then = "none"
           /\ \A u \in Threads \ {t} : thread'[u] = thread[u]
<1>1. PICK y : y = [AtRest EXCEPT !.at = IF t \in Monitors THEN "watch" ELSE "idle"]
  OBVIOUS
<1>2. y.at = (IF t \in Monitors THEN "watch" ELSE "idle") /\ y.then = "none"
  BY <1>1 DEF AtRest
<1>3. thread' = [thread EXCEPT ![t] = y]
  BY <1>1 DEF Returns
<1>4. thread'[t] = y /\ \A u \in Threads \ {t} : thread'[u] = thread[u]
  BY <1>3 DEF SupervisorTyped
<1>. QED
  BY <1>2, <1>4

LEMMA RolesKept ==
    ASSUME RolesInv, NEW t \in Threads,
           \A u \in Threads \ {t} : thread'[u] = thread[u],
           IF t \in Monitors THEN thread'[t].at \notin {"probe", "adopt"}
                             ELSE thread'[t].at \notin {"watch", "over"},
           thread'[t].then \in {"none", "fail", thread[t].then},
           process' \in 0..Len(life')
    PROVE  RolesInv'
BY ThreadsAre DEF RolesInv

\* A busy thread moves on: it goes no step back, and is still the only one.
LEMMA ExclusionKept ==
    ASSUME ExclusionInv, NEW t \in Threads, Busy(t),
           \A u \in Threads \ {t} : thread'[u] = thread[u],
           thread'[t].at \in {"launch", "wait", "adopt"} =>
               thread[t].at \in {"launch", "wait", "adopt"} \/ t \in Monitors \/ NoMonitor,
           thread'[t].at \in {"end", "clear", "join"} => thread[t].at \in {"end", "clear", "join"},
           thread'[t].at = "probe" => thread[t].at = "join",
           stopping' = stopping \/ thread'[t].at = "launch"
    PROVE  ExclusionInv'
<1>1. \A u \in Threads : Busy(u)' => u = t
  BY DEF ExclusionInv, Busy
<1>2. \A m \in Monitors : Live(m)' => Live(m)
  BY ThreadsAre DEF Busy, Live
<1>3. NoMonitor => NoMonitor'
  BY <1>2 DEF NoMonitor
<1>4. thread[t].at \in {"end", "clear", "join"} => stopping
  BY DEF ExclusionInv
<1>5. /\ thread'[t].at \in {"launch", "wait", "adopt"} => t \in Monitors \/ NoMonitor'
      /\ thread'[t].at \in {"end", "clear", "join"} => stopping'
      /\ thread'[t].at = "probe" => stopping' \/ NoMonitor'
  BY <1>3, <1>4 DEF ExclusionInv
<1>6. \A u \in Threads :
         /\ thread'[u].at \in {"launch", "wait", "adopt"} => u \in Monitors \/ NoMonitor'
         /\ thread'[u].at \in {"end", "clear", "join"} => stopping'
         /\ thread'[u].at = "probe" => stopping' \/ NoMonitor'
  BY <1>1, <1>5 DEF Busy
<1>7. thread'[UI].at \in {"end", "clear", "join"} => OthersRest(UI)'
  <2> SUFFICES ASSUME thread'[UI].at \in {"end", "clear", "join"} PROVE OthersRest(UI)'
    OBVIOUS
  <2>1. UI = t
    BY <1>1, ThreadsAre DEF Busy
  <2>2. OthersRest(UI)
    BY <2>1 DEF ExclusionInv
  <2>. QED
    BY <2>1, <2>2 DEF OthersRest
<1>. QED
  BY <1>1, <1>2, <1>6, <1>7, ThreadsAre DEF ExclusionInv

LEMMA ProbeOwned ==
    ASSUME Inv, OwnershipInv, NEW t \in Threads, Probe(t)
    PROVE  OwnershipInv'
<1>0. SupervisorTyped /\ thread[t].at = "probe" /\ UNCHANGED <<life, process, closed>>
  BY DEF Inv, Probe
<1>a. t \notin Monitors
  BY <1>0 DEF OwnershipInv, RolesInv
<1>1. CASE Returns(t) /\ owned' = FALSE /\ UNCHANGED <<stopping, raced>>
  <2>1. /\ thread'[t].at = "idle" /\ thread'[t].then = "none"
        /\ \A u \in Threads \ {t} : thread'[u] = thread[u]
    BY <1>0, <1>1, <1>a, ReturnsSeen
  <2>2. RolesInv'
    BY <1>0, <1>a, <2>1, RolesKept DEF OwnershipInv, RolesInv
  <2>3. ASSUME ~raced PROVE ExclusionInv' /\ OwnedInv' /\ ClosedInv'
    <3>0. ExclusionInv /\ OwnedInv /\ ClosedInv
      BY <2>3 DEF OwnershipInv
    <3>1. ExclusionInv'
      BY <1>0, <1>1, <2>1, <3>0, ExclusionKept DEF Busy
    <3>2. \A p \in DOMAIN life : ~Alive(p)
      BY <1>0, <3>0 DEF OwnedInv
    <3>3. OwnedInv'
      BY <1>0, <2>1, <3>0, <3>2 DEF OwnedInv, Alive
    <3>4. ~closed
      BY <1>0, <3>0 DEF ClosedInv, Resting
    <3>. QED
      BY <1>0, <3>1, <3>3, <3>4 DEF ClosedInv
  <2>. QED
    BY <1>1, <2>2, <2>3 DEF OwnershipInv
<1>2. CASE /\ stopping' = FALSE /\ Goes(t, "launch") /\ UNCHANGED owned
           /\ raced' = (raced \/ \E m \in Monitors : thread[m].at \notin {"idle", "over"})
  <2>1. /\ thread'[t].at = "launch" /\ thread'[t].then = thread[t].then
        /\ \A u \in Threads \ {t} : thread'[u] = thread[u]
    BY <1>0, <1>2, GoesSeen
  <2>2. RolesInv'
    BY <1>0, <1>a, <2>1, RolesKept DEF OwnershipInv, RolesInv
  <2>3. ASSUME ~raced' PROVE ExclusionInv' /\ OwnedInv' /\ ClosedInv'
    <3>0. ~raced /\ NoMonitor /\ ExclusionInv /\ OwnedInv /\ ClosedInv
      BY <1>2, <2>3 DEF OwnershipInv, NoMonitor, Live
    <3>1. ExclusionInv'
      BY <1>0, <2>1, <3>0, ExclusionKept DEF Busy
    <3>2. OwnedInv'
      BY <1>0, <1>2, <2>1, <3>0 DEF OwnedInv, Alive
    <3>3. ~closed
      BY <1>0, <3>0 DEF ClosedInv, Resting
    <3>. QED
      BY <1>0, <3>1, <3>2, <3>3 DEF ClosedInv
  <2>. QED
    BY <2>2, <2>3 DEF OwnershipInv
<1>. QED
  BY <1>1, <1>2 DEF Probe

\* The process launched is the only one that runs.
LEMMA LaunchOwned ==
    ASSUME Inv, OwnershipInv, NEW t \in Threads, Launch(t)
    PROVE  OwnershipInv'
<1>0. /\ SupervisorTyped /\ thread[t].at = "launch" /\ UNCHANGED <<stopping, closed, raced>>
      /\ life \in Seq({"starting", "ready", "broken", "exited"})
      /\ life' = Append(life, "starting") /\ process' = Len(life) + 1 /\ owned' = TRUE
  BY DEF Inv, SupervisorTyped, Launch
<1>1. /\ thread'[t].at = "wait" /\ thread'[t].then = thread[t].then
      /\ \A u \in Threads \ {t} : thread'[u] = thread[u]
  BY <1>0, GoesSeen DEF Launch
<1>2. /\ Len(life) \in Nat /\ Len(life') = Len(life) + 1
      /\ DOMAIN life' = 1..(Len(life) + 1) /\ DOMAIN life = 1..Len(life)
      /\ \A p \in DOMAIN life : life'[p] = life[p]
  BY <1>0
<1>3. RolesInv'
  BY <1>0, <1>1, <1>2, RolesKept DEF OwnershipInv, RolesInv
<1>4. ASSUME ~raced PROVE ExclusionInv' /\ OwnedInv' /\ ClosedInv'
  <2>0. ExclusionInv /\ OwnedInv /\ ClosedInv
    BY <1>4 DEF OwnershipInv
  <2>1. ExclusionInv'
    BY <1>0, <1>1, <2>0, ExclusionKept DEF Busy
  <2>2. \A p \in DOMAIN life : ~Alive(p)
    BY <1>0, <2>0 DEF OwnedInv
  <2>3. \A p \in DOMAIN life' : Alive(p)' => p = Len(life) + 1
    BY <1>2, <2>2 DEF Alive
  <2>4. \A u \in Threads : u # t => ~Busy(u)'
    BY <1>0, <1>1, <2>0 DEF ExclusionInv, Busy
  <2>5. OwnedInv'
    BY <1>0, <1>1, <2>3, <2>4 DEF OwnedInv, Busy
  <2>6. ~closed
    BY <1>0, <2>0 DEF ClosedInv, Resting
  <2>. QED
    BY <1>0, <2>1, <2>5, <2>6 DEF ClosedInv
<1>. QED
  BY <1>0, <1>3, <1>4 DEF OwnershipInv

\* A thread that waits returns, goes on or gives up; nothing else changes.
LEMMA WaitOwned ==
    ASSUME Inv, OwnershipInv, NEW t \in Threads, WaitReady(t) \/ Deadline(t)
    PROVE  OwnershipInv'
<1>0. /\ SupervisorTyped /\ thread[t].at = "wait"
      /\ UNCHANGED <<life, process, owned, stopping, closed, raced>>
  BY DEF Inv, WaitReady, Deadline, manager
<1>1. /\ \A u \in Threads \ {t} : thread'[u] = thread[u]
      /\ thread'[t].at \in {"stop", IF t \in Monitors THEN "watch" ELSE "idle",
                            IF t \in Monitors THEN "watch" ELSE "adopt"}
      /\ thread'[t].then \in {"none", "fail", thread[t].then}
  <2>1. Stops(t, "fail") \/ Returns(t) \/ Goes(t, IF t \in Monitors THEN "watch" ELSE "adopt")
    BY DEF WaitReady, Deadline
  <2>2. CASE Stops(t, "fail")
    BY <1>0, <2>2, StopsSeen
  <2>3. CASE Returns(t)
    BY <1>0, <2>3, ReturnsSeen
  <2>4. CASE Goes(t, IF t \in Monitors THEN "watch" ELSE "adopt")
    BY <1>0, <2>4, GoesSeen
  <2>. QED
    BY <2>1, <2>2, <2>3, <2>4
<1>2. RolesInv'
  BY <1>0, <1>1, RolesKept DEF OwnershipInv, RolesInv
<1>3. ASSUME ~raced PROVE ExclusionInv' /\ OwnedInv' /\ ClosedInv'
  <2>0. ExclusionInv /\ OwnedInv /\ ClosedInv
    BY <1>3 DEF OwnershipInv
  <2>1. ExclusionInv'
    BY <1>0, <1>1, <2>0, ExclusionKept DEF Busy
  <2>2. OwnedInv'
    BY <1>0, <1>1, <2>0 DEF OwnedInv, Alive
  <2>3. ~closed
    BY <1>0, <2>0 DEF ClosedInv, Resting
  <2>. QED
    BY <1>0, <2>1, <2>2, <2>3 DEF ClosedInv
<1>. QED
  BY <1>0, <1>2, <1>3 DEF OwnershipInv

\* A call that has its backend has the one monitor started.
LEMMA AdoptOwned ==
    ASSUME Inv, OwnershipInv, NEW t \in Threads, AdoptBackend(t)
    PROVE  OwnershipInv'
<1>0. /\ SupervisorTyped /\ thread[t].at = "adopt" /\ owned' = TRUE
      /\ UNCHANGED <<life, process, stopping, closed, raced>>
  BY DEF Inv, AdoptBackend
<1>1. PICK m \in Monitors :
          /\ thread[m].at = "idle"
          /\ thread' = [thread EXCEPT ![t] = AtRest, ![m].at = "watch"]
  BY DEF AdoptBackend
<1>2. t \notin Monitors /\ m \in Threads /\ t # m
  BY <1>0, ThreadsAre DEF OwnershipInv, RolesInv
<1>3. /\ thread'[t].at = "idle" /\ thread'[t].then = "none"
      /\ thread'[m].at = "watch" /\ thread'[m].then = thread[m].then
      /\ \A u \in Threads \ {t, m} : thread'[u] = thread[u]
  <2>1. PICK x : x = [thread[m] EXCEPT !.at = "watch"]
    OBVIOUS
  <2>2. x.at = "watch" /\ x.then = thread[m].then
    BY <1>0, <1>2, <2>1 DEF SupervisorTyped, Moment
  <2>3. \A u \in Threads : thread'[u] = IF u = t THEN AtRest ELSE IF u = m THEN x ELSE thread[u]
    BY <1>0, <1>1, <1>2, <2>1 DEF SupervisorTyped
  <2>. QED
    BY <1>2, <2>2, <2>3 DEF AtRest
<1>4. RolesInv'
  BY <1>0, <1>2, <1>3, ThreadsAre DEF OwnershipInv, RolesInv
<1>5. ASSUME ~raced PROVE ExclusionInv' /\ OwnedInv' /\ ClosedInv'
  <2>0. ExclusionInv /\ OwnedInv /\ ClosedInv
    BY <1>5 DEF OwnershipInv
  <2>1. NoMonitor
    BY <1>0, <1>2, <2>0 DEF ExclusionInv
  <2>2. \A u \in Threads : ~Busy(u)'
    BY <1>0, <1>3, <2>0 DEF ExclusionInv, Busy
  <2>3. \A n \in Monitors : Live(n)' => n = m
    BY <1>2, <1>3, <2>1, ThreadsAre DEF NoMonitor, Live
  <2>4. ExclusionInv'
    BY <2>2, <2>3, ThreadsAre DEF ExclusionInv, Busy
  <2>5. OwnedInv'
    BY <1>0, <2>0, <2>2 DEF OwnedInv, Alive, Busy
  <2>6. ~closed
    BY <1>0, <2>0 DEF ClosedInv, Resting
  <2>. QED
    BY <1>0, <2>4, <2>5, <2>6 DEF ClosedInv
<1>. QED
  BY <1>0, <1>4, <1>5 DEF OwnershipInv

\* A stop that begins alone takes the process that runs.
LEMMA StopOwned ==
    ASSUME Inv, OwnershipInv, NEW t \in Threads, StopBegins(t)
    PROVE  OwnershipInv'
<1> DEFINE took == IF owned /\ Alive(process) THEN process ELSE 0
<1>0. /\ SupervisorTyped /\ thread[t].at = "stop" /\ stopping' = TRUE
      /\ raced' = (raced \/ ~OthersRest(t))
      /\ UNCHANGED <<life, process, owned, closed>>
  BY DEF Inv, StopBegins
<1>1. /\ thread'[t].at = "end" /\ thread'[t].then = thread[t].then /\ thread'[t].took = took
      /\ \A u \in Threads \ {t} : thread'[u] = thread[u]
  <2>1. PICK y : y = [thread[t] EXCEPT !.at = "end", !.took = took]
    OBVIOUS
  <2>2. y.at = "end" /\ y.then = thread[t].then /\ y.took = took
    BY <1>0, <2>1 DEF SupervisorTyped, Moment
  <2>3. thread' = [thread EXCEPT ![t] = y]
    BY <2>1 DEF StopBegins
  <2>4. thread'[t] = y /\ \A u \in Threads \ {t} : thread'[u] = thread[u]
    BY <1>0, <2>3 DEF SupervisorTyped
  <2>. QED
    BY <2>2, <2>4
<1>2. RolesInv'
  BY <1>0, <1>1, RolesKept DEF OwnershipInv, RolesInv
<1>3. ASSUME ~raced' PROVE ExclusionInv' /\ OwnedInv' /\ ClosedInv'
  <2>0. /\ ExclusionInv /\ OwnedInv /\ ClosedInv /\ OthersRest(t)
        /\ process \in 0..Len(life) /\ life \in Seq({"starting", "ready", "broken", "exited"})
    BY <1>0, <1>3 DEF OwnershipInv, RolesInv, SupervisorTyped
  <2>1. \A u \in Threads : Busy(u)' => u = t
    BY <1>1, <2>0 DEF OthersRest, Resting, Busy
  <2>2. \A m \in Monitors : Live(m)' => Live(m)
    BY <1>0, <1>1, ThreadsAre DEF Live
  <2>3. OthersRest(t)'
    BY <1>1, <2>0 DEF OthersRest
  <2>4. ExclusionInv'
    BY <1>0, <1>1, <2>0, <2>1, <2>2, <2>3, ThreadsAre DEF ExclusionInv, Busy
  <2>5. Alive(process) => took = process
    BY <2>0 DEF OwnedInv, Alive
  <2>6. OwnedInv'
    BY <1>0, <1>1, <2>0, <2>1, <2>5 DEF OwnedInv, Busy, Alive
  <2>7. ~closed
    BY <1>0, <2>0 DEF ClosedInv, Resting
  <2>. QED
    BY <1>0, <2>4, <2>6, <2>7 DEF ClosedInv
<1>. QED
  BY <1>2, <1>3 DEF OwnershipInv

LEMMA TerminateOwned ==
    ASSUME Inv, OwnershipInv, NEW t \in Threads, Terminate(t)
    PROVE  OwnershipInv'
<1>0. /\ SupervisorTyped /\ thread[t].at = "end"
      /\ life' = [p \in DOMAIN life |-> IF p = thread[t].took THEN "exited" ELSE life[p]]
      /\ life \in Seq({"starting", "ready", "broken", "exited"})
      /\ UNCHANGED <<process, owned, stopping, closed, raced>>
  BY DEF Inv, SupervisorTyped, Terminate, manager
<1>1. /\ thread'[t].at = "clear" /\ thread'[t].then = thread[t].then
      /\ \A u \in Threads \ {t} : thread'[u] = thread[u]
  BY <1>0, GoesSeen DEF Terminate
<1>2. /\ DOMAIN life' = DOMAIN life /\ Len(life') = Len(life)
      /\ \A p \in DOMAIN life : Alive(p)' => Alive(p) /\ p # thread[t].took
  BY <1>0 DEF Alive
<1>3. RolesInv'
  BY <1>0, <1>1, <1>2, RolesKept DEF OwnershipInv, RolesInv
<1>4. ASSUME ~raced PROVE ExclusionInv' /\ OwnedInv' /\ ClosedInv'
  <2>0. ExclusionInv /\ OwnedInv /\ ClosedInv /\ process \in 0..Len(life)
    BY <1>4 DEF OwnershipInv, RolesInv
  <2>1. ExclusionInv'
    BY <1>0, <1>1, <2>0, ExclusionKept DEF Busy
  <2>2. ~Alive(process)'
    <3>1. process \in DOMAIN life \/ process = 0
      BY <1>0, <2>0
    <3>2. Alive(process) => thread[t].took = process
      BY <1>0, <2>0 DEF OwnedInv
    <3>3. CASE process \in DOMAIN life
      BY <1>0, <1>2, <3>2, <3>3
    <3>4. CASE process = 0
      BY <1>0, <3>4 DEF Alive
    <3>. QED
      BY <3>1, <3>3, <3>4
  <2>3. \A u \in Threads : u # t => ~Busy(u)'
    BY <1>0, <1>1, <2>0 DEF ExclusionInv, Busy
  <2>4. OwnedInv'
    BY <1>0, <1>1, <1>2, <2>0, <2>2, <2>3 DEF OwnedInv, Busy
  <2>5. ~closed
    BY <1>0, <2>0 DEF ClosedInv, Resting
  <2>. QED
    BY <1>0, <2>1, <2>4, <2>5 DEF ClosedInv
<1>. QED
  BY <1>0, <1>3, <1>4 DEF OwnershipInv

LEMMA ClearOwned ==
    ASSUME Inv, OwnershipInv, NEW t \in Threads, Clear(t)
    PROVE  OwnershipInv'
<1>0. /\ SupervisorTyped /\ thread[t].at = "clear" /\ process' = 0 /\ owned' = FALSE
      /\ UNCHANGED <<life, stopping, closed, raced>>
      /\ life \in Seq({"starting", "ready", "broken", "exited"})
  BY DEF Inv, SupervisorTyped, Clear
<1>1. /\ thread'[t].at = "join" /\ thread'[t].then = thread[t].then
      /\ \A u \in Threads \ {t} : thread'[u] = thread[u]
  BY <1>0, GoesSeen DEF Clear
<1>2. RolesInv'
  BY <1>0, <1>1, RolesKept DEF OwnershipInv, RolesInv
<1>3. ASSUME ~raced PROVE ExclusionInv' /\ OwnedInv' /\ ClosedInv'
  <2>0. ExclusionInv /\ OwnedInv /\ ClosedInv
    BY <1>3 DEF OwnershipInv
  <2>1. ExclusionInv'
    BY <1>0, <1>1, <2>0, ExclusionKept DEF Busy
  <2>2. \A p \in DOMAIN life : ~Alive(p)
    BY <1>0, <2>0 DEF OwnedInv
  <2>3. OwnedInv'
    BY <1>0, <2>2 DEF OwnedInv, Alive
  <2>4. ~closed
    BY <1>0, <2>0 DEF ClosedInv, Resting
  <2>. QED
    BY <1>0, <2>1, <2>3, <2>4 DEF ClosedInv
<1>. QED
  BY <1>0, <1>2, <1>3 DEF OwnershipInv

\* The last step of a stop: the window that closes leaves nothing running.
LEMMA JoinOwned ==
    ASSUME Inv, OwnershipInv, NEW t \in Threads, Join(t)
    PROVE  OwnershipInv'
<1>0. /\ SupervisorTyped /\ thread[t].at = "join"
      /\ UNCHANGED <<life, process, owned, stopping, raced>>
  BY DEF Inv, Join
<1>1. \/ thread[t].then = "start" /\ Goes(t, "probe") /\ UNCHANGED closed
      \/ thread[t].then = "close" /\ closed' = TRUE /\ Returns(t)
      \/ Returns(t) /\ UNCHANGED closed
  <2>1. CASE thread[t].then = "start"
    BY <2>1 DEF Join
  <2>2. CASE thread[t].then = "close"
    BY <2>2 DEF Join
  <2>3. CASE thread[t].then \notin {"start", "close"}
    BY <2>3 DEF Join
  <2>. QED
    BY <2>1, <2>2, <2>3
<1>2. /\ \A u \in Threads \ {t} : thread'[u] = thread[u]
      /\ thread'[t].then \in {"none", thread[t].then}
      /\ \/ thread[t].then = "start" /\ thread'[t].at = "probe" /\ UNCHANGED closed
         \/ /\ thread'[t].at = IF t \in Monitors THEN "watch" ELSE "idle"
            /\ closed' = closed \/ thread[t].then = "close"
  BY <1>0, <1>1, GoesSeen, ReturnsSeen
<1>3. t \in Monitors => thread[t].then # "start"
  BY DEF OwnershipInv, RolesInv
<1>4. RolesInv'
  BY <1>0, <1>2, <1>3, RolesKept DEF OwnershipInv, RolesInv
<1>5. ASSUME ~raced PROVE ExclusionInv' /\ OwnedInv' /\ ClosedInv'
  <2>0. ExclusionInv /\ OwnedInv /\ ClosedInv
    BY <1>5 DEF OwnershipInv
  <2>1. ExclusionInv'
    BY <1>0, <1>2, <2>0, ExclusionKept DEF Busy
  <2>2. OwnedInv'
    BY <1>0, <1>2, <2>0 DEF OwnedInv, Alive
  <2>3. ~closed
    BY <1>0, <2>0 DEF ClosedInv, Resting
  <2>4. ASSUME closed' PROVE ClosedInv'
    <3>1. thread[t].then = "close" /\ t = UI
      BY <1>2, <2>3, <2>4 DEF OwnershipInv, RolesInv
    <3>2. OthersRest(t) /\ stopping
      BY <1>0, <2>0, <3>1 DEF ExclusionInv
    <3>3. \A u \in Threads : thread'[u].at \in Resting
      BY <1>2, <3>1, <3>2 DEF OthersRest, Resting
    <3>4. \A p \in DOMAIN life : ~Alive(p)
      BY <1>0, <2>0 DEF OwnedInv
    <3>. QED
      BY <1>0, <3>2, <3>3, <3>4 DEF ClosedInv, Alive
  <2>. QED
    BY <2>1, <2>2, <2>4 DEF ClosedInv
<1>. QED
  BY <1>0, <1>4, <1>5 DEF OwnershipInv

\* A monitor that relaunches does so alone.
LEMMA WatchOwned ==
    ASSUME Inv, OwnershipInv, NEW m \in Monitors, Watch(m)
    PROVE  OwnershipInv'
<1>0. /\ SupervisorTyped /\ m \in Threads /\ thread[m].at = "watch"
      /\ UNCHANGED <<life, process, stopping, closed, raced>>
  BY ThreadsAre DEF Inv, Watch
<1>1. /\ \A u \in Threads \ {m} : thread'[u] = thread[u]
      /\ thread'[m].then = thread[m].then
      /\ \/ thread'[m].at = "over" /\ owned' = owned
         \/ thread'[m].at = "over" /\ ~stopping /\ ~Alive(process)
         \/ thread'[m].at = "launch" /\ ~stopping /\ ~Alive(process) /\ owned' = owned
  <2>1. \/ stopping /\ Goes(m, "over") /\ UNCHANGED owned
        \/ ~stopping /\ ~Alive(process) /\ Goes(m, "over")
        \/ ~stopping /\ ~Alive(process) /\ Goes(m, "launch") /\ UNCHANGED owned
    BY DEF Watch
  <2>. QED
    BY <1>0, <2>1, GoesSeen
<1>2. RolesInv'
  BY <1>0, <1>1, RolesKept DEF OwnershipInv, RolesInv
<1>3. ASSUME ~raced PROVE ExclusionInv' /\ OwnedInv' /\ ClosedInv'
  <2>0. ExclusionInv /\ OwnedInv /\ ClosedInv /\ Live(m)
    BY <1>0, <1>3 DEF OwnershipInv, Live
  <2>1. ~stopping => \A u \in Threads : ~Busy(u)
    <3>1. ~NoMonitor
      BY <2>0 DEF NoMonitor
    <3>2. ASSUME NEW u \in Monitors, Busy(u) PROVE FALSE
      <4>1. Live(u)
        BY <3>2 DEF Busy, Live
      <4>2. u = m
        BY <2>0, <4>1 DEF ExclusionInv
      <4>. QED
        BY <1>0, <3>2, <4>2 DEF Busy
    <3>. QED
      BY <2>0, <3>1, <3>2 DEF ExclusionInv, Busy
  <2>2. \A u \in Threads : Busy(u)' => Busy(u) \/ (u = m /\ ~stopping)
    BY <1>1 DEF Busy
  <2>3. \A n \in Monitors : Live(n)' => Live(n)
    BY <1>1, <2>0, ThreadsAre DEF Live
  <2>4. \A t, u \in Threads : Busy(t)' /\ Busy(u)' => t = u
    BY <2>0, <2>1, <2>2 DEF ExclusionInv
  <2>5. ASSUME NEW t \in Threads
        PROVE  /\ thread'[t].at \in {"launch", "wait", "adopt"} => t \in Monitors \/ NoMonitor'
               /\ thread'[t].at \in {"end", "clear", "join"} => stopping'
               /\ thread'[t].at = "probe" => stopping' \/ NoMonitor'
    BY <1>0, <1>1, <2>0, <2>3 DEF ExclusionInv, NoMonitor
  <2>6. thread'[UI].at \in {"end", "clear", "join"} => OthersRest(UI)'
    <3> SUFFICES ASSUME thread'[UI].at \in {"end", "clear", "join"} PROVE OthersRest(UI)'
      OBVIOUS
    <3>1. UI # m /\ thread'[UI] = thread[UI]
      BY <1>1, ThreadsAre
    <3>2. stopping /\ OthersRest(UI)
      BY <2>0, <3>1, ThreadsAre DEF ExclusionInv
    <3>3. thread'[m].at = "over"
      BY <1>1, <3>2
    <3>. QED
      BY <1>1, <3>2, <3>3 DEF OthersRest, Resting
  <2>7. ExclusionInv'
    BY <2>0, <2>3, <2>4, <2>5, <2>6 DEF ExclusionInv
  <2>8. OwnedInv'
    BY <1>0, <1>1, <2>0 DEF OwnedInv, Alive
  <2>9. ClosedInv'
    BY <1>0, <1>1, <2>0 DEF ClosedInv, Alive, Resting
  <2>. QED
    BY <2>7, <2>8, <2>9
<1>. QED
  BY <1>0, <1>2, <1>3 DEF OwnershipInv

\* A call is asked for, while the window is open and its own thread at rest.
LEMMA CallOwned ==
    ASSUME Inv, OwnershipInv, NEW t \in Threads \ Monitors, NEW next \in {"start", "close"},
           next = "close" => t = UI, thread[t].at = "idle", thread[UI].at = "idle", ~closed,
           Stops(t, next), UNCHANGED <<life, process, owned, stopping, closed, raced>>
    PROVE  OwnershipInv'
<1>0. SupervisorTyped
  BY DEF Inv
<1>1. /\ thread'[t].at = "stop" /\ thread'[t].then = next
      /\ \A u \in Threads \ {t} : thread'[u] = thread[u]
  BY <1>0, StopsSeen
<1>2. RolesInv'
  BY <1>1, ThreadsAre DEF OwnershipInv, RolesInv
<1>3. ASSUME ~raced PROVE ExclusionInv' /\ OwnedInv' /\ ClosedInv'
  <2>0. ExclusionInv /\ OwnedInv
    BY <1>3 DEF OwnershipInv
  <2>1. /\ \A u \in Threads : Busy(u)' <=> Busy(u)
        /\ \A m \in Monitors : Live(m)' <=> Live(m)
        /\ thread'[UI].at \notin {"end", "clear", "join"}
    BY <1>1, ThreadsAre DEF Busy, Live
  <2>2. ExclusionInv'
    BY <1>1, <2>0, <2>1 DEF ExclusionInv, NoMonitor
  <2>3. OwnedInv'
    BY <1>1, <2>0 DEF OwnedInv, Alive
  <2>. QED
    BY <2>2, <2>3 DEF ClosedInv
<1>. QED
  BY <1>2, <1>3 DEF OwnershipInv

\* No process comes to life again.
LEMMA ProcessOwned ==
    ASSUME Inv, OwnershipInv, NEW p \in DOMAIN life, NEW stage \in {"ready", "broken", "exited"},
           Becomes(p, stage), life[p] # "exited"
    PROVE  OwnershipInv'
<1>0. /\ life \in Seq({"starting", "ready", "broken", "exited"})
      /\ life' = [life EXCEPT ![p] = stage]
      /\ UNCHANGED <<process, owned, stopping, thread, closed, raced>>
  BY DEF Inv, SupervisorTyped, Becomes, manager
<1>1. /\ DOMAIN life' = DOMAIN life /\ Len(life') = Len(life)
      /\ \A q \in DOMAIN life : Alive(q)' => Alive(q)
  BY <1>0 DEF Alive
<1>2. Alive(process)' => Alive(process)
  BY <1>0, <1>1 DEF Alive, OwnershipInv, RolesInv
<1>3. RolesInv'
  BY <1>0, <1>1 DEF OwnershipInv, RolesInv
<1>4. ASSUME ~raced PROVE ExclusionInv' /\ OwnedInv' /\ ClosedInv'
  <2>0. ExclusionInv /\ OwnedInv /\ ClosedInv
    BY <1>4 DEF OwnershipInv
  <2>1. ExclusionInv'
    BY <1>0, <2>0 DEF ExclusionInv, Busy, Live, NoMonitor, OthersRest
  <2>2. OwnedInv' /\ ClosedInv'
    BY <1>0, <1>1, <1>2, <2>0 DEF OwnedInv, ClosedInv
  <2>. QED
    BY <2>1, <2>2
<1>. QED
  BY <1>0, <1>3, <1>4 DEF OwnershipInv

LEMMA StillOwned ==
    ASSUME OwnershipInv, UNCHANGED <<life, manager, thread, closed, raced>>
    PROVE  OwnershipInv'
BY DEF manager, OwnershipInv, RolesInv, ExclusionInv, OwnedInv, ClosedInv, Busy, Live, NoMonitor,
       OthersRest, Alive

LEMMA NextOwned ==
    ASSUME Inv, OwnershipInv, [SupervisorNext]_supervisorVars
    PROVE  OwnershipInv'
<1>1. ASSUME NEW t \in Threads, Step(t) PROVE OwnershipInv'
  BY <1>1, ProbeOwned, LaunchOwned, WaitOwned, AdoptOwned, StopOwned, TerminateOwned, ClearOwned,
     JoinOwned DEF Step
<1>2. ASSUME NEW m \in Monitors, Watch(m) PROVE OwnershipInv'
  BY <1>2, WatchOwned
<1>3. ASSUME NEW p \in DOMAIN life, Serves(p) \/ Breaks(p) \/ Exits(p) PROVE OwnershipInv'
  <2>1. PICK stage \in {"ready", "broken", "exited"} : Becomes(p, stage) /\ life[p] # "exited"
    BY <1>3 DEF Serves, Breaks, Exits
  <2>. QED
    BY <2>1, ProcessOwned
<1>4. CASE ForeignEnds \/ UNCHANGED supervisorVars
  BY <1>4, StillOwned DEF ForeignEnds, supervisorVars
<1>5. CASE RestartBackend \/ SaveKey
  <2>1. PICK t \in Threads \ Monitors : /\ thread[t].at = "idle" /\ thread[UI].at = "idle"
                                        /\ Request(t) /\ ~closed
    BY <1>5, ThreadsAre DEF RestartBackend, SaveKey, Request
  <2>. QED
    BY <2>1, CallOwned DEF Request, manager
<1>6. CASE CloseEvent
  BY <1>6, CallOwned, ThreadsAre DEF CloseEvent, manager
<1>. QED
  BY <1>1, <1>2, <1>3, <1>4, <1>5, <1>6 DEF SupervisorNext

LEMMA InitOwned == SupervisorInit => OwnershipInv
<1> SUFFICES ASSUME SupervisorInit PROVE OwnershipInv
  OBVIOUS
<1>1. PICK w \in Pool : thread = [t \in Threads |-> IF t = w THEN [AtRest EXCEPT !.at = "probe"] ELSE AtRest]
  BY DEF SupervisorInit
<1>2. /\ w \in Threads \ Monitors /\ w # UI
      /\ \A t \in Threads : /\ thread[t].at = IF t = w THEN "probe" ELSE "idle"
                            /\ thread[t].then = "none"
  BY <1>1, SupervisorAssumption, ThreadsAre DEF AtRest, SupervisorAssumption, Threads
<1>3. life = <<>> /\ process = 0 /\ closed = FALSE
  BY DEF SupervisorInit
<1>4. RolesInv
  BY <1>2, <1>3, ThreadsAre DEF RolesInv
<1>5. ExclusionInv
  BY <1>2, ThreadsAre DEF ExclusionInv, Busy, Live, NoMonitor
<1>6. OwnedInv /\ ClosedInv
  BY <1>2, <1>3 DEF OwnedInv, ClosedInv, Alive
<1>. QED
  BY <1>4, <1>5, <1>6 DEF OwnershipInv

\* However many threads call, and unless a stop began while another was busy or a start
\* cleared the flag before a monitor had seen it, no process is forgotten: what runs is
\* the manager's, and nothing does once the window has closed.
THEOREM NoneEverForgotten == SupervisorSpec => []NoneForgotten
<1>1. OwnershipInv => NoneForgotten
  BY DEF OwnershipInv, OwnedInv, ClosedInv, NoneForgotten
<1>. QED
  BY <1>1, InitInv, NextInv, InitOwned, NextOwned, PTL DEF SupervisorSpec

-----------------------------------------------------------------------------
(* The refresh credential.                                                 *)

Stages == {"sent", "locked", "granted", "refused", "lost"}
Call   == [kind : {"refresh", "login", "logout"}, token : Nat, stage : Stages, pair : Nat]

\* A request is one of the service's, and what a worker waits for was made.
Typed ==
    /\ live \subseteq Nat
    /\ parent \in Seq(Nat) /\ calls \in Seq(Call)
    /\ vault \in Nat /\ current \in [token : Nat, fresh : BOOLEAN]
    /\ logout \in Nat
    /\ worker \in [Workers -> [stage : {"idle", "reading", "waiting", "storing", "adopting",
                                        "failing", "done"}, call : Nat, pair : Nat]]
    /\ \A a \in Workers : worker[a].stage = "waiting" => worker[a].call \in DOMAIN calls

\* A live token has been issued and nothing has been issued for it.
LiveInv ==
    /\ live \subseteq 1..Len(parent)
    /\ \A u \in 1..Len(parent) : parent[u] \in 0..Len(parent) /\ parent[u] \notin live

\* A request presents what its kind presents; an exchange under way, an issued token.
RequestInv ==
    \A i \in 1..Len(calls) :
        /\ calls[i].stage = "locked" => calls[i].kind = "refresh" /\ calls[i].token \in 1..Len(parent)
        /\ calls[i].kind = "login" => calls[i].token = 0
        /\ calls[i].kind = "logout" /\ calls[i].stage = "sent"
              => calls[i].pair \in {0, calls[i].token}

\* Nothing is issued twice for one token.
OnceInv == RowLocks => \A u, v \in 1..Len(parent) : u # v /\ parent[u] = parent[v] => parent[u] = 0

\* The row lock: an exchange under way holds a live token of its own.
LockInv ==
    RowLocks =>
        \A i \in 1..Len(calls) :
            calls[i].stage = "locked" =>
                /\ calls[i].token \in live
                /\ \A j \in 1..Len(calls) :
                      calls[j].stage = "locked" /\ calls[j].token = calls[i].token => i = j

TokenInv == Typed /\ LiveInv /\ RequestInv /\ OnceInv /\ LockInv

------------------------------------------------------------------------------
(* The requests as a sequence.                                             *)

LEMMA AppendCall ==
    ASSUME NEW S, NEW s \in Seq(S), NEW e \in S
    PROVE  /\ Append(s, e) \in Seq(S) /\ Len(Append(s, e)) = Len(s) + 1
           /\ \A i \in 1..Len(s) : Append(s, e)[i] = s[i]
           /\ Append(s, e)[Len(s) + 1] = e
OBVIOUS

LEMMA Restaged ==
    ASSUME NEW s \in Seq(Call), NEW i \in 1..Len(s), NEW stage \in Stages
    PROVE  LET t == [s EXCEPT ![i].stage = stage] IN
           /\ t \in Seq(Call) /\ Len(t) = Len(s)
           /\ \A j \in 1..Len(s) : t[j] = IF j = i THEN [s[i] EXCEPT !.stage = stage] ELSE s[j]
<1>1. s[i] \in Call
  OBVIOUS
<1>2. [s[i] EXCEPT !.stage = stage] \in Call
  BY <1>1 DEF Call
<1>. QED
  BY <1>2

Restage(i, stage) == calls' = [calls EXCEPT ![i].stage = stage]

\* A request that only changes its stage, and not to "locked" or back to "sent".
LEMMA Settles ==
    ASSUME TokenInv, NEW i \in 1..Len(calls), NEW stage \in {"refused", "lost", "granted"},
           Restage(i, stage), NEW revoked, live' = live \ revoked,
           RowLocks => \A j \in 1..Len(calls) :
               calls[j].stage = "locked" /\ j # i => calls[j].token \notin revoked,
           UNCHANGED <<parent, client>>
    PROVE  TokenInv'
<1>0. stage \in Stages /\ calls \in Seq(Call)
  BY DEF Stages, TokenInv, Typed
<1>1. /\ calls' \in Seq(Call) /\ Len(calls') = Len(calls)
      /\ \A j \in 1..Len(calls) :
            calls'[j] = IF j = i THEN [calls[i] EXCEPT !.stage = stage] ELSE calls[j]
  BY <1>0, Restaged DEF Restage
<1>2. calls[i] \in Call
  BY <1>0
<1>3. \A j \in 1..Len(calls) :
         /\ calls'[j].kind = calls[j].kind /\ calls'[j].token = calls[j].token
         /\ calls'[j].pair = calls[j].pair
         /\ calls'[j].stage = IF j = i THEN stage ELSE calls[j].stage
  BY <1>1, <1>2 DEF Call
<1>4. Typed'
  BY <1>1 DEF TokenInv, Typed, client
<1>5. LiveInv' /\ OnceInv'
  BY DEF TokenInv, LiveInv, OnceInv
<1>6. RequestInv' /\ LockInv'
  BY <1>1, <1>3 DEF TokenInv, RequestInv, LockInv
<1>. QED
  BY <1>4, <1>5, <1>6 DEF TokenInv

LEMMA CheckRefreshStep ==
    ASSUME TokenInv, NEW i \in 1..Len(calls), CheckRefresh(i)
    PROVE  TokenInv'
<1>1. CASE calls[i].token \notin live
  <2>1. Restage(i, "refused") /\ live' = live \ {} /\ UNCHANGED <<parent, client>>
    BY <1>1 DEF CheckRefresh, Restage
  <2>. QED
    BY <2>1, Settles
<1>2. CASE calls[i].token \in live
  <2>0. "locked" \in Stages /\ calls \in Seq(Call) /\ calls[i] \in Call
    BY DEF Stages, TokenInv, Typed
  <2>1. calls' = [calls EXCEPT ![i].stage = "locked"]
    BY <1>2 DEF CheckRefresh
  <2>2. /\ calls' \in Seq(Call) /\ Len(calls') = Len(calls)
        /\ \A j \in 1..Len(calls) :
              calls'[j] = IF j = i THEN [calls[i] EXCEPT !.stage = "locked"] ELSE calls[j]
    BY <2>0, <2>1, Restaged
  <2>3. \A j \in 1..Len(calls) :
           /\ calls'[j].kind = calls[j].kind /\ calls'[j].token = calls[j].token
           /\ calls'[j].pair = calls[j].pair
           /\ calls'[j].stage = IF j = i THEN "locked" ELSE calls[j].stage
    BY <2>0, <2>2 DEF Call
  <2>4. /\ calls[i].kind = "refresh" /\ calls[i].token \in 1..Len(parent)
        /\ RowLocks => \A j \in 1..Len(calls) :
                          ~(calls[j].stage = "locked" /\ calls[j].token = calls[i].token)
    BY <1>2, <2>0 DEF CheckRefresh, At, Free, TokenInv, LiveInv
  <2>5. Typed'
    BY <2>2 DEF TokenInv, Typed, CheckRefresh, client
  <2>6. LiveInv' /\ OnceInv'
    BY DEF TokenInv, LiveInv, OnceInv, CheckRefresh
  <2>7. live' = live /\ parent' = parent
    BY DEF CheckRefresh
  <2>8. RequestInv' /\ LockInv'
    BY <1>2, <2>2, <2>3, <2>4, <2>7 DEF TokenInv, RequestInv, LockInv
  <2>. QED
    BY <2>5, <2>6, <2>8 DEF TokenInv
<1>. QED
  BY <1>1, <1>2

\* A pair is issued for token t: none is older than t that t was issued for, and
\* nothing has been issued for t before, unless it is a sign-in.
LEMMA Issued ==
    ASSUME TokenInv, NEW i \in 1..Len(calls), NEW revoked, Issue(i, revoked),
           \/ calls[i].token = 0
           \/ /\ calls[i].token \in 1..Len(parent) /\ calls[i].token \in revoked
              /\ RowLocks => calls[i].token \in live,
           RowLocks => \A j \in 1..Len(calls) :
               calls[j].stage = "locked" /\ j # i => calls[j].token \notin revoked
    PROVE  TokenInv'
<1> DEFINE n == Len(parent) + 1
<1>a. calls \in Seq(Call) /\ parent \in Seq(Nat)
  BY DEF TokenInv, Typed
<1>b. Len(parent) \in Nat /\ calls[i] \in Call
  BY <1>a
<1>0. /\ calls \in Seq(Call) /\ parent \in Seq(Nat) /\ Len(parent) \in Nat
      /\ calls[i] \in Call /\ calls[i].token \in Nat /\ n \in Nat
  BY <1>a, <1>b DEF Call
<1>1. /\ parent' \in Seq(Nat) /\ Len(parent') = n
      /\ \A u \in 1..Len(parent) : parent'[u] = parent[u]
      /\ parent'[n] = calls[i].token
  BY <1>0, AppendCall DEF Issue
<1>2. live' = (live \ revoked) \cup {n}
  BY DEF Issue
<1>c. PICK e : e = [calls[i] EXCEPT !.stage = "granted", !.pair = n]
  OBVIOUS
<1>d. /\ e \in Call /\ e.stage = "granted" /\ e.kind = calls[i].kind
      /\ e.token = calls[i].token
  BY <1>0, <1>c DEF Call, Stages
<1>e. calls' = [calls EXCEPT ![i] = e]
  BY <1>0, <1>c DEF Issue
<1>3. \A j \in 1..Len(calls) : calls'[j] = IF j = i THEN e ELSE calls[j]
  BY <1>0, <1>e
<1>4. calls' \in Seq(Call) /\ Len(calls') = Len(calls)
  BY <1>0, <1>d, <1>e
<1>5. \A j \in 1..Len(calls) :
         /\ calls'[j].kind = calls[j].kind /\ calls'[j].token = calls[j].token
         /\ calls'[j].stage = IF j = i THEN "granted" ELSE calls[j].stage
         /\ j # i => calls'[j].pair = calls[j].pair
  BY <1>3, <1>d
<1>6. calls[i].token \in 0..Len(parent)
  BY <1>0 DEF TokenInv, LiveInv
<1>7. Typed'
  BY <1>0, <1>1, <1>2, <1>4 DEF TokenInv, Typed, Issue, client
<1>8. LiveInv'
  <2>1. live' \subseteq 1..n
    <3>1. \A t \in live : t \in 1..Len(parent)
      BY DEF TokenInv, LiveInv
    <3>2. \A t \in 1..Len(parent) : t \in 1..n
      BY <1>0
    <3>3. n \in 1..n
      BY <1>0
    <3>. QED
      BY <1>2, <3>1, <3>2, <3>3
  <2>2. ASSUME NEW u \in 1..n PROVE parent'[u] \in 0..n /\ parent'[u] \notin live'
    <3>1. CASE u = n
      <4>1. parent'[u] \in 0..Len(parent)
        BY <1>1, <1>6, <3>1
      <4>2. parent'[u] \notin live \ revoked
        BY <1>1, <3>1 DEF TokenInv, LiveInv
      <4>. QED
        BY <1>0, <1>2, <4>1, <4>2
    <3>2. CASE u # n
      <4>1. u \in 1..Len(parent)
        BY <1>0, <3>2
      <4>2. parent'[u] \in 0..Len(parent) /\ parent'[u] \notin live
        BY <1>1, <4>1 DEF TokenInv, LiveInv
      <4>. QED
        BY <1>0, <1>2, <4>2
    <3>. QED
      BY <3>1, <3>2
  <2>. QED
    BY <1>1, <2>1, <2>2 DEF LiveInv
<1>9. OnceInv'
  <2>1. RowLocks /\ calls[i].token # 0 => \A u \in 1..Len(parent) : parent[u] # calls[i].token
    BY DEF TokenInv, LiveInv
  <2>2. \A u \in 1..n : u \in 1..Len(parent) \/ u = n
    BY <1>0
  <2>. QED
    BY <1>1, <2>1, <2>2 DEF TokenInv, OnceInv
<1>10. RequestInv' /\ LockInv'
  <2>1. \A t \in 1..Len(parent) : t \in 1..Len(parent')
    BY <1>0, <1>1
  <2>2. RequestInv'
    BY <1>4, <1>5, <2>1 DEF TokenInv, RequestInv
  <2>3. LockInv'
    BY <1>2, <1>4, <1>5 DEF TokenInv, LockInv
  <2>. QED
    BY <2>2, <2>3
<1>. QED
  BY <1>7, <1>8, <1>9, <1>10 DEF TokenInv

LEMMA ServerStep ==
    ASSUME TokenInv, NEW i \in DOMAIN calls,
           CheckRefresh(i) \/ CommitRefresh(i) \/ Login(i) \/ RefuseLogin(i) \/ Revoke(i) \/ Lose(i)
    PROVE  TokenInv'
<1>0. i \in 1..Len(calls)
  BY DEF TokenInv, Typed
<1>1. CASE CheckRefresh(i)
  BY <1>0, <1>1, CheckRefreshStep
<1>2. CASE CommitRefresh(i)
  <2>1. calls[i].stage = "locked"
    BY <1>2 DEF CommitRefresh, At
  <2>2. /\ calls[i].token \in 1..Len(parent)
        /\ RowLocks => /\ calls[i].token \in live
                       /\ \A j \in 1..Len(calls) :
                             calls[j].stage = "locked" /\ j # i
                                 => calls[j].token \notin {calls[i].token}
    BY <1>0, <2>1 DEF TokenInv, RequestInv, LockInv
  <2>. QED
    BY <1>0, <1>2, <2>2, Issued DEF CommitRefresh
<1>3. CASE Login(i)
  <2>1. calls[i].token = 0
    BY <1>0, <1>3 DEF Login, At, TokenInv, RequestInv
  <2>. QED
    BY <1>0, <1>3, <2>1, Issued DEF Login
<1>4. CASE RefuseLogin(i)
  <2>1. Restage(i, "refused") /\ live' = live \ {} /\ UNCHANGED <<parent, client>>
    BY <1>4 DEF RefuseLogin, Restage
  <2>. QED
    BY <1>0, <2>1, Settles
<1>5. CASE Revoke(i)
  <2>1. PICK stage \in {"granted", "refused"} : Restage(i, stage)
    BY <1>5 DEF Revoke, Restage
  <2>2. live' = live \ {calls[i].pair}
    BY <1>5 DEF Revoke
  <2>3. calls[i].pair \in {0, calls[i].token}
    BY <1>0, <1>5 DEF Revoke, At, TokenInv, RequestInv
  <2>4. 0 \notin live
    BY DEF TokenInv, LiveInv
  <2>5. RowLocks => \A j \in 1..Len(calls) :
           calls[j].stage = "locked" => calls[j].token \in live /\ calls[j].token # calls[i].token
    BY <1>0, <1>5 DEF Revoke, Free, TokenInv, Typed, LockInv
  <2>6. UNCHANGED <<parent, client>>
    BY <1>5 DEF Revoke
  <2>7. RowLocks => \A j \in 1..Len(calls) :
           calls[j].stage = "locked" /\ j # i => calls[j].token \notin {calls[i].pair}
    BY <2>3, <2>4, <2>5
  <2>. QED
    BY <1>0, <2>1, <2>2, <2>6, <2>7, Settles
<1>6. CASE Lose(i)
  <2>1. Restage(i, "lost") /\ live' = live \ {} /\ UNCHANGED <<parent, client>>
    BY <1>6 DEF Lose, Restage
  <2>. QED
    BY <1>0, <2>1, Settles
<1>. QED
  BY <1>1, <1>2, <1>3, <1>4, <1>5, <1>6

------------------------------------------------------------------------------
(* The clients.                                                            *)

\* Whatever clients do, the service gets at most one more request.
LEMMA Sends ==
    ASSUME TokenInv, UNCHANGED <<live, parent>>, Typed',
           NEW kind \in {"refresh", "login", "logout"}, NEW token \in Nat, NEW pair \in Nat,
           Send(kind, token, pair),
           kind = "login" => token = 0, kind = "logout" => pair \in {0, token}
    PROVE  TokenInv'
<1> DEFINE e == [kind |-> kind, token |-> token, stage |-> "sent", pair |-> pair]
<1>0. e \in Call /\ calls \in Seq(Call) /\ Len(calls) \in Nat
  BY DEF Call, Stages, TokenInv, Typed
<1>1. /\ Len(calls') = Len(calls) + 1
      /\ \A j \in 1..Len(calls) : calls'[j] = calls[j]
      /\ calls'[Len(calls) + 1] = e
  BY <1>0, AppendCall DEF Send
<1>2. \A j \in 1..Len(calls') : j \in 1..Len(calls) \/ j = Len(calls) + 1
  BY <1>0, <1>1
<1>3. /\ e.stage = "sent" /\ e.kind = "login" => e.token = 0
      /\ e.kind = "logout" => e.pair \in {0, e.token}
  OBVIOUS
<1>4. RequestInv'
  <2> SUFFICES ASSUME NEW j \in 1..Len(calls')
      PROVE /\ calls'[j].stage = "locked" =>
                  calls'[j].kind = "refresh" /\ calls'[j].token \in 1..Len(parent)
            /\ calls'[j].kind = "login" => calls'[j].token = 0
            /\ calls'[j].kind = "logout" /\ calls'[j].stage = "sent"
                  => calls'[j].pair \in {0, calls'[j].token}
    BY DEF RequestInv
  <2>1. CASE j = Len(calls) + 1
    BY <1>1, <1>3, <2>1
  <2>2. CASE j \in 1..Len(calls)
    BY <1>1, <2>2 DEF TokenInv, RequestInv
  <2>. QED
    BY <1>2, <2>1, <2>2
<1>5. LockInv'
  BY <1>1, <1>2, <1>3 DEF TokenInv, LockInv
<1>. QED
  BY <1>4, <1>5 DEF TokenInv, LiveInv, OnceInv

LEMMA Waiting ==
    ASSUME Typed, NEW kind \in {"refresh", "login", "logout"}, NEW token \in Nat, NEW pair \in Nat,
           Send(kind, token, pair)
    PROVE  /\ calls' \in Seq(Call) /\ DOMAIN calls \subseteq DOMAIN calls'
           /\ Len(calls) + 1 \in DOMAIN calls' /\ Len(calls) + 1 \in Nat
<1>0. [kind |-> kind, token |-> token, stage |-> "sent", pair |-> pair] \in Call
      /\ calls \in Seq(Call)
  BY DEF Call, Stages, Typed
<1>. QED
  BY <1>0, AppendCall DEF Send

\* A worker moves on, with a call of the service's.
LEMMA Moved ==
    ASSUME Typed, NEW a \in Workers, NEW record,
           record \in [stage : {"idle", "reading", "waiting", "storing", "adopting", "failing", "done"},
                       call : Nat, pair : Nat],
           record.stage = "waiting" => record.call \in DOMAIN calls',
           DOMAIN calls \subseteq DOMAIN calls', Moves(a, record)
    PROVE  /\ worker' \in [Workers -> [stage : {"idle", "reading", "waiting", "storing", "adopting",
                                                "failing", "done"}, call : Nat, pair : Nat]]
           /\ \A b \in Workers : worker'[b].stage = "waiting" => worker'[b].call \in DOMAIN calls'
<1>1. worker' = [worker EXCEPT ![a] = record]
  BY DEF Moves
<1>2. \A b \in Workers : worker'[b] = IF b = a THEN record ELSE worker[b]
  BY <1>1 DEF Typed
<1>. QED
  BY <1>1, <1>2 DEF Typed

\* The record of a worker at stage s, with the rest as it was.
LEMMA AtStage ==
    ASSUME Typed, NEW a \in Workers,
           NEW s \in {"idle", "reading", "waiting", "storing", "adopting", "failing", "done"}
    PROVE  [worker[a] EXCEPT !.stage = s]
             \in [stage : {"idle", "reading", "waiting", "storing", "adopting", "failing", "done"},
                  call : Nat, pair : Nat]
BY DEF Typed

LEMMA IdleTyped ==
    Idle \in [stage : {"idle", "reading", "waiting", "storing", "adopting", "failing", "done"},
              call : Nat, pair : Nat]
BY DEF Idle

\* When the desktop starts, nothing is under way but the restore.
LEMMA FreshTyped ==
    /\ Fresh \in [Workers -> [stage : {"idle", "reading", "waiting", "storing", "adopting", "failing",
                                       "done"}, call : Nat, pair : Nat]]
    /\ \A a \in Workers : Fresh[a].stage \in {"idle", "reading"} /\ Fresh[a].call = 0
    /\ Fresh["runtime"].stage = "idle"
BY DEF Fresh, Idle, Workers

LEMMA TokenTyped == ASSUME Typed PROVE vault \in Nat /\ current.token \in Nat /\ Len(calls) \in Nat
BY DEF Typed

\* A worker that sends a request waits for it.
LEMMA WaitsStep ==
    ASSUME TokenInv, NEW a \in Workers, NEW kind \in {"refresh", "login"}, NEW token \in Nat,
           kind = "login" => token = 0,
           Send(kind, token, 0), Moves(a, Waits), UNCHANGED <<live, parent, vault, current, logout>>
    PROVE  TokenInv'
<1>1. Typed
  BY DEF TokenInv
<1>2. /\ calls' \in Seq(Call) /\ DOMAIN calls \subseteq DOMAIN calls'
      /\ Len(calls) + 1 \in DOMAIN calls' /\ Len(calls) + 1 \in Nat
  BY <1>1, Waiting
<1>3. /\ Waits \in [stage : {"idle", "reading", "waiting", "storing", "adopting", "failing", "done"},
                    call : Nat, pair : Nat]
      /\ Waits.call = Len(calls) + 1
  BY <1>2 DEF Waits, Idle
<1>4. Typed'
  BY <1>1, <1>2, <1>3, Moved DEF Typed
<1>. QED
  BY <1>4, Sends

\* A step of a worker that sends nothing.
LEMMA QuietStep ==
    ASSUME TokenInv, NEW a \in Workers, NEW record,
           record \in [stage : {"idle", "reading", "waiting", "storing", "adopting", "failing", "done"},
                       call : Nat, pair : Nat],
           record.stage # "waiting", Moves(a, record), UNCHANGED server,
           vault' \in Nat, current' \in [token : Nat, fresh : BOOLEAN], logout' \in Nat
    PROVE  TokenInv'
<1>1. Typed'
  BY Moved DEF TokenInv, Typed, server
<1>. QED
  BY <1>1 DEF TokenInv, LiveInv, RequestInv, OnceInv, LockInv, server

Turns(a, stage) == Moves(a, [worker[a] EXCEPT !.stage = stage])

LEMMA TurnsStep ==
    ASSUME TokenInv, NEW a \in Workers,
           NEW stage \in {"idle", "reading", "storing", "adopting", "failing", "done"},
           Turns(a, stage), UNCHANGED server,
           vault' \in Nat, current' \in [token : Nat, fresh : BOOLEAN], logout' \in Nat
    PROVE  TokenInv'
<1>1. PICK record : record = [worker[a] EXCEPT !.stage = stage]
  OBVIOUS
<1>2. Typed /\ worker[a] \in [stage : {"idle", "reading", "waiting", "storing", "adopting",
                                       "failing", "done"}, call : Nat, pair : Nat]
  BY DEF TokenInv, Typed
<1>3. /\ record \in [stage : {"idle", "reading", "waiting", "storing", "adopting", "failing", "done"},
                      call : Nat, pair : Nat]
      /\ record.stage # "waiting"
  BY <1>1, <1>2
<1>4. Moves(a, record)
  BY <1>1 DEF Turns
<1>. QED
  BY <1>3, <1>4, QuietStep

LEMMA IdlesStep ==
    ASSUME TokenInv, NEW a \in Workers, Moves(a, Idle), UNCHANGED server,
           vault' \in Nat, current' \in [token : Nat, fresh : BOOLEAN], logout' \in Nat
    PROVE  TokenInv'
<1>1. Idle.stage # "waiting"
  BY DEF Idle
<1>. QED
  BY <1>1, IdleTyped, QuietStep

LEMMA WorkerStep ==
    ASSUME TokenInv, NEW a \in Workers,
           Read(a) \/ Answer(a) \/ GiveUp(a) \/ Break(a) \/ Fail(a) \/ Store(a) \/ Adopt(a)
           \/ SignedIn(a)
    PROVE  TokenInv'
<1>0. Typed /\ vault \in Nat /\ current \in [token : Nat, fresh : BOOLEAN] /\ logout \in Nat
      /\ worker[a].pair \in Nat
  BY DEF TokenInv, Typed
<1>1. CASE Read(a)
  <2>1. CASE UNCHANGED calls /\ Moves(a, Idle)
    BY <1>0, <1>1, <2>1, IdlesStep DEF Read, server
  <2>2. CASE Send("refresh", vault, 0) /\ Moves(a, Waits)
    BY <1>0, <1>1, <2>2, WaitsStep DEF Read
  <2>. QED
    BY <1>1, <2>1, <2>2 DEF Read
<1>2. CASE Answer(a)
  <2>1. CASE CallOf(a).stage = "granted"
            /\ Moves(a, [worker[a] EXCEPT !.stage = "storing", !.pair = CallOf(a).pair])
    <3>1. CallOf(a).pair \in Nat
      <4>1. calls \in Seq(Call) /\ worker[a].call \in DOMAIN calls
        BY <1>0, <1>2 DEF Answer, Typed
      <4>2. calls[worker[a].call] \in Call
        BY <4>1
      <4>. QED
        BY <4>2 DEF CallOf, Call
    <3>2. PICK record : record = [worker[a] EXCEPT !.stage = "storing", !.pair = CallOf(a).pair]
      OBVIOUS
    <3>3. /\ record \in [stage : {"idle", "reading", "waiting", "storing", "adopting", "failing",
                                  "done"}, call : Nat, pair : Nat]
          /\ record.stage # "waiting"
      BY <1>0, <3>1, <3>2 DEF Typed
    <3>. QED
      BY <1>0, <1>2, <2>1, <3>2, <3>3, QuietStep DEF Answer
  <2>2. CASE Turns(a, "failing")
    BY <1>0, <1>2, <2>2, TurnsStep DEF Answer
  <2>. QED
    BY <1>2, <2>1, <2>2 DEF Answer, Turns
<1>3. CASE GiveUp(a)
  <2>1. Turns(a, "failing")
    BY <1>3 DEF GiveUp, Turns
  <2>. QED
    BY <1>0, <1>3, <2>1, TurnsStep DEF GiveUp
<1>4. CASE Break(a) \/ Fail(a)
  <2>1. vault' \in Nat
    BY <1>0, <1>4 DEF Break, Fail
  <2>2. Moves(a, Idle) /\ UNCHANGED <<server, current, logout>>
    BY <1>4 DEF Break, Fail, Abandons
  <2>. QED
    BY <1>0, <2>1, <2>2, IdlesStep
<1>5. CASE Store(a)
  <2>1. CASE Turns(a, "adopting") /\ vault' = worker[a].pair
    BY <1>0, <1>5, <2>1, TurnsStep DEF Store
  <2>2. CASE Moves(a, Idle) /\ UNCHANGED vault
    BY <1>0, <1>5, <2>2, IdlesStep DEF Store
  <2>. QED
    BY <1>5, <2>1, <2>2 DEF Store, Turns, Abandons
<1>6. CASE Adopt(a)
  <2>1. PICK record : record = IF a \in Desktop THEN [worker[a] EXCEPT !.stage = "done"] ELSE Idle
    OBVIOUS
  <2>2. /\ record \in [stage : {"idle", "reading", "waiting", "storing", "adopting", "failing",
                                "done"}, call : Nat, pair : Nat]
        /\ record.stage # "waiting"
    <3>1. CASE a \in Desktop
      <4>1. record = [worker[a] EXCEPT !.stage = "done"]
        BY <2>1, <3>1
      <4>2. record \in [stage : {"idle", "reading", "waiting", "storing", "adopting", "failing",
                                "done"}, call : Nat, pair : Nat]
        BY <1>0, <4>1, AtStage
      <4>3. record.stage = "done"
        BY <1>0, <4>1 DEF Typed
      <4>. QED
        BY <4>2, <4>3
    <3>2. CASE a \notin Desktop
      BY <2>1, <3>2, IdleTyped DEF Idle
    <3>. QED
      BY <3>1, <3>2
  <2>3. current' \in [token : Nat, fresh : BOOLEAN]
    BY <1>0, <1>6 DEF Adopt
  <2>. QED
    BY <1>0, <1>6, <2>1, <2>2, <2>3, QuietStep DEF Adopt
<1>7. CASE SignedIn(a)
  BY <1>0, <1>7, IdlesStep DEF SignedIn
<1>. QED
  BY <1>1, <1>2, <1>3, <1>4, <1>5, <1>6, <1>7

\* A step that leaves the service and the workers alone.
LEMMA StillStep ==
    ASSUME TokenInv, UNCHANGED <<server, worker>>,
           vault' \in Nat, current' \in [token : Nat, fresh : BOOLEAN], logout' \in Nat
    PROVE  TokenInv'
BY DEF TokenInv, Typed, LiveInv, RequestInv, OnceInv, LockInv, server

LEMMA LogoutStep ==
    ASSUME TokenInv, Logout
    PROVE  TokenInv'
<1>0. /\ Typed /\ vault \in Nat /\ logout \in Nat /\ current \in [token : Nat, fresh : BOOLEAN]
      /\ "runtime" \in Workers
  BY DEF TokenInv, Typed, Workers
<1>1. Moves("runtime", Idle) /\ UNCHANGED <<live, parent, current>>
  BY DEF Logout, RuntimeEnds, Abandons
<1>2. CASE vault' \in {0, vault} /\ UNCHANGED <<calls, logout>>
  BY <1>0, <1>1, <1>2, IdleTyped, QuietStep DEF server, Idle
<1>3. CASE /\ Send("logout", current.token, IF current.fresh THEN current.token ELSE 0)
           /\ logout' = Len(calls) + 1 /\ UNCHANGED vault
  <2>1. PICK pair \in Nat : pair = IF current.fresh THEN current.token ELSE 0
    BY <1>0
  <2>2. current.token \in Nat
    BY <1>0
  <2>3. /\ calls' \in Seq(Call) /\ DOMAIN calls \subseteq DOMAIN calls'
        /\ Len(calls) + 1 \in Nat
    BY <1>0, <1>3, <2>1, <2>2, Waiting
  <2>4. Typed'
    <3>1. Idle.stage # "waiting"
      BY DEF Idle
    <3>. QED
      BY <1>0, <1>1, <1>3, <2>3, <3>1, IdleTyped, Moved DEF Typed
  <2>. QED
    BY <1>1, <1>3, <2>1, <2>2, <2>4, Sends
<1>. QED
  BY <1>2, <1>3 DEF Logout

LEMMA TokenStep ==
    ASSUME TokenInv, [Next]_vars
    PROVE  TokenInv'
<1>0. /\ Typed /\ vault \in Nat /\ logout \in Nat /\ current \in [token : Nat, fresh : BOOLEAN]
      /\ "runtime" \in Workers /\ "login" \in Workers
  BY DEF TokenInv, Typed, Workers, Desktop
<1>1. ASSUME NEW i \in DOMAIN calls,
             CheckRefresh(i) \/ CommitRefresh(i) \/ Login(i) \/ RefuseLogin(i) \/ Revoke(i) \/ Lose(i)
      PROVE  TokenInv'
  BY <1>1, ServerStep
<1>2. ASSUME NEW a \in Workers,
             Read(a) \/ Answer(a) \/ GiveUp(a) \/ Break(a) \/ Fail(a) \/ Store(a) \/ Adopt(a)
           \/ SignedIn(a)
      PROVE  TokenInv'
  BY <1>2, WorkerStep
<1>3. CASE Authenticate
  BY <1>0, <1>3, WaitsStep DEF Authenticate
<1>4. CASE AccessExpires
  <2>1. current' \in [token : Nat, fresh : BOOLEAN]
    BY <1>0, <1>4 DEF AccessExpires
  <2>. QED
    BY <1>0, <1>4, <2>1, StillStep DEF AccessExpires
<1>5. CASE Logout
  BY <1>5, LogoutStep
<1>6. CASE LoggedOut
  <2>1. current' \in [token : Nat, fresh : BOOLEAN]
    <3>1. current' \in {NoPair, current}
      BY <1>6 DEF LoggedOut
    <3>2. NoPair \in [token : Nat, fresh : BOOLEAN]
      BY DEF NoPair
    <3>. QED
      BY <1>0, <3>1, <3>2
  <2>2. vault' \in Nat /\ logout' \in Nat /\ UNCHANGED <<server, worker>>
    BY <1>0, <1>6 DEF LoggedOut
  <2>. QED
    BY <1>0, <2>1, <2>2, StillStep
<1>7. CASE StartRuntime
  BY <1>0, <1>7, StillStep DEF StartRuntime
<1>8. CASE Connect
  <2>1. /\ [Idle EXCEPT !.stage = "reading"]
             \in [stage : {"idle", "reading", "waiting", "storing", "adopting", "failing", "done"},
                  call : Nat, pair : Nat]
        /\ [Idle EXCEPT !.stage = "reading"].stage # "waiting"
    BY DEF Idle
  <2>. QED
    BY <1>0, <1>8, <2>1, QuietStep DEF Connect
<1>9. CASE StopRuntime
  BY <1>0, <1>9, IdlesStep DEF StopRuntime, RuntimeEnds, Abandons
<1>10. CASE UNCHANGED vars
  BY <1>0, <1>10, StillStep DEF vars, client
<1>11. CASE Restart
  <2>1. /\ worker' = Fresh /\ UNCHANGED <<server, vault>>
        /\ current' \in [token : Nat, fresh : BOOLEAN] /\ logout' \in Nat
    BY <1>11 DEF Restart, NoPair
  <2>2. \A a \in Workers : worker'[a].stage # "waiting"
    BY <2>1, FreshTyped
  <2>3. Typed'
    BY <1>0, <2>1, <2>2, FreshTyped DEF Typed, server
  <2>. QED
    BY <2>1, <2>3 DEF TokenInv, LiveInv, RequestInv, OnceInv, LockInv, server
<1>. QED
  BY <1>1, <1>2, <1>3, <1>4, <1>5, <1>6, <1>7, <1>8, <1>9, <1>10, <1>11 DEF Next

LEMMA TokenInit == Init => TokenInv
<1> SUFFICES ASSUME Init PROVE TokenInv
  OBVIOUS
<1>1. parent \in Seq(Nat) /\ Len(parent) \in {0, 1} /\ vault = Len(parent)
      /\ \A u \in 1..Len(parent) : parent[u] = 0
  <2>1. CASE parent = <<>>
    BY <2>1 DEF Init
  <2>2. CASE parent = <<0>>
    BY <2>2 DEF Init
  <2>. QED
    BY <2>1, <2>2 DEF Init
<1>2. Typed
  BY <1>1, FreshTyped DEF Init, Typed, NoPair
<1>3. LiveInv /\ RequestInv /\ OnceInv /\ LockInv
  BY <1>1 DEF Init, LiveInv, RequestInv, OnceInv, LockInv
<1>. QED
  BY <1>2, <1>3 DEF TokenInv

\* On a database that locks rows, a refresh token is exchanged once at most, and not
\* after it was exchanged, however often and from however many processes it is
\* presented (AuthService.refresh).
THEOREM TokensAcceptedOnce ==
    ASSUME RowLocks
    PROVE  Spec => []TokenAcceptedOnce
<1>1. RowLocks /\ TokenInv => TokenAcceptedOnce
  <2> SUFFICES ASSUME TokenInv, NEW t \in DOMAIN parent
      PROVE /\ Cardinality({u \in DOMAIN parent : parent[u] = t}) =< 1
            /\ t \in live => \A u \in DOMAIN parent : parent[u] # t
    BY DEF TokenAcceptedOnce
  <2>0. DOMAIN parent = 1..Len(parent) /\ t # 0
    BY DEF TokenInv, Typed
  <2>1. t \in live => \A u \in DOMAIN parent : parent[u] # t
    BY <2>0 DEF TokenInv, LiveInv
  <2>2. CASE \E u \in DOMAIN parent : parent[u] = t
    <3>1. PICK u \in DOMAIN parent : parent[u] = t
      BY <2>2
    <3>2. {v \in DOMAIN parent : parent[v] = t} = {u}
      BY RowLocks, <2>0, <3>1 DEF TokenInv, OnceInv
    <3>3. Cardinality({v \in DOMAIN parent : parent[v] = t}) = 1
      BY <3>2, FS_Singleton
    <3>. QED
      BY <2>1, <3>3
  <2>3. CASE ~\E u \in DOMAIN parent : parent[u] = t
    <3>1. {v \in DOMAIN parent : parent[v] = t} = {}
      BY <2>3
    <3>. QED
      BY <2>1, <3>1, FS_EmptySet
  <2>. QED
    BY <2>2, <2>3
<1>. QED
  BY RowLocks, <1>1, TokenInit, TokenStep, PTL DEF Spec

------------------------------------------------------------------------------
(* Signing out.                                                            *)

\* What is granted is a token, and a pair that is kept is one.
GrantInv ==
    /\ \A i \in DOMAIN calls : calls[i].stage = "granted" => calls[i].pair # 0
    /\ \A a \in Workers : worker[a].stage \in {"storing", "adopting"} => worker[a].pair # 0
    /\ current.token = 0 => current = NoPair

\* The runtime works while it runs, and it does not run while the pilot signs out.
OutInv ==
    /\ ~up => worker["runtime"].stage = "idle"
    /\ logout # 0 => ~up
    /\ out => /\ page = "login" /\ logout = 0 /\ SignedOutStays
              /\ \A a \in Desktop : worker[a].stage \in {"idle", "reading"}

DeviceInv == Typed /\ GrantInv /\ OutInv

LEMMA GrantServer ==
    ASSUME TokenInv, DeviceInv, NEW i \in DOMAIN calls,
           CheckRefresh(i) \/ CommitRefresh(i) \/ Login(i) \/ RefuseLogin(i) \/ Revoke(i) \/ Lose(i)
    PROVE  GrantInv' /\ OutInv'
<1>0. calls \in Seq(Call) /\ calls[i] \in Call /\ Len(parent) \in Nat
  BY DEF TokenInv, Typed
<1>1. UNCHANGED <<client, cut, out, left>>
  BY DEF CheckRefresh, CommitRefresh, Login, RefuseLogin, Revoke, Lose, Issue
<1>2. \A j \in DOMAIN calls : calls'[j].stage = "granted" => calls'[j].pair # 0
  <2>1. CASE CommitRefresh(i) \/ Login(i)
    <3>1. calls' = [calls EXCEPT ![i].stage = "granted", ![i].pair = Len(parent) + 1]
      BY <2>1 DEF CommitRefresh, Login, Issue
    <3>2. \A j \in DOMAIN calls : j # i => calls'[j] = calls[j]
      BY <3>1
    <3>3. calls'[i].pair = Len(parent) + 1
      BY <1>0, <3>1 DEF Call
    <3>. QED
      BY <1>0, <3>2, <3>3 DEF DeviceInv, GrantInv
  <2>2. CASE CheckRefresh(i) \/ RefuseLogin(i) \/ Revoke(i) \/ Lose(i)
    <3>1. PICK stage : /\ calls' = [calls EXCEPT ![i].stage = stage]
                       /\ stage = "granted" => calls[i].pair # 0
      BY <2>2 DEF CheckRefresh, RefuseLogin, Revoke, Lose
    <3>2. PICK e : e = [calls[i] EXCEPT !.stage = stage]
      OBVIOUS
    <3>3. e.pair = calls[i].pair /\ e.stage = stage
      BY <1>0, <3>2 DEF Call
    <3>4. \A j \in DOMAIN calls : calls'[j] = IF j = i THEN e ELSE calls[j]
      BY <1>0, <3>1, <3>2
    <3>. QED
      BY <3>1, <3>3, <3>4 DEF DeviceInv, GrantInv
  <2>. QED
    BY <2>1, <2>2
<1>3. DOMAIN calls' = DOMAIN calls
  BY DEF CheckRefresh, CommitRefresh, Login, RefuseLogin, Revoke, Lose, Issue
<1>. QED
  BY <1>1, <1>2, <1>3 DEF DeviceInv, GrantInv, OutInv, SignedOutStays, client

\* A request that is sent is not granted yet.
LEMMA GrantSends ==
    ASSUME Typed, GrantInv, NEW kind \in {"refresh", "login", "logout"}, NEW token \in Nat,
           NEW pair \in Nat, Send(kind, token, pair)
    PROVE  \A i \in DOMAIN calls' : calls'[i].stage = "granted" => calls'[i].pair # 0
<1> DEFINE e == [kind |-> kind, token |-> token, stage |-> "sent", pair |-> pair]
<1>0. e \in Call /\ e.stage = "sent" /\ calls \in Seq(Call) /\ Len(calls) \in Nat
  BY DEF Call, Stages, Typed
<1>1. /\ calls' \in Seq(Call) /\ Len(calls') = Len(calls) + 1
      /\ \A j \in 1..Len(calls) : calls'[j] = calls[j]
      /\ calls'[Len(calls) + 1] = e
  BY <1>0, AppendCall DEF Send
<1>2. \A j \in 1..Len(calls') : j \in 1..Len(calls) \/ j = Len(calls) + 1
  BY <1>0, <1>1
<1>3. \A j \in 1..Len(calls) : calls[j].stage = "granted" => calls[j].pair # 0
  BY <1>0 DEF GrantInv
<1>4. \A j \in 1..Len(calls') : calls'[j].stage = "granted" => calls'[j].pair # 0
  BY <1>0, <1>1, <1>2, <1>3
<1>. QED
  BY <1>1, <1>4

LEMMA GrantWorker ==
    ASSUME DeviceInv, NEW a \in Workers,
           Read(a) \/ Answer(a) \/ GiveUp(a) \/ Break(a) \/ Fail(a) \/ Store(a) \/ Adopt(a)
           \/ SignedIn(a)
    PROVE  GrantInv'
<1>0. Typed /\ GrantInv /\ vault \in Nat
  BY DEF DeviceInv, Typed
<1>1. \A i \in DOMAIN calls' : calls'[i].stage = "granted" => calls'[i].pair # 0
  BY <1>0, GrantSends DEF Read, Answer, GiveUp, Break, Fail, Store, Adopt, SignedIn, server, GrantInv
<1>2. \A b \in Workers : b # a => worker'[b] = worker[b]
  BY <1>0 DEF Read, Answer, GiveUp, Break, Fail, Store, Adopt, SignedIn, Abandons, Moves, Typed
<1>3. worker'[a].stage \in {"storing", "adopting"} => worker'[a].pair # 0
  <2>1. CASE Answer(a)
    <3>1. worker[a].call \in DOMAIN calls
      BY <1>0, <2>1 DEF Answer, Typed
    <3>2. CASE /\ CallOf(a).stage = "granted"
               /\ Moves(a, [worker[a] EXCEPT !.stage = "storing", !.pair = CallOf(a).pair])
      <4>1. CallOf(a).pair # 0
        BY <1>0, <3>1, <3>2 DEF CallOf, GrantInv
      <4>2. PICK record : record = [worker[a] EXCEPT !.stage = "storing", !.pair = CallOf(a).pair]
        OBVIOUS
      <4>3. record.pair = CallOf(a).pair
        BY <1>0, <4>2 DEF Typed
      <4>4. worker'[a] = record
        BY <1>0, <3>2, <4>2 DEF Moves, Typed
      <4>. QED
        BY <4>1, <4>3, <4>4
    <3>3. CASE Moves(a, [worker[a] EXCEPT !.stage = "failing"])
      BY <1>0, <3>3 DEF Moves, Typed
    <3>. QED
      BY <2>1, <3>2, <3>3 DEF Answer
  <2>2. CASE Store(a)
    BY <1>0, <2>2 DEF Store, Abandons, Moves, Idle, Typed, GrantInv
  <2>3. CASE Read(a)
    <3>1. Idle.stage = "idle" /\ Waits.stage = "waiting"
      BY DEF Idle, Waits
    <3>2. worker'[a] \in {Idle, Waits}
      BY <1>0, <2>3 DEF Read, Moves, Typed
    <3>. QED
      BY <3>1, <3>2
  <2>4. CASE Break(a) \/ Fail(a) \/ SignedIn(a)
    BY <1>0, <2>4 DEF Break, Fail, SignedIn, Abandons, Moves, Typed, Idle
  <2>5. CASE GiveUp(a)
    BY <1>0, <2>5 DEF GiveUp, Moves, Typed
  <2>6. CASE Adopt(a)
    BY <1>0, <2>6 DEF Adopt, Moves, Typed, Idle
  <2>. QED
    BY <2>1, <2>2, <2>3, <2>4, <2>5, <2>6
<1>4. current'.token = 0 => current' = NoPair
  <2>1. CASE Adopt(a) /\ a \in Desktop
    <3>1. current'.token = worker[a].pair /\ worker[a].pair # 0
      BY <1>0, <2>1 DEF Adopt, GrantInv
    <3>. QED
      BY <3>1
  <2>2. CASE ~(Adopt(a) /\ a \in Desktop)
    <3>1. current' = current
      BY <2>2 DEF Read, Answer, GiveUp, Break, Fail, Store, Adopt, SignedIn
    <3>. QED
      BY <1>0, <3>1 DEF GrantInv
  <2>. QED
    BY <2>1, <2>2
<1>. QED
  BY <1>0, <1>1, <1>2, <1>3, <1>4 DEF GrantInv

LEMMA OutWorker ==
    ASSUME DeviceInv, NEW a \in Workers,
           Read(a) \/ Answer(a) \/ GiveUp(a) \/ Break(a) \/ Fail(a) \/ Store(a) \/ Adopt(a)
           \/ SignedIn(a)
    PROVE  OutInv'
<1>1. worker[a].stage # "idle" /\ up' = up /\ out' = out /\ logout' = logout
  BY DEF Read, Answer, GiveUp, Break, Fail, Store, Adopt, SignedIn
<1>2. \A b \in Workers : b # a => worker'[b] = worker[b]
  BY DEF DeviceInv, Read, Answer, GiveUp, Break, Fail, Store, Adopt, SignedIn, Abandons, Moves, Typed
<1>3. ~up => a # "runtime"
  BY <1>1 DEF DeviceInv, OutInv
<1>4. "runtime" \in Workers /\ Workers = Desktop \cup {"runtime"}
  BY DEF Workers
<1>5. ~up' => worker'["runtime"].stage = "idle"
  BY <1>1, <1>2, <1>3, <1>4 DEF DeviceInv, OutInv
<1>6. ASSUME out
      PROVE  /\ worker'[a].stage = "idle" /\ UNCHANGED <<vault, current, page>>
  <2>1. a \in Desktop
    BY <1>3, <1>4, <1>6 DEF DeviceInv, OutInv, SignedOutStays
  <2>2. worker[a].stage = "reading" /\ vault = 0
    BY <1>1, <1>6, <2>1 DEF DeviceInv, OutInv, SignedOutStays
  <2>3. Read(a)
    BY <2>2 DEF Answer, GiveUp, Break, Fail, Store, Adopt, SignedIn
  <2>4. Moves(a, Idle) /\ UNCHANGED <<vault, current, page>>
    BY <2>2, <2>3 DEF Read
  <2>. QED
    BY <2>4 DEF DeviceInv, Typed, Moves, Idle
<1>7. out => \A b \in Desktop : worker'[b].stage \in {"idle", "reading"}
  BY <1>2, <1>4, <1>6 DEF DeviceInv, OutInv
<1>. QED
  BY <1>1, <1>5, <1>6, <1>7 DEF DeviceInv, OutInv, SignedOutStays

LEMMA DeviceStep ==
    ASSUME TokenInv, DeviceInv, [Next]_vars
    PROVE  DeviceInv'
<1>0. Typed'
  BY TokenStep DEF TokenInv
<1>a. Typed /\ GrantInv /\ OutInv
  BY DEF DeviceInv
<1>1. ASSUME NEW i \in DOMAIN calls,
             CheckRefresh(i) \/ CommitRefresh(i) \/ Login(i) \/ RefuseLogin(i) \/ Revoke(i) \/ Lose(i)
      PROVE  GrantInv' /\ OutInv'
  BY <1>1, GrantServer
<1>2. ASSUME NEW a \in Workers,
             Read(a) \/ Answer(a) \/ GiveUp(a) \/ Break(a) \/ Fail(a) \/ Store(a) \/ Adopt(a)
           \/ SignedIn(a)
      PROVE  GrantInv' /\ OutInv'
  BY <1>2, GrantWorker, OutWorker
<1>b. "login" \in Workers /\ "runtime" \in Workers /\ "runtime" \notin Desktop
  BY DEF Workers, Desktop
<1>3. CASE Authenticate
  <2>1. \A i \in DOMAIN calls' : calls'[i].stage = "granted" => calls'[i].pair # 0
    BY <1>a, <1>3, GrantSends DEF Authenticate
  <2>2. \A b \in Workers : b # "login" => worker'[b] = worker[b]
    BY <1>a, <1>3 DEF Authenticate, Moves, Typed
  <2>3. worker'["login"].stage = "waiting"
    BY <1>a, <1>b, <1>3 DEF Authenticate, Moves, Typed, Waits, Idle
  <2>4. GrantInv'
    BY <1>a, <1>3, <2>1, <2>2, <2>3 DEF Authenticate, GrantInv
  <2>5. OutInv'
    BY <1>a, <1>b, <1>3, <2>2 DEF Authenticate, OutInv
  <2>. QED
    BY <1>0, <2>4, <2>5 DEF DeviceInv
<1>4. CASE AccessExpires
  <2>1. current.fresh /\ current # NoPair
    BY <1>4 DEF AccessExpires, NoPair
  <2>2. current'.token = current.token
    BY <1>a, <1>4 DEF AccessExpires, Typed
  <2>3. GrantInv'
    BY <1>a, <1>4, <2>1, <2>2 DEF AccessExpires, GrantInv, server
  <2>4. OutInv'
    BY <1>a, <1>4, <2>1 DEF AccessExpires, OutInv, SignedOutStays
  <2>. QED
    BY <1>0, <2>3, <2>4 DEF DeviceInv
<1>5. CASE Logout
  <2>1. ~out /\ logout = 0 /\ up' = FALSE /\ current' = current
    BY <1>a, <1>5 DEF Logout, RuntimeEnds, Abandons, OutInv
  <2>2. /\ \A b \in Workers : b # "runtime" => worker'[b] = worker[b]
        /\ worker'["runtime"].stage = "idle"
    BY <1>a, <1>b, <1>5 DEF Logout, RuntimeEnds, Abandons, Moves, Typed, Idle
  <2>3. \A i \in DOMAIN calls' : calls'[i].stage = "granted" => calls'[i].pair # 0
    <3>1. CASE UNCHANGED calls
      BY <1>a, <3>1 DEF GrantInv
    <3>2. CASE Send("logout", current.token, IF current.fresh THEN current.token ELSE 0)
      <4>1. PICK pair \in Nat : pair = IF current.fresh THEN current.token ELSE 0
        BY <1>a DEF Typed
      <4>. QED
        BY <1>a, <3>2, <4>1, TokenTyped, GrantSends
    <3>. QED
      BY <1>5, <3>1, <3>2 DEF Logout
  <2>4. GrantInv'
    BY <1>a, <2>1, <2>2, <2>3 DEF GrantInv
  <2>5. OutInv'
    <3>1. CASE /\ current.token = 0 /\ vault' = 0 /\ page' = "login" /\ out' = Alone
               /\ UNCHANGED logout
      <4>1. out' => \A a \in Desktop : worker'[a].stage = "idle"
        BY <1>b, <2>2, <3>1 DEF Alone, Workers
      <4>2. current' = NoPair
        BY <1>a, <2>1, <3>1 DEF GrantInv
      <4>. QED
        BY <2>1, <2>2, <3>1, <4>1, <4>2 DEF OutInv, SignedOutStays
    <3>2. CASE UNCHANGED out
      BY <2>1, <2>2, <3>2 DEF OutInv
    <3>. QED
      BY <1>5, <3>1, <3>2 DEF Logout
  <2>. QED
    BY <1>0, <2>4, <2>5 DEF DeviceInv
<1>6. CASE LoggedOut
  <2>1. GrantInv'
    BY <1>a, <1>6 DEF LoggedOut, GrantInv, server
  <2>2. /\ ~up /\ ~out /\ logout' = 0 /\ UNCHANGED <<up, worker>>
        /\ out' => vault' = 0 /\ current' = NoPair /\ page' = "login" /\ Alone
    BY <1>a, <1>6 DEF LoggedOut, OutInv
  <2>3. OutInv'
    BY <1>a, <2>2 DEF OutInv, SignedOutStays, Alone
  <2>. QED
    BY <1>0, <2>1, <2>3 DEF DeviceInv
<1>7. CASE StartRuntime
  BY <1>0, <1>a, <1>7 DEF DeviceInv, StartRuntime, GrantInv, OutInv, server
<1>8. CASE Connect
  <2>1. \A b \in Workers : b # "runtime" => worker'[b] = worker[b]
    BY <1>a, <1>8 DEF Connect, Moves, Typed
  <2>2. worker'["runtime"].stage = "reading"
    BY <1>a, <1>b, <1>8 DEF Connect, Moves, Typed, Idle
  <2>. QED
    BY <1>0, <1>a, <1>b, <1>8, <2>1, <2>2 DEF DeviceInv, Connect, GrantInv, OutInv, SignedOutStays, server
<1>9. CASE StopRuntime
  <2>1. \A b \in Workers : b # "runtime" => worker'[b] = worker[b]
    BY <1>a, <1>9 DEF StopRuntime, RuntimeEnds, Abandons, Moves, Typed
  <2>2. worker'["runtime"].stage = "idle"
    BY <1>a, <1>b, <1>9 DEF StopRuntime, RuntimeEnds, Abandons, Moves, Typed, Idle
  <2>. QED
    BY <1>0, <1>a, <1>b, <1>9, <2>1, <2>2
    DEF DeviceInv, StopRuntime, RuntimeEnds, Abandons, GrantInv, OutInv, SignedOutStays, server
<1>10. CASE UNCHANGED vars
  BY <1>0, <1>a, <1>10 DEF DeviceInv, vars, server, client, GrantInv, OutInv, SignedOutStays
<1>11. CASE Restart
  <2>1. /\ worker' = Fresh /\ current' = NoPair /\ page' = "login" /\ ~up' /\ logout' = 0
        /\ UNCHANGED <<server, vault, out>>
    BY <1>11 DEF Restart
  <2>2. GrantInv'
    BY <1>a, <2>1, FreshTyped DEF GrantInv, server
  <2>3. OutInv'
    BY <1>a, <1>b, <2>1, FreshTyped DEF OutInv, SignedOutStays, Workers
  <2>. QED
    BY <1>0, <2>2, <2>3 DEF DeviceInv
<1>. QED
  BY <1>0, <1>1, <1>2, <1>3, <1>4, <1>5, <1>6, <1>7, <1>8, <1>9, <1>10, <1>11 DEF Next, DeviceInv

LEMMA DeviceInit == Init => DeviceInv
<1> SUFFICES ASSUME Init PROVE DeviceInv
  OBVIOUS
<1>1. Typed
  BY TokenInit DEF TokenInv
<1>2. GrantInv
  BY FreshTyped DEF Init, GrantInv, NoPair
<1>3. OutInv
  BY FreshTyped DEF Init, OutInv
<1>. QED
  BY <1>1, <1>2, <1>3 DEF DeviceInv

\* Once the pilot has signed out with no other sign-in under way, the device holds no
\* credential, and neither what the stopped runtime was at nor starting again brings one
\* back (MainWindow._logout, StoredAuthSession).
THEOREM SignedOutAlwaysStays == Spec => []SignedOutStays
<1>1. DeviceInv => SignedOutStays
  <2>1. DeviceInv /\ out => SignedOutStays
    BY DEF DeviceInv, OutInv
  <2>. QED
    BY <2>1 DEF SignedOutStays
<1>. QED
  BY <1>1, TokenInit, TokenStep, DeviceInit, DeviceStep, PTL DEF Spec

------------------------------------------------------------------------------
(* What is in the vault.                                                   *)

Granted(i) == calls[i].kind # "logout" /\ calls[i].stage = "granted"

\* Each worker has a request of its own from sending it to the end, and keeps the
\* pair that it was granted.
CallersInv ==
    /\ \A a \in Workers :
          /\ worker[a].stage \in {"idle", "reading"} => worker[a].call = 0
          /\ worker[a].stage \notin {"idle", "reading"} =>
                worker[a].call \in 1..Len(calls) /\ CallOf(a).kind # "logout"
          /\ worker[a].stage \in {"storing", "adopting", "done"} =>
                CallOf(a).stage = "granted" /\ worker[a].pair = CallOf(a).pair
    /\ \A a, b \in Workers : worker[a].call # 0 /\ worker[a].call = worker[b].call => a = b
    /\ logout \in 0..Len(calls)

\* Every token was issued, and granted to one request.
PairsInv ==
    /\ vault \in 0..Len(parent) /\ current.token \in 0..Len(parent)
    /\ \A i \in 1..Len(calls) :
          /\ calls[i].token \in 0..Len(parent)
          /\ Granted(i) => calls[i].pair \in 1..Len(parent)
    /\ \A i, j \in 1..Len(calls) :
          Granted(i) /\ Granted(j) /\ calls[i].pair = calls[j].pair => i = j

\* A token that its worker has yet to store is live, and known to nobody else.
UnstoredInv ==
    \A a \in Workers :
        worker[a].stage \in {"waiting", "storing"} /\ CallOf(a).stage = "granted" =>
            /\ CallOf(a).pair \in live
            /\ CallOf(a).pair # vault /\ CallOf(a).pair # current.token
            /\ \A i \in 1..Len(calls) : calls[i].token # CallOf(a).pair

\* What was presented from the vault is replaced or removed by the one who presented it.
PresentedInv ==
    vault # 0 =>
        /\ \A a \in Workers : worker[a].stage \in {"adopting", "done"} => CallOf(a).token # vault
        /\ \A i \in 1..Len(calls) :
              calls[i].token = vault =>
                  /\ calls[i].kind = "refresh" =>
                        vault \in cut \/ \E a \in Workers : worker[a].call = i
                  /\ calls[i].kind = "logout" => vault \in cut \/ logout = i

\* The token in the vault is accepted, or its exchange was cut short, or whoever
\* presented it has its request still.
KeptInv ==
    \/ vault = 0 \/ vault \in live \cup cut
    \/ logout # 0 /\ calls[logout].token = vault
    \/ \E a \in Workers : worker[a].call # 0 /\ CallOf(a).token = vault

VaultInv == CallersInv /\ PairsInv /\ UnstoredInv /\ PresentedInv /\ KeptInv

\* Who has presented what is in the vault is at exchanging it.
LEMMA Exchangers ==
    ASSUME Typed, CallersInv, PresentedInv, NEW A \in SUBSET Workers, NEW a \in A,
           vault # 0, worker[a].call # 0, CallOf(a).token = vault
    PROVE  vault \in Presented(A)
<1>1. worker[a].stage \in {"idle", "reading", "waiting", "storing", "adopting", "failing", "done"}
  BY DEF Typed
<1>2. Exchanging(a)
  BY <1>1 DEF CallersInv, PresentedInv, Exchanging
<1>. QED
  BY <1>2 DEF Presented

\* What a worker leaves is its request, and that is counted as cut.
LEMMA AbandonsSeen ==
    ASSUME Typed, CallersInv, PresentedInv, NEW a \in Workers, Abandons(a)
    PROVE  /\ \A b \in Workers \ {a} : worker'[b] = worker[b]
           /\ worker'[a].stage = "idle" /\ worker'[a].call = 0
           /\ cut \subseteq cut'
           /\ worker[a].call # 0 /\ CallOf(a).token = vault /\ vault # 0 => vault \in cut'
<1>1. Moves(a, Idle) /\ cut' = cut \cup Presented({a})
  BY DEF Abandons
<1>2. /\ \A b \in Workers \ {a} : worker'[b] = worker[b]
      /\ worker'[a] = Idle
  BY <1>1 DEF Moves, Typed
<1>3. worker[a].call # 0 /\ CallOf(a).token = vault /\ vault # 0 => vault \in Presented({a})
  BY Exchangers
<1>. QED
  BY <1>1, <1>2, <1>3 DEF Idle

\* What the service does to request i: it answers it at most, and revokes no token but
\* the one presented.
LEMMA ServerSeen ==
    ASSUME TokenInv, NEW i \in 1..Len(calls),
           CheckRefresh(i) \/ CommitRefresh(i) \/ Login(i) \/ RefuseLogin(i) \/ Revoke(i) \/ Lose(i)
    PROVE  /\ UNCHANGED <<client, cut>>
           /\ Len(calls') = Len(calls)
           /\ calls[i].stage # "granted"
           /\ \A j \in 1..Len(calls) :
                 /\ calls'[j].kind = calls[j].kind /\ calls'[j].token = calls[j].token
                 /\ j # i => calls'[j] = calls[j]
           /\ Granted(i)' => calls'[i].pair = Len(parent) + 1 /\ Len(parent) + 1 \in live'
                             /\ Len(parent') = Len(parent) + 1
           /\ Len(parent') \in {Len(parent), Len(parent) + 1}
           /\ live \ {calls[i].token} \subseteq live'
<1>0. /\ calls \in Seq(Call) /\ calls[i] \in Call /\ parent \in Seq(Nat)
      /\ UNCHANGED <<client, cut>> /\ calls[i].stage # "granted"
  BY DEF TokenInv, Typed, CheckRefresh, CommitRefresh, Login, RefuseLogin, Revoke, Lose, Issue, At
<1>1. CASE CommitRefresh(i) \/ Login(i)
  <2>1. PICK e : e = [calls[i] EXCEPT !.stage = "granted", !.pair = Len(parent) + 1]
    OBVIOUS
  <2>2. e.kind = calls[i].kind /\ e.token = calls[i].token /\ e.pair = Len(parent) + 1
    BY <1>0, <2>1 DEF Call
  <2>3. calls' = [calls EXCEPT ![i] = e]
    BY <1>1, <2>1 DEF CommitRefresh, Login, Issue
  <2>4. /\ Len(calls') = Len(calls)
        /\ \A j \in 1..Len(calls) : calls'[j] = IF j = i THEN e ELSE calls[j]
    BY <1>0, <2>3
  <2>5. Len(parent') = Len(parent) + 1
    BY <1>0, <1>1 DEF CommitRefresh, Login, Issue, Call
  <2>6. Len(parent) + 1 \in live' /\ live \ {calls[i].token} \subseteq live'
    BY <1>1 DEF CommitRefresh, Login, Issue
  <2>. QED
    BY <1>0, <2>2, <2>4, <2>5, <2>6
<1>2. CASE CheckRefresh(i) \/ RefuseLogin(i) \/ Revoke(i) \/ Lose(i)
  <2>1. PICK stage : /\ calls' = [calls EXCEPT ![i].stage = stage]
                     /\ stage = "granted" => calls[i].kind = "logout"
    <3>1. CASE CheckRefresh(i)
      <4>1. \E stage \in {"locked", "refused"} : calls' = [calls EXCEPT ![i].stage = stage]
        BY <3>1 DEF CheckRefresh
      <4>. QED
        BY <4>1
    <3>2. CASE RefuseLogin(i) \/ Lose(i)
      <4>1. \E stage \in {"refused", "lost"} : calls' = [calls EXCEPT ![i].stage = stage]
        BY <3>2 DEF RefuseLogin, Lose
      <4>. QED
        BY <4>1
    <3>3. CASE Revoke(i)
      BY <3>3 DEF Revoke, At
    <3>. QED
      BY <1>2, <3>1, <3>2, <3>3
  <2>2. PICK e : e = [calls[i] EXCEPT !.stage = stage]
    OBVIOUS
  <2>3. e.kind = calls[i].kind /\ e.token = calls[i].token /\ e.stage = stage
    BY <1>0, <2>2 DEF Call
  <2>4. /\ Len(calls') = Len(calls)
        /\ \A j \in 1..Len(calls) : calls'[j] = IF j = i THEN e ELSE calls[j]
    BY <1>0, <2>1, <2>2
  <2>5. ~Granted(i)'
    BY <2>1, <2>3, <2>4 DEF Granted
  <2>6. parent' = parent
    BY <1>2 DEF CheckRefresh, RefuseLogin, Revoke, Lose
  <2>7. live \ {calls[i].token} \subseteq live'
    <3>1. CASE Revoke(i)
      <4>1. calls[i].pair \in {0, calls[i].token} /\ 0 \notin live
        BY <3>1 DEF Revoke, At, TokenInv, RequestInv, LiveInv
      <4>. QED
        BY <3>1, <4>1 DEF Revoke
    <3>2. CASE ~Revoke(i)
      BY <1>2, <3>2 DEF CheckRefresh, RefuseLogin, Lose
    <3>. QED
      BY <3>1, <3>2
  <2>. QED
    BY <1>0, <2>3, <2>4, <2>5, <2>6, <2>7
<1>. QED
  BY <1>1, <1>2

LEMMA ServerVault ==
    ASSUME TokenInv, VaultInv, NEW i \in 1..Len(calls),
           CheckRefresh(i) \/ CommitRefresh(i) \/ Login(i) \/ RefuseLogin(i) \/ Revoke(i) \/ Lose(i)
    PROVE  VaultInv'
<1>0. /\ UNCHANGED <<vault, current, logout, worker, cut>>
      /\ Len(calls') = Len(calls)
      /\ calls[i].stage # "granted"
      /\ \A j \in 1..Len(calls) :
            /\ calls'[j].kind = calls[j].kind /\ calls'[j].token = calls[j].token
            /\ j # i => calls'[j] = calls[j]
      /\ Granted(i)' => calls'[i].pair = Len(parent) + 1 /\ Len(parent) + 1 \in live'
                        /\ Len(parent') = Len(parent) + 1
      /\ Len(parent') \in {Len(parent), Len(parent) + 1}
      /\ live \ {calls[i].token} \subseteq live'
  BY ServerSeen DEF client
<1>1. /\ CallersInv /\ PairsInv /\ UnstoredInv /\ PresentedInv /\ KeptInv
      /\ Len(parent) \in Nat
  BY DEF VaultInv, TokenInv, Typed
<1>2. \A j \in 1..Len(calls) : j # i => (Granted(j)' <=> Granted(j))
  BY <1>0 DEF Granted
<1>3. CallersInv'
  BY <1>0, <1>1 DEF CallersInv, CallOf
<1>4. PairsInv'
  <2>1. \A j \in 1..Len(calls) : Granted(j)' => calls'[j].pair \in 1..Len(parent')
    BY <1>0, <1>1, <1>2, SMTT(30) DEF PairsInv
  <2>2. \A j \in 1..Len(calls) : Granted(j)' /\ j # i => calls'[j].pair \in 1..Len(parent)
    BY <1>0, <1>1, <1>2 DEF PairsInv
  <2>3. \A j, k \in 1..Len(calls) :
           Granted(j)' /\ Granted(k)' /\ calls'[j].pair = calls'[k].pair => j = k
    BY <1>0, <1>1, <1>2, <2>2 DEF PairsInv
  <2>. QED
    BY <1>0, <1>1, <2>1, <2>3 DEF PairsInv
<1>5. UnstoredInv'
  <2> SUFFICES ASSUME NEW a \in Workers, worker[a].stage \in {"waiting", "storing"},
                      calls'[worker[a].call].stage = "granted"
               PROVE  LET n == calls'[worker[a].call].pair IN
                      /\ n \in live' /\ n # vault /\ n # current.token
                      /\ \A j \in 1..Len(calls) : calls[j].token # n
    BY <1>0 DEF UnstoredInv, CallOf
  <2>0. worker[a].call \in 1..Len(calls) /\ calls[worker[a].call].kind # "logout"
    BY <1>1 DEF CallersInv, CallOf
  <2>1. CASE worker[a].call = i
    <3>1. Granted(i)'
      BY <1>0, <2>0, <2>1 DEF Granted
    <3>. QED
      BY <1>0, <1>1, <2>1, <3>1 DEF PairsInv
  <2>2. CASE worker[a].call # i
    BY <1>0, <1>1, <2>0, <2>2 DEF UnstoredInv, CallOf
  <2>. QED
    BY <2>1, <2>2
<1>6. PresentedInv'
  <2>1. \A a \in Workers : worker[a].stage \in {"adopting", "done"} =>
            calls'[worker[a].call].token = calls[worker[a].call].token
    BY <1>0, <1>1 DEF CallersInv
  <2>. QED
    BY <1>0, <1>1, <2>1 DEF PresentedInv, CallOf
<1>7. KeptInv'
  <2>1. CASE vault \in live /\ vault \notin live'
    <3>1. vault = calls[i].token /\ vault # 0
      BY <1>0, <2>1 DEF TokenInv, LiveInv
    <3>2. calls[i].kind \in {"refresh", "logout"}
      <4>1. calls[i] \in Call
        BY DEF TokenInv, Typed
      <4>2. calls[i].kind # "login"
        BY <3>1 DEF TokenInv, RequestInv
      <4>. QED
        BY <4>1, <4>2 DEF Call
    <3>3. CASE calls[i].kind = "logout"
      <4>1. vault \in cut \/ logout = i
        BY <1>1, <3>1, <3>3 DEF PresentedInv
      <4>. QED
        BY <1>0, <3>1, <4>1 DEF KeptInv
    <3>4. CASE calls[i].kind = "refresh"
      <4>1. vault \in cut \/ \E a \in Workers : worker[a].call = i
        BY <1>1, <3>1, <3>4 DEF PresentedInv
      <4>2. ASSUME NEW a \in Workers, worker[a].call = i PROVE KeptInv'
        BY <1>0, <3>1, <4>2 DEF KeptInv, CallOf
      <4>. QED
        BY <1>0, <4>1, <4>2 DEF KeptInv
    <3>. QED
      BY <3>2, <3>3, <3>4
  <2>2. CASE \E a \in Workers : worker[a].call # 0 /\ CallOf(a).token = vault
    <3>1. PICK a \in Workers : worker[a].call # 0 /\ CallOf(a).token = vault
      BY <2>2
    <3>2. worker[a].call \in 1..Len(calls)
      BY <1>1, <3>1 DEF CallersInv
    <3>. QED
      BY <1>0, <3>1, <3>2 DEF KeptInv, CallOf
  <2>3. CASE logout # 0 /\ calls[logout].token = vault
    BY <1>0, <1>1, <2>3 DEF CallersInv, KeptInv
  <2>. QED
    BY <1>0, <1>1, <2>1, <2>2, <2>3 DEF KeptInv
<1>. QED
  BY <1>3, <1>4, <1>5, <1>6, <1>7 DEF VaultInv

\* A step of worker a that sends nothing: it keeps its request or lets go of it, and
\* what it lets go of is not in the vault any more, or counted as cut.
LEMMA QuietVault ==
    ASSUME TokenInv, VaultInv, NEW a \in Workers, UNCHANGED server,
           \A b \in Workers \ {a} : worker'[b] = worker[b],
           \/ worker'[a].stage \in {"idle", "reading"} /\ worker'[a].call = 0
           \/ /\ worker[a].stage \notin {"idle", "reading"}
              /\ worker'[a].stage \notin {"idle", "reading"}
              /\ worker'[a].call = worker[a].call
              /\ worker'[a].stage \in {"storing", "adopting", "done"} =>
                    CallOf(a).stage = "granted" /\ worker'[a].pair = CallOf(a).pair,
           worker'[a].stage \in {"waiting", "storing"} => worker[a].stage \in {"waiting", "storing"},
           worker'[a].stage \in {"adopting", "done"} => worker[a].stage \in {"storing", "adopting", "done"},
           worker'[a].stage \in {"adopting", "done"} /\ worker[a].stage = "storing"
               => vault' = worker[a].pair,
           worker[a].call # 0 /\ worker'[a].call = 0 /\ CallOf(a).token = vault' /\ vault' # 0
               => vault' \in cut',
           cut \subseteq cut', logout' \in {0, logout},
           logout' = 0 /\ logout # 0 /\ calls[logout].token = vault /\ vault' # 0 => vault \in cut',
           \/ vault' \in {0, vault}
           \/ worker[a].stage = "storing" /\ vault' = worker[a].pair /\ worker'[a].stage = "adopting",
           \/ current'.token \in {0, current.token}
           \/ /\ worker[a].stage = "adopting" /\ current'.token = worker[a].pair
    PROVE  VaultInv'
<1>0. /\ calls' = calls /\ live' = live /\ parent' = parent
      /\ CallersInv /\ PairsInv /\ UnstoredInv /\ PresentedInv /\ KeptInv
      /\ Len(parent) \in Nat /\ 0 \notin live
  BY DEF VaultInv, TokenInv, Typed, LiveInv, server
<1>1. CallersInv'
  BY <1>0 DEF CallersInv, CallOf
<1>2. worker[a].stage \in {"storing", "adopting"} =>
         /\ worker[a].call \in 1..Len(calls) /\ Granted(worker[a].call)
         /\ worker[a].pair = calls[worker[a].call].pair
  BY <1>0 DEF CallersInv, CallOf, Granted
<1>3. worker[a].stage \in {"storing", "adopting"} => worker[a].pair \in 1..Len(parent)
  BY <1>0, <1>2 DEF PairsInv
<1>4. PairsInv'
  <2>1. vault' \in 0..Len(parent) /\ current'.token \in 0..Len(parent)
    BY <1>0, <1>3 DEF PairsInv
  <2>. QED
    BY <1>0, <2>1 DEF PairsInv, Granted
<1>5. UnstoredInv'
  <2> SUFFICES ASSUME NEW b \in Workers, worker'[b].stage \in {"waiting", "storing"},
                      calls[worker'[b].call].stage = "granted"
               PROVE  LET n == calls[worker'[b].call].pair IN
                      /\ n \in live /\ n # vault' /\ n # current'.token
                      /\ \A i \in 1..Len(calls) : calls[i].token # n
    BY <1>0 DEF UnstoredInv, CallOf
  <2> DEFINE n == calls[worker'[b].call].pair
  <2>0. worker[b].stage \in {"waiting", "storing"} /\ worker'[b].call = worker[b].call
    OBVIOUS
  <2>1. /\ n \in live /\ n # 0 /\ n # vault /\ n # current.token
        /\ \A i \in 1..Len(calls) : calls[i].token # n
    BY <1>0, <2>0 DEF UnstoredInv, CallOf
  <2>2. worker[b].call \in 1..Len(calls) /\ Granted(worker[b].call) /\ worker[b].call # 0
    BY <1>0, <2>0 DEF CallersInv, CallOf, Granted
  <2>3. b # a /\ worker[a].stage \in {"storing", "adopting"} => n # worker[a].pair
    <3> SUFFICES ASSUME b # a, worker[a].stage \in {"storing", "adopting"}, n = worker[a].pair
                 PROVE  FALSE
      OBVIOUS
    <3>1. worker[b].call = worker[a].call
      BY <1>0, <1>2, <2>0, <2>2 DEF PairsInv
    <3>. QED
      BY <1>0, <2>2, <3>1 DEF CallersInv
  <2>4. b = a => vault' \in {0, vault} /\ current'.token \in {0, current.token}
    BY <2>0
  <2>. QED
    BY <2>1, <2>3, <2>4
<1>6. PresentedInv'
  <2> SUFFICES ASSUME vault' # 0
               PROVE  /\ \A b \in Workers : worker'[b].stage \in {"adopting", "done"} =>
                             calls[worker'[b].call].token # vault'
                      /\ \A i \in 1..Len(calls) :
                            calls[i].token = vault' =>
                                /\ calls[i].kind = "refresh" =>
                                      vault' \in cut' \/ \E b \in Workers : worker'[b].call = i
                                /\ calls[i].kind = "logout" => vault' \in cut' \/ logout' = i
    BY <1>0 DEF PresentedInv, CallOf
  <2>1. CASE vault' = worker[a].pair /\ worker[a].stage = "storing"
    <3>1. \A i \in 1..Len(calls) : calls[i].token # vault'
      BY <1>0, <1>2, <2>1 DEF UnstoredInv, CallOf, Granted
    <3>2. \A b \in Workers : worker'[b].stage \in {"adopting", "done"} =>
             worker'[b].call \in 1..Len(calls)
      BY <1>0, <1>1 DEF CallersInv
    <3>. QED
      BY <3>1, <3>2
  <2>2. CASE ~(vault' = worker[a].pair /\ worker[a].stage = "storing")
    <3>1. vault' = vault /\ vault # 0
      BY <2>2
    <3>2. \A b \in Workers : worker'[b].stage \in {"adopting", "done"} =>
             worker[b].stage \in {"adopting", "done"} /\ worker'[b].call = worker[b].call
      BY <2>2
    <3>3. \A b \in Workers : worker'[b].stage \in {"adopting", "done"} =>
             calls[worker'[b].call].token # vault'
      BY <1>0, <3>1, <3>2 DEF PresentedInv, CallOf
    <3>4. ASSUME NEW i \in 1..Len(calls), calls[i].token = vault, calls[i].kind = "refresh"
          PROVE  vault' \in cut' \/ \E b \in Workers : worker'[b].call = i
      <4>1. CASE vault \in cut
        BY <3>1, <4>1
      <4>2. ASSUME NEW b \in Workers, worker[b].call = i
            PROVE  vault' \in cut' \/ \E c \in Workers : worker'[c].call = i
        <5>1. CASE worker'[b].call = worker[b].call
          BY <4>2, <5>1
        <5>2. CASE worker'[b].call # worker[b].call
          <6>1. b = a /\ worker[a].call # 0 /\ worker'[a].call = 0 /\ CallOf(a).token = vault'
            BY <3>1, <3>4, <4>2, <5>2 DEF CallOf
          <6>. QED
            BY <6>1
        <5>. QED
          BY <5>1, <5>2
      <4>. QED
        BY <1>0, <3>1, <3>4, <4>1, <4>2 DEF PresentedInv
    <3>5. ASSUME NEW i \in 1..Len(calls), calls[i].token = vault, calls[i].kind = "logout"
          PROVE  vault' \in cut' \/ logout' = i
      <4>1. vault \in cut \/ logout = i
        BY <1>0, <3>1, <3>5 DEF PresentedInv
      <4>2. i # 0
        OBVIOUS
      <4>. QED
        BY <3>1, <3>5, <4>1, <4>2
    <3>. QED
      BY <3>1, <3>3, <3>4, <3>5
  <2>. QED
    BY <2>1, <2>2
<1>7. KeptInv'
  <2>1. CASE vault' = 0
    BY <2>1 DEF KeptInv
  <2>2. CASE vault' = worker[a].pair /\ worker[a].stage = "storing"
    BY <1>0, <1>2, <2>2 DEF UnstoredInv, CallOf, Granted, KeptInv
  <2>3. CASE vault' = vault /\ vault # 0
    <3>1. CASE logout # 0 /\ calls[logout].token = vault
      BY <1>0, <2>3, <3>1 DEF KeptInv
    <3>2. CASE \E b \in Workers : worker[b].call # 0 /\ CallOf(b).token = vault
      <4>1. PICK b \in Workers : worker[b].call # 0 /\ CallOf(b).token = vault
        BY <3>2
      <4>2. CASE worker'[b].call = worker[b].call
        BY <1>0, <2>3, <4>1, <4>2 DEF KeptInv, CallOf
      <4>3. CASE worker'[b].call # worker[b].call
        <5>1. b = a /\ worker'[a].call = 0
          BY <4>3
        <5>2. vault' \in cut'
          BY <2>3, <4>1, <5>1
        <5>. QED
          BY <5>2 DEF KeptInv
      <4>. QED
        BY <4>2, <4>3
    <3>3. CASE vault \in live \cup cut
      BY <1>0, <2>3, <3>3 DEF KeptInv
    <3>. QED
      BY <1>0, <2>3, <3>1, <3>2, <3>3 DEF KeptInv
  <2>. QED
    BY <2>1, <2>2, <2>3
<1>. QED
  BY <1>1, <1>4, <1>5, <1>6, <1>7 DEF VaultInv

\* A request is sent: it presents a token that the device knows, or none.
LEMMA SendVault ==
    ASSUME TokenInv, VaultInv, NEW a \in Workers,
           NEW kind \in {"refresh", "login", "logout"}, NEW token \in {0, vault, current.token},
           NEW pair \in Nat, Send(kind, token, pair),
           \A b \in Workers \ {a} : worker'[b] = worker[b],
           \/ /\ kind # "logout" /\ worker'[a].stage = "waiting"
              /\ worker'[a].call = Len(calls) + 1 /\ worker[a].call = 0
              /\ logout' = logout
           \/ /\ kind = "logout" /\ worker'[a].stage = "idle" /\ worker'[a].call = 0
              /\ worker[a].call # 0 /\ CallOf(a).token = vault /\ vault # 0 => vault \in cut'
              /\ logout = 0 /\ logout' = Len(calls) + 1,
           cut \subseteq cut',
           UNCHANGED <<live, parent, vault, current>>
    PROVE  VaultInv'
<1> DEFINE e == [kind |-> kind, token |-> token, stage |-> "sent", pair |-> pair]
<1>0. /\ CallersInv /\ PairsInv /\ UnstoredInv /\ PresentedInv /\ KeptInv
      /\ Len(parent) \in Nat /\ 0 \notin live /\ calls \in Seq(Call) /\ Len(calls) \in Nat
      /\ vault \in Nat /\ current.token \in Nat
  BY DEF VaultInv, TokenInv, Typed, LiveInv
<1>1. /\ Len(calls') = Len(calls) + 1
      /\ \A j \in 1..Len(calls) : calls'[j] = calls[j]
      /\ calls'[Len(calls) + 1] = e
  <2>1. e \in Call
    BY <1>0 DEF Call, Stages
  <2>. QED
    BY <1>0, <2>1, AppendCall DEF Send
<1>2. /\ \A j \in 1..Len(calls') : j \in 1..Len(calls) \/ j = Len(calls) + 1
      /\ \A j \in 1..Len(calls) : j \in 1..Len(calls') /\ j # Len(calls) + 1
      /\ Len(calls) + 1 \in 1..Len(calls') /\ Len(calls) + 1 # 0
  BY <1>0, <1>1
<1>3. e.kind = kind /\ e.token = token /\ e.stage = "sent"
  OBVIOUS
<1> HIDE DEF e
<1>4. \A j \in 1..Len(calls') :
         Granted(j)' => j \in 1..Len(calls) /\ Granted(j) /\ calls'[j] = calls[j]
  BY <1>1, <1>2, <1>3 DEF Granted
<1>5. \A b \in Workers : worker[b].call # 0 => worker[b].call \in 1..Len(calls)
  BY <1>0 DEF CallersInv
<1>6. CallersInv'
  <2>1. ASSUME NEW b \in Workers
        PROVE  /\ worker'[b].stage \in {"idle", "reading"} => worker'[b].call = 0
               /\ worker'[b].stage \notin {"idle", "reading"} =>
                     worker'[b].call \in 1..Len(calls') /\ calls'[worker'[b].call].kind # "logout"
               /\ worker'[b].stage \in {"storing", "adopting", "done"} =>
                     /\ calls'[worker'[b].call].stage = "granted"
                     /\ worker'[b].pair = calls'[worker'[b].call].pair
    <3>1. CASE b = a
      BY <1>1, <1>2, <1>3, <3>1
    <3>2. CASE b # a
      BY <1>0, <1>1, <1>2, <3>2 DEF CallersInv, CallOf
    <3>. QED
      BY <3>1, <3>2
  <2>2. \A b, c \in Workers : worker'[b].call # 0 /\ worker'[b].call = worker'[c].call => b = c
    <3>1. \A b \in Workers : b # a => worker'[b].call # Len(calls) + 1
      BY <1>2, <1>5
    <3>. QED
      BY <1>0, <3>1 DEF CallersInv
  <2>3. logout' \in 0..Len(calls')
    BY <1>0, <1>1 DEF CallersInv
  <2>. QED
    BY <2>1, <2>2, <2>3 DEF CallersInv, CallOf
<1>7. PairsInv'
  <2>1. \A j \in 1..Len(calls') :
           /\ calls'[j].token \in 0..Len(parent)
           /\ Granted(j)' => calls'[j].pair \in 1..Len(parent)
    BY <1>0, <1>1, <1>2, <1>3, <1>4 DEF PairsInv
  <2>2. \A i, j \in 1..Len(calls') :
           Granted(i)' /\ Granted(j)' /\ calls'[i].pair = calls'[j].pair => i = j
    BY <1>0, <1>1, <1>2, <1>4 DEF PairsInv
  <2>. QED
    BY <1>0, <2>1, <2>2 DEF PairsInv
<1>8. UnstoredInv'
  <2> SUFFICES ASSUME NEW b \in Workers, worker'[b].stage \in {"waiting", "storing"},
                      calls'[worker'[b].call].stage = "granted"
               PROVE  LET n == calls'[worker'[b].call].pair IN
                      /\ n \in live /\ n # vault /\ n # current.token
                      /\ \A i \in 1..Len(calls') : calls'[i].token # n
    BY DEF UnstoredInv, CallOf
  <2>1. b # a
    BY <1>1, <1>3
  <2>2. /\ worker'[b] = worker[b] /\ worker[b].call \in 1..Len(calls)
        /\ calls'[worker'[b].call] = calls[worker[b].call]
    BY <1>0, <1>1, <2>1 DEF CallersInv
  <2>3. LET n == calls[worker[b].call].pair IN
           /\ n \in live /\ n # 0 /\ n # vault /\ n # current.token
           /\ \A i \in 1..Len(calls) : calls[i].token # n
    BY <1>0, <2>2 DEF UnstoredInv, CallOf
  <2>. QED
    BY <1>1, <1>2, <1>3, <2>2, <2>3
<1>9. PresentedInv'
  <2> SUFFICES ASSUME vault # 0
               PROVE  /\ \A b \in Workers : worker'[b].stage \in {"adopting", "done"} =>
                             calls'[worker'[b].call].token # vault
                      /\ \A i \in 1..Len(calls') :
                            calls'[i].token = vault =>
                                /\ calls'[i].kind = "refresh" =>
                                      vault \in cut' \/ \E b \in Workers : worker'[b].call = i
                                /\ calls'[i].kind = "logout" => vault \in cut' \/ logout' = i
    BY DEF PresentedInv, CallOf
  <2>1. ASSUME NEW b \in Workers, worker'[b].stage \in {"adopting", "done"}
        PROVE  calls'[worker'[b].call].token # vault
    <3>1. b # a /\ worker'[b] = worker[b]
      BY <2>1
    <3>2. worker[b].call \in 1..Len(calls)
      BY <1>0, <2>1, <3>1 DEF CallersInv
    <3>. QED
      BY <1>0, <1>1, <2>1, <3>1, <3>2 DEF PresentedInv, CallOf
  <2>2. ASSUME NEW i \in 1..Len(calls'), calls'[i].token = vault
        PROVE  /\ calls'[i].kind = "refresh" =>
                     vault \in cut' \/ \E b \in Workers : worker'[b].call = i
               /\ calls'[i].kind = "logout" => vault \in cut' \/ logout' = i
    <3>1. CASE i = Len(calls) + 1
      BY <1>1, <1>3, <3>1
    <3>2. CASE i \in 1..Len(calls)
      <4>1. calls'[i] = calls[i] /\ i # 0
        BY <1>1, <3>2
      <4>2. calls[i].kind = "logout" => vault \in cut' \/ logout' = i
        BY <1>0, <2>2, <3>2, <4>1 DEF PresentedInv
      <4>3. calls[i].kind = "refresh" => vault \in cut \/ \E b \in Workers : worker[b].call = i
        BY <1>0, <2>2, <3>2, <4>1 DEF PresentedInv
      <4>4. ASSUME NEW b \in Workers, worker[b].call = i
            PROVE  vault \in cut' \/ \E c \in Workers : worker'[c].call = i
        BY <2>2, <4>1, <4>4 DEF CallOf
      <4>. QED
        BY <4>1, <4>2, <4>3, <4>4
    <3>. QED
      BY <1>2, <3>1, <3>2
  <2>. QED
    BY <2>1, <2>2
<1>10. KeptInv'
  <2>1. CASE \E b \in Workers : worker[b].call # 0 /\ CallOf(b).token = vault
    <3>1. PICK b \in Workers : worker[b].call # 0 /\ CallOf(b).token = vault
      BY <2>1
    <3>2. CASE worker'[b].call = worker[b].call
      BY <1>1, <1>5, <3>1, <3>2 DEF KeptInv, CallOf
    <3>3. CASE worker'[b].call # worker[b].call
      BY <3>1, <3>3 DEF KeptInv
    <3>. QED
      BY <3>2, <3>3
  <2>2. CASE vault = 0 \/ vault \in live \cup cut
    BY <2>2 DEF KeptInv
  <2>3. CASE logout # 0 /\ calls[logout].token = vault
    <3>1. logout' = logout /\ logout \in 1..Len(calls)
      BY <1>0, <2>3 DEF CallersInv
    <3>. QED
      BY <1>1, <2>3, <3>1 DEF KeptInv
  <2>. QED
    BY <1>0, <2>1, <2>2, <2>3 DEF KeptInv
<1>. QED
  BY <1>6, <1>7, <1>8, <1>9, <1>10 DEF VaultInv

\* The steps of the workers, one by one.
LEMMA WorkerVault ==
    ASSUME TokenInv, VaultInv, NEW a \in Workers,
           Read(a) \/ Answer(a) \/ GiveUp(a) \/ Break(a) \/ Fail(a) \/ Store(a) \/ Adopt(a)
           \/ SignedIn(a)
    PROVE  VaultInv'
<1>0. /\ Typed /\ worker[a] \in [stage : {"idle", "reading", "waiting", "storing", "adopting",
                                          "failing", "done"}, call : Nat, pair : Nat]
      /\ CallersInv /\ PresentedInv
  BY DEF TokenInv, Typed, VaultInv
<1>1. ASSUME NEW record, Moves(a, record)
      PROVE  worker'[a] = record /\ \A b \in Workers \ {a} : worker'[b] = worker[b]
  BY <1>0, <1>1 DEF Moves, Typed
<1>2. Idle.stage = "idle" /\ Idle.call = 0
  BY DEF Idle
<1>3. CASE Read(a)
  <2>1. worker[a].call = 0 /\ cut' = cut /\ UNCHANGED <<live, parent, vault, current, logout>>
    BY <1>0, <1>3 DEF Read, CallersInv
  <2>2. CASE UNCHANGED calls /\ Moves(a, Idle)
    BY <1>1, <1>2, <2>1, <2>2, QuietVault DEF server
  <2>3. CASE Send("refresh", vault, 0) /\ Moves(a, Waits)
    <3>1. Waits.stage = "waiting" /\ Waits.call = Len(calls) + 1
      BY DEF Waits, Idle
    <3>. QED
      BY <1>1, <2>1, <2>3, <3>1, SendVault
  <2>. QED
    BY <1>3, <2>2, <2>3 DEF Read
<1>4. CASE Answer(a)
  <2>1. PICK record : /\ Moves(a, record) /\ record.call = worker[a].call
                      /\ \/ record.stage = "failing"
                         \/ /\ record.stage = "storing" /\ record.pair = CallOf(a).pair
                            /\ CallOf(a).stage = "granted"
    <3>1. CASE /\ CallOf(a).stage = "granted"
               /\ Moves(a, [worker[a] EXCEPT !.stage = "storing", !.pair = CallOf(a).pair])
      <4>1. PICK record : record = [worker[a] EXCEPT !.stage = "storing", !.pair = CallOf(a).pair]
        OBVIOUS
      <4>2. record.call = worker[a].call /\ record.stage = "storing" /\ record.pair = CallOf(a).pair
        BY <1>0, <4>1
      <4>. QED
        BY <3>1, <4>1, <4>2
    <3>2. CASE Moves(a, [worker[a] EXCEPT !.stage = "failing"])
      <4>1. PICK record : record = [worker[a] EXCEPT !.stage = "failing"]
        OBVIOUS
      <4>2. record.call = worker[a].call /\ record.stage = "failing"
        BY <1>0, <4>1
      <4>. QED
        BY <3>2, <4>1, <4>2
    <3>. QED
      BY <1>4, <3>1, <3>2 DEF Answer
  <2>2. /\ worker[a].stage = "waiting"
        /\ cut' = cut /\ UNCHANGED <<server, vault, current, logout>>
    BY <1>4 DEF Answer
  <2>3. worker[a].call # 0
    BY <1>0, <2>2 DEF CallersInv
  <2>. QED
    BY <1>1, <2>1, <2>2, <2>3, QuietVault
<1>5. CASE GiveUp(a)
  <2>1. PICK record : record = [worker[a] EXCEPT !.stage = "failing"]
    OBVIOUS
  <2>2. record.call = worker[a].call /\ record.stage = "failing" /\ Moves(a, record)
    BY <1>0, <1>5, <2>1 DEF GiveUp
  <2>3. /\ worker[a].stage = "waiting"
        /\ cut' = cut /\ UNCHANGED <<server, vault, current, logout>>
    BY <1>5 DEF GiveUp
  <2>4. worker[a].call # 0
    BY <1>0, <2>3 DEF CallersInv
  <2>. QED
    BY <1>1, <2>2, <2>3, <2>4, QuietVault
<1>a. CASE Abandons(a) /\ UNCHANGED <<server, vault, current, logout>>
  BY <1>0, <1>a, AbandonsSeen, QuietVault
<1>b. CASE Break(a)
  BY <1>a, <1>b DEF Break
<1>6. CASE /\ worker[a].stage = "failing" /\ Moves(a, Idle)
           /\ vault' = IF CallOf(a).kind = "refresh" THEN 0 ELSE vault
           /\ cut' = cut /\ UNCHANGED <<server, current, logout>>
  <2>1. worker[a].stage = "failing"
    BY <1>6
  <2>2. CallOf(a).token = vault' => vault' = 0
    <3>1. worker[a].call \in 1..Len(calls) /\ calls[worker[a].call].kind # "logout"
      BY <1>0, <2>1 DEF CallersInv, CallOf
    <3>2. calls[worker[a].call] \in Call
      BY <1>0, <3>1 DEF Typed
    <3>3. CASE calls[worker[a].call].kind = "refresh"
      BY <1>6, <3>3 DEF CallOf
    <3>4. CASE calls[worker[a].call].kind = "login"
      BY <1>6, <3>1, <3>4 DEF TokenInv, RequestInv, CallOf
    <3>. QED
      BY <3>1, <3>2, <3>3, <3>4 DEF Call
  <2>. QED
    BY <1>1, <1>2, <1>6, <2>2, QuietVault
<1>7. CASE /\ worker[a].stage = "storing" /\ Moves(a, [worker[a] EXCEPT !.stage = "adopting"])
           /\ vault' = worker[a].pair
           /\ cut' = cut /\ UNCHANGED <<server, current, logout>>
  <2>1. PICK record : record = [worker[a] EXCEPT !.stage = "adopting"]
    OBVIOUS
  <2>2. /\ record.call = worker[a].call /\ record.stage = "adopting" /\ record.pair = worker[a].pair
        /\ Moves(a, record)
    BY <1>0, <1>7, <2>1
  <2>3. worker[a].call # 0 /\ CallOf(a).stage = "granted" /\ worker[a].pair = CallOf(a).pair
    BY <1>0, <1>7 DEF CallersInv
  <2>. QED
    BY <1>1, <1>7, <2>2, <2>3, QuietVault
<1>8. CASE Adopt(a)
  <2>1. /\ worker[a].stage = "adopting"
        /\ cut' = cut /\ UNCHANGED <<server, vault, logout>>
    BY <1>8 DEF Adopt
  <2>2. worker[a].call # 0 /\ CallOf(a).stage = "granted" /\ worker[a].pair = CallOf(a).pair
        /\ (vault # 0 => CallOf(a).token # vault)
    BY <1>0, <2>1 DEF CallersInv, PresentedInv
  <2>3. CASE a \in Desktop
    <3>1. PICK record : record = [worker[a] EXCEPT !.stage = "done"]
      OBVIOUS
    <3>2. /\ record.call = worker[a].call /\ record.stage = "done" /\ record.pair = worker[a].pair
          /\ Moves(a, record) /\ current'.token = worker[a].pair
      BY <1>0, <1>8, <2>3, <3>1 DEF Adopt
    <3>. QED
      BY <1>1, <2>1, <2>2, <3>2, QuietVault
  <2>4. CASE a \notin Desktop
    <3>1. Moves(a, Idle) /\ current' = current
      BY <1>8, <2>4 DEF Adopt
    <3>. QED
      BY <1>1, <1>2, <2>1, <2>2, <3>1, QuietVault
  <2>. QED
    BY <2>3, <2>4
<1>9. CASE SignedIn(a)
  <2>1. /\ worker[a].stage = "done" /\ Moves(a, Idle)
        /\ cut' = cut /\ UNCHANGED <<server, vault, current, logout>>
    BY <1>9 DEF SignedIn
  <2>2. vault # 0 => CallOf(a).token # vault
    BY <1>0, <2>1 DEF PresentedInv
  <2>. QED
    BY <1>1, <1>2, <2>1, <2>2, QuietVault
<1>c. CASE Fail(a)
  BY <1>6, <1>a, <1>c DEF Fail
<1>d. CASE Store(a)
  BY <1>7, <1>a, <1>d DEF Store
<1>. QED
  BY <1>3, <1>4, <1>5, <1>8, <1>9, <1>b, <1>c, <1>d

\* A device that starts again has no worker at anything, and no pair in memory.
LEMMA RestartVault ==
    ASSUME TokenInv, VaultInv, Restart
    PROVE  VaultInv'
<1>0. /\ Typed /\ CallersInv /\ PairsInv /\ PresentedInv /\ KeptInv
      /\ Len(calls) \in Nat /\ Len(parent) \in Nat
  BY DEF VaultInv, TokenInv, Typed
<1>1. /\ \A a \in Workers : worker'[a].stage \in {"idle", "reading"} /\ worker'[a].call = 0
      /\ current'.token = 0 /\ logout' = 0
      /\ UNCHANGED <<live, parent, calls, vault>>
      /\ cut' = cut \cup Presented(Workers) \cup (IF logout = 0 THEN {} ELSE {calls[logout].token})
  BY FreshTyped DEF Restart, NoPair, server
<1>2. \A a \in Workers : worker[a].call # 0 /\ CallOf(a).token = vault /\ vault # 0
                            => vault \in Presented(Workers)
  BY <1>0, Exchangers
<1>3. CallersInv'
  BY <1>0, <1>1 DEF CallersInv
<1>4. PairsInv'
  BY <1>0, <1>1 DEF PairsInv, Granted
<1>5. UnstoredInv'
  BY <1>1 DEF UnstoredInv
<1>6. PresentedInv'
  <2> SUFFICES ASSUME vault # 0, NEW i \in 1..Len(calls), calls[i].token = vault,
                      calls[i].kind \in {"refresh", "logout"}
               PROVE  vault \in cut'
    BY <1>1 DEF PresentedInv
  <2>1. ASSUME NEW a \in Workers, worker[a].call = i PROVE vault \in cut'
    BY <1>1, <1>2, <2>1 DEF CallOf
  <2>2. i # 0
    OBVIOUS
  <2>. QED
    BY <1>0, <1>1, <2>1, <2>2 DEF PresentedInv
<1>7. KeptInv'
  BY <1>0, <1>1, <1>2 DEF KeptInv
<1>. QED
  BY <1>3, <1>4, <1>5, <1>6, <1>7 DEF VaultInv

LEMMA VaultStep ==
    ASSUME TokenInv, VaultInv, [Next]_vars
    PROVE  VaultInv'
<1>0. /\ Typed /\ CallersInv /\ PresentedInv /\ calls \in Seq(Call) /\ Len(calls) \in Nat
      /\ "runtime" \in Workers /\ "login" \in Workers
      /\ current.token \in Nat
  BY DEF TokenInv, Typed, VaultInv, Workers, Desktop
<1>1. ASSUME NEW i \in DOMAIN calls,
             CheckRefresh(i) \/ CommitRefresh(i) \/ Login(i) \/ RefuseLogin(i) \/ Revoke(i) \/ Lose(i)
      PROVE  VaultInv'
  <2>1. i \in 1..Len(calls)
    BY <1>0
  <2>. QED
    BY <1>1, <2>1, ServerVault
<1>2. ASSUME NEW a \in Workers,
             Read(a) \/ Answer(a) \/ GiveUp(a) \/ Break(a) \/ Fail(a) \/ Store(a) \/ Adopt(a)
           \/ SignedIn(a)
      PROVE  VaultInv'
  BY <1>2, WorkerVault
<1>3. CASE Authenticate
  <2>1. /\ worker["login"].call = 0 /\ cut' = cut /\ Send("login", 0, 0)
        /\ UNCHANGED <<live, parent, vault, current, logout>>
    BY <1>0, <1>3 DEF Authenticate, CallersInv
  <2>2. /\ worker'["login"].stage = "waiting" /\ worker'["login"].call = Len(calls) + 1
        /\ \A b \in Workers \ {"login"} : worker'[b] = worker[b]
    BY <1>0, <1>3 DEF Authenticate, Moves, Waits, Idle, Typed
  <2>. QED
    BY <1>0, <2>1, <2>2, SendVault
<1>4. ASSUME UNCHANGED <<server, worker>>, cut \subseteq cut', logout' \in {0, logout},
             logout' = 0 /\ logout # 0 /\ calls[logout].token = vault /\ vault' # 0
                 => vault \in cut',
             vault' \in {0, vault}, current'.token \in {0, current.token}
      PROVE  VaultInv'
  <2>1. \/ worker'["login"].stage \in {"idle", "reading"} /\ worker'["login"].call = 0
        \/ /\ worker["login"].stage \notin {"idle", "reading"}
           /\ worker["login"].call # 0
           /\ worker["login"].stage \in {"storing", "adopting", "done"} =>
                 CallOf("login").stage = "granted" /\ worker["login"].pair = CallOf("login").pair
    BY <1>0, <1>4 DEF CallersInv
  <2>2. worker'["login"].stage \in {"adopting", "done"} => worker["login"].stage # "storing"
    BY <1>4
  <2>. QED
    BY <1>0, <1>4, <2>1, <2>2, QuietVault
<1>5. CASE AccessExpires
  <2>1. current'.token = current.token
    BY <1>0, <1>5 DEF AccessExpires, Typed
  <2>. QED
    BY <1>4, <1>5, <2>1 DEF AccessExpires
<1>6. CASE LoggedOut
  <2>1. UNCHANGED <<server, worker>> /\ logout' = 0
    BY <1>6 DEF LoggedOut
  <2>2. \/ vault' = 0 /\ current' = NoPair /\ cut' = cut
        \/ vault' = vault /\ current' = current /\ cut' = cut \cup {calls[logout].token}
    BY <1>6 DEF LoggedOut
  <2>3. cut \subseteq cut' /\ vault' \in {0, vault} /\ current'.token \in {0, current.token}
    BY <2>2 DEF NoPair
  <2>. QED
    BY <1>4, <2>1, <2>2, <2>3
<1>7. CASE StartRuntime \/ UNCHANGED vars
  BY <1>4, <1>7 DEF StartRuntime, vars, client, server
<1>a. RuntimeEnds => /\ \A b \in Workers \ {"runtime"} : worker'[b] = worker[b]
                     /\ worker'["runtime"].stage = "idle" /\ worker'["runtime"].call = 0
                     /\ cut \subseteq cut'
                     /\ worker["runtime"].call # 0 /\ CallOf("runtime").token = vault /\ vault # 0
                           => vault \in cut'
  BY <1>0, AbandonsSeen DEF RuntimeEnds
<1>8. CASE Logout
  <2>0. RuntimeEnds /\ logout = 0 /\ UNCHANGED <<live, parent, current>>
    BY <1>8 DEF Logout
  <2>1. CASE vault' \in {0, vault} /\ UNCHANGED <<calls, logout>>
    BY <1>0, <1>a, <2>0, <2>1, QuietVault DEF server
  <2>2. CASE /\ Send("logout", current.token, IF current.fresh THEN current.token ELSE 0)
             /\ logout' = Len(calls) + 1 /\ UNCHANGED vault
    <3>1. PICK pair \in Nat : pair = IF current.fresh THEN current.token ELSE 0
      BY <1>0
    <3>2. Send("logout", current.token, pair)
      BY <2>2, <3>1
    <3>. QED
      BY <1>0, <1>a, <2>0, <2>2, <3>2, SendVault
  <2>3. \/ vault' \in {0, vault} /\ UNCHANGED <<calls, logout>>
        \/ /\ Send("logout", current.token, IF current.fresh THEN current.token ELSE 0)
           /\ logout' = Len(calls) + 1 /\ UNCHANGED vault
    BY <1>8 DEF Logout
  <2>. QED
    BY <2>1, <2>2, <2>3
<1>9. CASE Connect
  <2>1. /\ worker["runtime"].stage = "idle"
        /\ worker'["runtime"].stage = "reading" /\ worker'["runtime"].call = 0
        /\ \A b \in Workers \ {"runtime"} : worker'[b] = worker[b]
        /\ cut' = cut /\ UNCHANGED <<server, vault, current, logout>>
    BY <1>0, <1>9 DEF Connect, Moves, Idle, Typed
  <2>2. worker["runtime"].call = 0
    BY <1>0, <2>1 DEF CallersInv
  <2>. QED
    BY <1>0, <2>1, <2>2, QuietVault
<1>10. CASE StopRuntime
  <2>1. RuntimeEnds /\ UNCHANGED <<server, vault, current, logout>>
    BY <1>10 DEF StopRuntime
  <2>. QED
    BY <1>0, <1>a, <2>1, QuietVault
<1>11. CASE Restart
  BY <1>11, RestartVault
<1>. QED
  BY <1>1, <1>2, <1>3, <1>5, <1>6, <1>7, <1>8, <1>9, <1>10, <1>11 DEF Next

LEMMA VaultInit == Init => VaultInv
<1> SUFFICES ASSUME Init PROVE VaultInv
  OBVIOUS
<1>1. /\ calls = <<>> /\ Len(parent) \in {0, 1} /\ vault = Len(parent)
      /\ live = 1..Len(parent) /\ logout = 0
  <2>1. CASE parent = <<>>
    BY <2>1 DEF Init
  <2>2. CASE parent = <<0>>
    BY <2>2 DEF Init
  <2>. QED
    BY <2>1, <2>2 DEF Init
<1>2. \A a \in Workers : worker[a].stage \in {"idle", "reading"} /\ worker[a].call = 0
  BY FreshTyped DEF Init
<1>3. CallersInv
  BY <1>1, <1>2 DEF CallersInv
<1>4. PairsInv
  BY <1>1 DEF Init, PairsInv, NoPair
<1>5. UnstoredInv
  BY <1>2 DEF UnstoredInv
<1>6. PresentedInv
  BY <1>1, <1>2 DEF PresentedInv
<1>7. KeptInv
  BY <1>1 DEF KeptInv
<1>. QED
  BY <1>3, <1>4, <1>5, <1>6, <1>7 DEF VaultInv

\* Whatever is refused, lost or given up, the token in the vault is accepted, or a worker
\* or a sign-out has just presented it, or its exchange was cut short by a kill, an
\* exception that is no AuthError or a failing vault (StoredAuthSession).
THEOREM StoredAlwaysUsable == Spec => []StoredIsUsable
<1>1. TokenInv /\ VaultInv => StoredIsUsable
  <2> SUFFICES ASSUME TokenInv, VaultInv PROVE StoredIsUsable
    OBVIOUS
  <2>1. Typed /\ CallersInv /\ PresentedInv /\ KeptInv
    BY DEF TokenInv, VaultInv
  <2>2. ASSUME NEW a \in Workers, vault # 0, worker[a].call # 0, CallOf(a).token = vault
        PROVE  vault \in Presented(Workers)
    BY <2>1, <2>2, Exchangers
  <2>. QED
    BY <2>1, <2>2 DEF KeptInv, StoredIsUsable
<1>. QED
  BY <1>1, TokenInit, TokenStep, VaultInit, VaultStep, PTL DEF Spec

==============================================================================

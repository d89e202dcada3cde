------------------------------ MODULE VoiceProofs ------------------------------
(***************************************************************************)
(* The turns of the conversation pipeline, for every set of calls, of      *)
(* respond and of announce, and however often they are interrupted.        *)
(***************************************************************************)
EXTENDS Voice, FiniteSetTheorems, SequenceTheorems, TLAPS

Gone == Returned \cup {"new"}

\* Whoever has called and not returned is in the queue; only the first of it is
\* past the lock.
LockInv ==
    /\ \A c \in Calls : at[c] \notin Gone <=> \E i \in 1..Len(turn_lock) : turn_lock[i] = c
    /\ \A c \in Calls : at[c] \notin Gone \cup {"waiting"} => Holds(c)
    /\ \A c \in cancelled : at[c] # "new"

Spoken(s, k) == {i \in 1..k : s[i] = "speech"}
CallsTools(s, k) == \E i \in 1..k : s[i] = "tools" /\ \A j \in i..k : s[j] # "end"

\* A clean answer has not been worked off, ...
Queued(c, w) ==
    /\ inbox[w] = <<c>> /\ flight[w] = <<>>
    /\ answer.script = <<>> /\ answer.heard = 0
    /\ ~turn.done /\ ~turn.error /\ ~turn.used_tools /\ ~turn.said

\* ... or the observer has seen the first k frames of it, and the others are on
\* their way.
Played(c, w, k) ==
    LET s == answer.script IN
    /\ s \in Scripts(c) /\ k \in 0..Len(s)
    /\ inbox[w] = <<>>
    /\ flight[w] = [i \in 1..(Len(s) - k) |-> [call |-> c, kind |-> s[k + i]]]
    /\ answer.heard = Cardinality(Spoken(s, k))
    /\ turn.said <=> Spoken(s, k) # {}
    /\ turn.used_tools <=> CallsTools(s, k)
    /\ turn.error <=> \E i \in 1..k : s[i] = "error"
    /\ turn.done <=> k = Len(s) /\ s # <<>>

\* Its call holds the lock and its worker, if it still runs, is the only one.
AnswerInv ==
    answer.clean =>
        /\ turn_lock # <<>>
        /\ LET c == Head(turn_lock)
               w == runner[c]
           IN  /\ at[c] = "turn" /\ turn.active /\ turn.callback = c
               /\ running \subseteq {w} /\ w \notin ending
               /\ IF w \in running
                  THEN Queued(c, w) \/ \E k \in 0..Len(answer.script) : Played(c, w, k)
                  ELSE turn.done /\ turn.error

Inv == TypeOK /\ LockInv /\ AnswerInv

------------------------------------------------------------------------------
(* The lock.                                                               *)

LEMMA Removed ==
    ASSUME NEW S, NEW s \in Seq(S), NEW n \in 1..Len(s)
    PROVE  /\ RemoveAt(s, n) \in Seq(S)
           /\ Len(RemoveAt(s, n)) = Len(s) - 1
           /\ \A i \in 1..(Len(s) - 1) :
                 RemoveAt(s, n)[i] = IF i < n THEN s[i] ELSE s[i + 1]
<1>0. \A i \in 1..Len(s) : s[i] \in S
  OBVIOUS
<1>1. PICK a \in Seq(S) : a = SubSeq(s, 1, n - 1)
  <2>1. 1 \in Int /\ n - 1 \in Int /\ \A i \in 1..(n - 1) : s[i] \in S
    BY <1>0
  <2>2. SubSeq(s, 1, n - 1) \in Seq(S)
    BY ONLY <2>1, SubSeqProperties
  <2>. QED
    BY <2>2
<1>2. PICK b \in Seq(S) : b = SubSeq(s, n + 1, Len(s))
  <2>1. n + 1 \in Int /\ Len(s) \in Int /\ \A i \in (n + 1)..Len(s) : s[i] \in S
    BY <1>0
  <2>2. SubSeq(s, n + 1, Len(s)) \in Seq(S)
    BY ONLY <2>1, SubSeqProperties
  <2>. QED
    BY <2>2
<1>3. Len(a) = n - 1 /\ \A i \in 1..(n - 1) : a[i] = s[i]
  BY <1>1
<1>4. Len(b) = Len(s) - n /\ \A i \in 1..(Len(s) - n) : b[i] = s[n + i]
  BY <1>2
<1>5. PICK r \in Seq(S) : r = a \o b
  BY ConcatProperties
<1>6. RemoveAt(s, n) = r
  BY <1>1, <1>2, <1>5 DEF RemoveAt
<1>7. Len(r) = Len(s) - 1
  BY <1>3, <1>4, <1>5, SMTT(30)
<1>8. ASSUME NEW i \in 1..(Len(s) - 1) PROVE r[i] = IF i < n THEN s[i] ELSE s[i + 1]
  <2>1. CASE i < n
    BY <1>3, <1>5, <2>1
  <2>2. CASE i >= n
    <3>1. i - (n - 1) \in 1..(Len(s) - n) /\ n + (i - (n - 1)) = i + 1
      BY <2>2
    <3>2. r[i] = b[i - (n - 1)]
      BY <1>3, <1>4, <1>5, <2>2
    <3>. QED
      BY <1>4, <2>2, <3>1, <3>2
  <2>. QED
    BY <2>1, <2>2
<1>. QED
  BY <1>6, <1>7, <1>8

\* What leaves the queue leaves it from its one place.
LEMMA Leaves ==
    ASSUME NEW S, NEW s \in Seq(S), NEW n \in 1..Len(s),
           \A i, j \in 1..Len(s) : s[i] = s[j] => i = j
    PROVE  RemoveFirst(s, s[n]) = RemoveAt(s, n)
<1> DEFINE I == {i \in 1..Len(s) : s[i] = s[n]}
<1>1. I = {n}
  OBVIOUS
<1>2. Min({n}) = n
  BY DEF Min
<1>3. SelectInSeq(s, LAMBDA v : v = s[n]) = IF I # {} THEN Min(I) ELSE 0
  BY Zenon DEF SelectInSeq
<1>4. SelectInSeq(s, LAMBDA v : v = s[n]) = n
  BY <1>1, <1>2, <1>3
<1>5. RemoveFirst(s, s[n]) = RemoveAt(s, SelectInSeq(s, LAMBDA v : v = s[n]))
  BY Zenon DEF RemoveFirst
<1>. QED
  BY ONLY <1>4, <1>5, Zenon

\* A call lines up.
LEMMA LockCall ==
    ASSUME TypeOK, LockInv, NEW c \in Calls, Call(c)
    PROVE  /\ turn_lock' \in Seq(Calls) /\ IsInjective(turn_lock') /\ LockInv'
           /\ turn_lock # <<>> => turn_lock' # <<>> /\ Head(turn_lock') = Head(turn_lock)
<1>1. /\ turn_lock' = Append(turn_lock, c) /\ at' = [at EXCEPT ![c] = "waiting"]
      /\ at[c] = "new" /\ cancelled' = cancelled
  BY DEF Call
<1>2. /\ turn_lock \in Seq(Calls) /\ at \in [Calls -> {"new", "waiting", "starting", "turn"}
                                                          \cup Closing \cup Returned]
      /\ \A i, j \in 1..Len(turn_lock) : turn_lock[i] = turn_lock[j] => i = j
      /\ cancelled \subseteq Calls
  BY SMTT(30) DEF TypeOK, IsInjective
<1>3. /\ turn_lock' \in Seq(Calls) /\ Len(turn_lock') = Len(turn_lock) + 1
      /\ \A i \in 1..Len(turn_lock) : turn_lock'[i] = turn_lock[i]
      /\ turn_lock'[Len(turn_lock) + 1] = c
      /\ Len(turn_lock) \in Nat
  BY <1>1, <1>2
<1>4. \A i \in 1..Len(turn_lock) : turn_lock[i] # c
  BY <1>1 DEF LockInv, Gone
<1>5. \A i, j \in 1..Len(turn_lock') : turn_lock'[i] = turn_lock'[j] => i = j
  BY <1>2, <1>3, <1>4
<1>6. turn_lock # <<>> => turn_lock' # <<>> /\ Head(turn_lock') = Head(turn_lock)
  BY <1>2, <1>3
<1>7. LockInv'
  <2>1. ASSUME NEW d \in Calls
        PROVE  at'[d] \notin Gone <=> \E i \in 1..Len(turn_lock') : turn_lock'[i] = d
    <3>1. CASE d = c
      BY <1>1, <1>2, <1>3, <3>1 DEF Gone, Returned
    <3>2. CASE d # c
      BY <1>1, <1>2, <1>3, <3>2 DEF LockInv
    <3>. QED
      BY <3>1, <3>2
  <2>2. ASSUME NEW d \in Calls, at'[d] \notin Gone \cup {"waiting"}
        PROVE  turn_lock' # <<>> /\ Head(turn_lock') = d
    <3>1. d # c /\ at[d] \notin Gone \cup {"waiting"}
      BY <1>1, <1>2, <2>2
    <3>. QED
      BY <1>6, <3>1 DEF LockInv, Holds
  <2>3. \A d \in cancelled' : at'[d] # "new"
    BY <1>1, <1>2 DEF LockInv
  <2>. QED
    BY <2>1, <2>2, <2>3 DEF LockInv, Holds
<1>8. DOMAIN turn_lock' = 1..Len(turn_lock')
  BY <1>3
<1>. QED
  BY <1>3, <1>5, <1>6, <1>7, <1>8 DEF IsInjective

\* A call returns and leaves the queue.
LEMMA LockReturn ==
    ASSUME TypeOK, LockInv, NEW c \in Calls, at[c] \notin Gone, NEW how \in Returned,
           Return(c, how), cancelled' = cancelled
    PROVE  /\ turn_lock' \in Seq(Calls) /\ IsInjective(turn_lock') /\ LockInv'
           /\ at' \in [Calls -> {"new", "waiting", "starting", "turn"} \cup Closing \cup Returned]
           /\ turn_lock # <<>> /\ Head(turn_lock) # c =>
                 turn_lock' # <<>> /\ Head(turn_lock') = Head(turn_lock)
<1>1. /\ turn_lock' = RemoveFirst(turn_lock, c) /\ at' = [at EXCEPT ![c] = how]
      /\ cancelled' = cancelled
  BY DEF Return
<1>2. /\ turn_lock \in Seq(Calls) /\ at \in [Calls -> {"new", "waiting", "starting", "turn"}
                                                          \cup Closing \cup Returned]
      /\ \A i, j \in 1..Len(turn_lock) : turn_lock[i] = turn_lock[j] => i = j
      /\ cancelled \subseteq Calls
  BY SMTT(30) DEF TypeOK, IsInjective
<1>n. PICK n \in 1..Len(turn_lock) : turn_lock[n] = c
  BY DEF LockInv
<1>3. /\ turn_lock' \in Seq(Calls) /\ Len(turn_lock') = Len(turn_lock) - 1
      /\ \A i \in 1..(Len(turn_lock) - 1) :
            turn_lock'[i] = IF i < n THEN turn_lock[i] ELSE turn_lock[i + 1]
      /\ Len(turn_lock) \in Nat
  <2>1. RemoveFirst(turn_lock, turn_lock[n]) = RemoveAt(turn_lock, n)
    BY <1>2, Leaves
  <2>2. turn_lock' = RemoveAt(turn_lock, n)
    BY <1>1, <1>n, <2>1
  <2>. QED
    BY <1>2, <2>2, Removed
<1>4. ASSUME NEW d \in Calls
      PROVE  (\E i \in 1..Len(turn_lock') : turn_lock'[i] = d)
             <=> d # c /\ \E i \in 1..Len(turn_lock) : turn_lock[i] = d
  <2>1. ASSUME NEW i \in 1..Len(turn_lock'), turn_lock'[i] = d
        PROVE  d # c /\ \E j \in 1..Len(turn_lock) : turn_lock[j] = d
    <3>1. PICK j \in 1..Len(turn_lock) : j # n /\ turn_lock'[i] = turn_lock[j]
      <4>1. CASE i < n
        BY <1>3, <4>1
      <4>2. CASE i >= n
        <5>1. i + 1 \in 1..Len(turn_lock) /\ i + 1 # n /\ turn_lock'[i] = turn_lock[i + 1]
          BY <1>3, <4>2
        <5>. QED
          BY <5>1
      <4>. QED
        BY <4>1, <4>2
    <3>. QED
      BY <1>2, <1>n, <2>1, <3>1
  <2>2. ASSUME d # c, NEW j \in 1..Len(turn_lock), turn_lock[j] = d
        PROVE  \E i \in 1..Len(turn_lock') : turn_lock'[i] = d
    <3>1. CASE j < n
      BY <1>3, <2>2, <3>1
    <3>2. CASE j > n
      <4>1. j - 1 \in 1..Len(turn_lock') /\ turn_lock'[j - 1] = turn_lock[(j - 1) + 1]
        BY <1>3, <3>2
      <4>2. (j - 1) + 1 = j
        BY <3>2
      <4>. QED
        BY <2>2, <4>1, <4>2
    <3>. QED
      BY <1>n, <2>2, <3>1, <3>2
  <2>. QED
    BY <2>1, <2>2
<1>5. \A i, j \in 1..Len(turn_lock') : turn_lock'[i] = turn_lock'[j] => i = j
  <2>1. ASSUME NEW i \in 1..Len(turn_lock'), NEW j \in 1..Len(turn_lock'),
               turn_lock'[i] = turn_lock'[j]
        PROVE  i = j
    <3> DEFINE place(m) == IF m < n THEN m ELSE m + 1
    <3>1. /\ place(i) \in 1..Len(turn_lock) /\ turn_lock'[i] = turn_lock[place(i)]
          /\ place(j) \in 1..Len(turn_lock) /\ turn_lock'[j] = turn_lock[place(j)]
      BY <1>3
    <3>2. place(i) = place(j)
      BY <1>2, <2>1, <3>1
    <3>. QED
      BY <1>3, <3>2
  <2>. QED
    BY <2>1
<1>6. ASSUME turn_lock # <<>>, Head(turn_lock) # c
      PROVE  turn_lock' # <<>> /\ Head(turn_lock') = Head(turn_lock)
  <2>1. n # 1 /\ turn_lock[1] = Head(turn_lock)
    BY <1>2, <1>6, <1>n
  <2>2. Len(turn_lock') >= 1 /\ turn_lock'[1] = turn_lock[1]
    BY <1>3, <1>n, <2>1
  <2>. QED
    BY <1>3, <2>1, <2>2
<1>7. LockInv'
  <2>1. ASSUME NEW d \in Calls
        PROVE  at'[d] \notin Gone <=> \E i \in 1..Len(turn_lock') : turn_lock'[i] = d
    <3>1. CASE d = c
      BY <1>1, <1>2, <1>4, <3>1 DEF Gone
    <3>2. CASE d # c
      BY <1>1, <1>2, <1>4, <3>2 DEF LockInv
    <3>. QED
      BY <3>1, <3>2
  <2>2. ASSUME NEW d \in Calls, at'[d] \notin Gone \cup {"waiting"}
        PROVE  turn_lock' # <<>> /\ Head(turn_lock') = d
    <3>1. d # c /\ at[d] \notin Gone \cup {"waiting"}
      BY <1>1, <1>2, <2>2 DEF Gone
    <3>. QED
      BY <1>6, <3>1 DEF LockInv, Holds
  <2>3. \A d \in cancelled' : at'[d] # "new"
    BY <1>1, <1>2 DEF LockInv, Returned
  <2>. QED
    BY <2>1, <2>2, <2>3 DEF LockInv, Holds
<1>8. DOMAIN turn_lock' = 1..Len(turn_lock')
  BY <1>3
<1>9. at' \in [Calls -> {"new", "waiting", "starting", "turn"} \cup Closing \cup Returned]
  BY <1>1, <1>2
<1>. QED
  BY <1>3, <1>5, <1>6, <1>7, <1>8, <1>9 DEF IsInjective

Past == {"starting", "turn"} \cup Closing

\* The lock's holder goes on.
LEMMA LockMove ==
    ASSUME TypeOK, LockInv, NEW c \in Calls, Holds(c), NEW place \in Past,
           at' = [at EXCEPT ![c] = place], UNCHANGED <<turn_lock, cancelled>>,
           at[c] \notin Gone
    PROVE  /\ LockInv'
           /\ at' \in [Calls -> {"new", "waiting", "starting", "turn"} \cup Closing \cup Returned]
<1>1. at \in [Calls -> {"new", "waiting", "starting", "turn"} \cup Closing \cup Returned]
      /\ cancelled \subseteq Calls
  BY DEF TypeOK
<1>2. place \notin Gone \cup {"waiting"}
  BY DEF Past, Gone, Returned, Closing
<1>. QED
  BY <1>1, <1>2 DEF LockInv, Holds, Past, Gone

------------------------------------------------------------------------------
(* Types.                                                                  *)

TurnType == [done: BOOLEAN, active: BOOLEAN, error: BOOLEAN,
             callback: Calls \cup {None}, used_tools: BOOLEAN, said: BOOLEAN]
ScriptSet == {<<>>} \cup UNION {Scripts(c) : c \in Calls}
AnswerType == [script: ScriptSet, heard: Nat, clean: BOOLEAN]

\* What does not concern the lock.
DataOK ==
    /\ worker \in Calls \cup {None}
    /\ started \in BOOLEAN
    /\ turn \in TurnType
    /\ running \subseteq Calls /\ unstarted \subseteq running /\ ending \subseteq running
    /\ inbox \in [Calls -> Seq(Calls \cup {Interruption})]
    /\ flight \in [Calls -> Seq(Frames)]
    /\ runner \in [Coroutines -> Calls \cup {None}]
    /\ discarded \in {"no", "closing", "yes"}
    /\ answer \in AnswerType

\* A turn is active only while its call waits for its end.
ActiveInv ==
    /\ turn.active => turn_lock # <<>> /\ at[Head(turn_lock)] = "turn"
    /\ turn.callback # None => turn.active /\ turn.callback = Head(turn_lock)

LEMMA TypeParts ==
    TypeOK <=> /\ turn_lock \in Seq(Calls) /\ IsInjective(turn_lock)
               /\ at \in [Calls -> {"new", "waiting", "starting", "turn"} \cup Closing \cup Returned]
               /\ cancelled \subseteq Calls
               /\ DataOK /\ ActiveInv
BY DEF TypeOK, DataOK, ActiveInv, TurnType, AnswerType, ScriptSet

LEMMA NoTurnTyped == NoTurn \in TurnType /\ NoAnswer \in AnswerType
<1>1. <<>> \in ScriptSet
  BY DEF ScriptSet
<1>2. NoAnswer \in AnswerType
  BY <1>1 DEF NoAnswer, AnswerType
<1>3. NoTurn \in TurnType
  BY DEF NoTurn, TurnType
<1>. QED
  BY <1>2, <1>3

\* The turn falls silent.
LEMMA Silenced ==
    ASSUME turn \in TurnType, NEW done \in BOOLEAN
    PROVE  LET t == [turn EXCEPT !.active = FALSE, !.callback = None, !.done = done]
               u == [turn EXCEPT !.active = FALSE, !.callback = None]
           IN  /\ t \in TurnType /\ ~t.active /\ t.callback = None
               /\ u \in TurnType /\ ~u.active /\ u.callback = None
BY DEF TurnType

\* An interruption is queued to the worker.
LEMMA InterruptTyped ==
    ASSUME DataOK, Interrupt
    PROVE  /\ turn' \in TurnType /\ ~turn'.active /\ turn'.callback = None
           /\ inbox' \in [Calls -> Seq(Calls \cup {Interruption})]
           /\ answer' = NoAnswer /\ answer' \in AnswerType
<1>1. turn' \in TurnType /\ ~turn'.active /\ turn'.callback = None
  BY Silenced DEF Interrupt, DataOK
<1>2. inbox' \in [Calls -> Seq(Calls \cup {Interruption})]
  <2>1. CASE worker \in running
    <3>1. worker \in Calls /\ Append(inbox[worker], Interruption) \in Seq(Calls \cup {Interruption})
      BY <2>1 DEF DataOK
    <3>. QED
      BY <2>1, <3>1 DEF DataOK, Interrupt
  <2>2. CASE worker \notin running
    BY <2>2 DEF DataOK, Interrupt
  <2>. QED
    BY <2>1, <2>2
<1>. QED
  BY <1>1, <1>2, NoTurnTyped DEF Interrupt

\* The beginning of a close leaves the data as they should be.
LEMMA CloseTyped ==
    ASSUME DataOK, NEW x \in Coroutines, CloseBegins(x),
           UNCHANGED <<worker, started, running, unstarted, flight>>,
           discarded' \in {"no", "closing", "yes"}
    PROVE  DataOK' /\ ~turn'.active /\ turn'.callback = None /\ answer' = NoAnswer
<1>1. runner' \in [Coroutines -> Calls \cup {None}] /\ ending' \subseteq running'
  BY DEF CloseBegins, DataOK
<1>2. Interrupt
  BY DEF CloseBegins
<1>. QED
  BY <1>1, <1>2, InterruptTyped DEF DataOK

\* A turn begins for the lock's holder.
LEMMA BeginTyped ==
    ASSUME DataOK, NEW c \in Calls, worker \in Calls, TurnBegins(c), UNCHANGED discarded
    PROVE  /\ DataOK' /\ turn'.active /\ turn'.callback = c
           /\ answer' = [NoAnswer EXCEPT !.clean = Undisturbed]
<1>1. turn' \in TurnType /\ turn'.active /\ turn'.callback = c
  BY DEF TurnBegins, NoTurn, TurnType
<1>2. inbox' \in [Calls -> Seq(Calls \cup {Interruption})]
  <2>1. Append(inbox[worker], c) \in Seq(Calls \cup {Interruption})
    BY DEF DataOK
  <2>. QED
    BY <2>1 DEF DataOK, TurnBegins
<1>3. answer' \in AnswerType
  <2>1. answer' = [NoAnswer EXCEPT !.clean = Undisturbed]
    BY DEF TurnBegins
  <2>2. Undisturbed \in BOOLEAN
    BY DEF Undisturbed
  <2>. QED
    BY <2>1, <2>2, NoTurnTyped DEF AnswerType
<1>4. runner' \in [Coroutines -> Calls \cup {None}]
  BY DEF TurnBegins, DataOK, Coroutines
<1>. QED
  BY <1>1, <1>2, <1>3, <1>4 DEF TurnBegins, DataOK, workerVars

\* A worker is launched.
LEMMA LaunchTyped ==
    ASSUME DataOK, NEW c \in Calls, Launch(c), UNCHANGED discarded
    PROVE  DataOK'
BY DEF DataOK, Launch, frameVars, turnVars

LEMMA ReturnTyped ==
    ASSUME DataOK, NEW c \in Calls, NEW how, Return(c, how)
    PROVE  runner' \in [Coroutines -> Calls \cup {None}]
BY DEF DataOK, Return, Coroutines

Kinds == {"speech", "tools", "end", "error"}

LEMMA ScriptTyped ==
    ASSUME NEW c \in Calls, NEW s \in Scripts(c)
    PROVE  s \in Seq(Kinds) /\ s \in ScriptSet
<1>1. s \in ScriptSet
  BY DEF ScriptSet
<1>2. s \in {<<>>, <<"error">>, <<"end">>, <<"speech", "end">>,
             <<"tools", "end", "speech", "end">>,
             <<"speech", "tools", "end", "speech", "end">>}
  BY DEF Scripts
<1>3. /\ <<>> \in Seq(Kinds) /\ <<"error">> \in Seq(Kinds) /\ <<"end">> \in Seq(Kinds)
      /\ <<"speech", "end">> \in Seq(Kinds) /\ <<"tools", "end", "speech", "end">> \in Seq(Kinds)
      /\ <<"speech", "tools", "end", "speech", "end">> \in Seq(Kinds)
  BY DEF Kinds
<1>. QED
  BY <1>1, <1>2, <1>3

LEMMA ObservedTyped ==
    ASSUME turn \in TurnType, NEW f \in Frames
    PROVE  /\ Observed(f) \in TurnType
           /\ Observed(f).active = turn.active /\ Observed(f).callback = turn.callback
<1>1. f.kind \in Kinds
  BY DEF Frames, Kinds
<1>2. CASE f.kind = "speech"
  BY <1>2 DEF Observed, TurnType
<1>3. CASE f.kind = "tools"
  BY <1>3 DEF Observed, TurnType
<1>4. CASE f.kind = "error"
  BY <1>4 DEF Observed, TurnType
<1>5. CASE f.kind = "end"
  BY <1>5 DEF Observed, TurnType
<1>. QED
  BY <1>1, <1>2, <1>3, <1>4, <1>5 DEF Kinds

\* What pipecat makes of what it is given.
LEMMA ProcessTyped ==
    ASSUME VoiceAssumption, DataOK, NEW w \in Calls, Process(w)
    PROVE  DataOK'
<1>1. /\ inbox[w] \in Seq(Calls \cup {Interruption}) /\ inbox[w] # <<>>
      /\ flight[w] \in Seq(Frames)
  BY DEF DataOK, Process
<1>2. inbox' \in [Calls -> Seq(Calls \cup {Interruption})]
  <2>1. Tail(inbox[w]) \in Seq(Calls \cup {Interruption})
    BY <1>1
  <2>. QED
    BY <2>1 DEF DataOK, Process
<1> DEFINE c == Head(inbox[w])
<1>3. c \in Calls \cup {Interruption}
  BY <1>1
<1>4. CASE c = Interruption
  <2>1. PICK frames \in Remains(w) : flight' = [flight EXCEPT ![w] = frames]
    BY <1>4 DEF Process
  <2>2. frames \in Seq(Frames)
    <3>1. CASE frames = <<>>
      BY <3>1
    <3>2. CASE frames # <<>>
      <4>1. flight[w] # <<>> /\ frames = <<[call |-> Last(flight[w]).call, kind |-> "end"]>>
        BY <2>1, <3>2 DEF Remains
      <4>2. Last(flight[w]) \in Frames
        BY <1>1, <4>1 DEF Last
      <4>3. [call |-> Last(flight[w]).call, kind |-> "end"] \in Frames
        BY <4>2 DEF Frames
      <4>. QED
        BY <4>1, <4>3
    <3>. QED
      BY <3>1, <3>2
  <2>3. flight' \in [Calls -> Seq(Frames)] /\ answer' = answer
    BY <1>4, <2>1, <2>2 DEF Process, DataOK
  <2>. QED
    BY <1>2, <2>3 DEF Process, DataOK, callVars, workerVars
<1>5. CASE c # Interruption
  <2>1. PICK s \in Scripts(c) :
            /\ answer' = IF answer.clean /\ turn.callback = c
                         THEN [answer EXCEPT !.script = s] ELSE answer
            /\ flight' = [flight EXCEPT ![w] =
                  @ \o [i \in DOMAIN s |-> [call |-> c, kind |-> s[i]]]]
    BY <1>5 DEF Process
  <2>2. c \in Calls /\ s \in Seq(Kinds) /\ s \in ScriptSet
    BY <1>3, <1>5, <2>1, ScriptTyped
  <2> DEFINE frames == [i \in DOMAIN s |-> [call |-> c, kind |-> s[i]]]
  <2>3. frames \in Seq(Frames)
    <3>1. DOMAIN s = 1..Len(s) /\ Len(s) \in Nat /\ \A i \in 1..Len(s) : s[i] \in Kinds
      BY <2>2
    <3>2. \A i \in 1..Len(s) : [call |-> c, kind |-> s[i]] \in Frames
      BY <2>2, <3>1 DEF Frames, Kinds
    <3>. QED
      BY <3>1, <3>2, IsASeq
  <2> HIDE DEF frames
  <2>4. flight[w] \o frames \in Seq(Frames)
    BY <1>1, <2>3, ConcatProperties
  <2>5. flight' \in [Calls -> Seq(Frames)]
    BY <2>1, <2>4 DEF DataOK, frames
  <2>6. answer' \in AnswerType
    BY <2>1, <2>2 DEF DataOK, AnswerType
  <2>. QED
    BY <1>2, <2>5, <2>6 DEF Process, DataOK, callVars, workerVars
<1>. QED
  BY <1>4, <1>5

\* What the observers see of it.
LEMMA ObserveTyped ==
    ASSUME DataOK, NEW w \in Calls, Observe(w)
    PROVE  DataOK' /\ turn'.active = turn.active /\ turn'.callback = turn.callback
<1>1. /\ flight[w] \in Seq(Frames) /\ flight[w] # <<>>
      /\ Head(flight[w]) \in Frames /\ Tail(flight[w]) \in Seq(Frames)
  BY DEF DataOK, Observe
<1>2. flight' \in [Calls -> Seq(Frames)]
  BY <1>1 DEF DataOK, Observe
<1>3. /\ turn' \in TurnType
      /\ turn'.active = turn.active /\ turn'.callback = turn.callback
  BY <1>1, ObservedTyped DEF DataOK, Observe
<1>4. answer' \in AnswerType
  <2>1. answer' \in {answer, [answer EXCEPT !.heard = @ + 1]}
    BY DEF Observe
  <2>2. answer \in AnswerType /\ answer.heard + 1 \in Nat
    BY DEF DataOK, AnswerType
  <2>3. [answer EXCEPT !.heard = @ + 1] \in AnswerType
    BY <2>2 DEF AnswerType
  <2>. QED
    BY <2>1, <2>2, <2>3
<1>. QED
  BY <1>2, <1>3, <1>4 DEF DataOK, Observe, callVars, workerVars

LEMMA StopsTyped ==
    ASSUME DataOK, NEW w \in Calls, RunnerStops(w)
    PROVE  DataOK' /\ turn'.active = turn.active /\ turn'.callback = turn.callback
<1>1. inbox' \in [Calls -> Seq(Calls \cup {Interruption})] /\ flight' \in [Calls -> Seq(Frames)]
  BY DEF DataOK, RunnerStops
<1>2. /\ turn' \in TurnType
      /\ turn'.active = turn.active /\ turn'.callback = turn.callback
  BY DEF DataOK, RunnerStops, TurnType
<1>3. running' \subseteq Calls /\ unstarted' \subseteq running' /\ ending' \subseteq running'
  BY DEF DataOK, RunnerStops
<1>. QED
  BY <1>1, <1>2, <1>3 DEF DataOK, RunnerStops, callVars

------------------------------------------------------------------------------
(* Every step keeps the types and the lock.                                *)

Steady ==
    /\ turn_lock \in Seq(Calls) /\ IsInjective(turn_lock)
    /\ at \in [Calls -> {"new", "waiting", "starting", "turn"} \cup Closing \cup Returned]
    /\ cancelled \subseteq Calls
    /\ LockInv

\* Who holds the lock outside of its turn has silenced it.
LEMMA Inactive ==
    ASSUME TypeOK, NEW c, Holds(c), at[c] # "turn"
    PROVE  ~turn.active /\ turn.callback = None
BY DEF TypeOK, Holds

LEMMA MoveSteady ==
    ASSUME TypeOK, LockInv, NEW c \in Calls, at[c] \notin Gone, Holds(c), NEW place \in Past,
           at' = [at EXCEPT ![c] = place], UNCHANGED <<turn_lock, cancelled>>
    PROVE  Steady' /\ at'[c] = place /\ Holds(c)'
<1>1. /\ LockInv'
      /\ at' \in [Calls -> {"new", "waiting", "starting", "turn"} \cup Closing \cup Returned]
  BY LockMove
<1>. QED
  BY <1>1 DEF Steady, TypeOK, Holds

LEMMA ReturnSteady ==
    ASSUME TypeOK, LockInv, NEW c \in Calls, at[c] \notin Gone, NEW how \in Returned,
           Return(c, how), cancelled' = cancelled
    PROVE  Steady'
<1>1. cancelled' \subseteq Calls
  BY DEF TypeOK
<1>. QED
  BY <1>1, LockReturn DEF Steady

LEMMA SilentType ==
    ASSUME Steady', DataOK', ~turn'.active, turn'.callback = None
    PROVE  TypeOK' /\ LockInv'
BY TypeParts DEF Steady, TypeOK, DataOK, TurnType, AnswerType, ScriptSet

LEMMA BegunType ==
    ASSUME Steady', DataOK', NEW c, at'[c] = "turn", Holds(c)', turn'.active, turn'.callback = c
    PROVE  TypeOK' /\ LockInv'
BY DEF Steady, TypeOK, DataOK, TurnType, AnswerType, ScriptSet, Holds

LEMMA SameType ==
    ASSUME TypeOK, LockInv, DataOK', UNCHANGED <<turn_lock, at, cancelled>>,
           turn'.active = turn.active, turn'.callback = turn.callback
    PROVE  TypeOK' /\ LockInv'
<1>1. LockInv'
  BY DEF LockInv, Holds
<1>. QED
  BY <1>1 DEF TypeOK, DataOK, TurnType, AnswerType, ScriptSet

LEMMA CallType ==
    ASSUME VoiceAssumption, TypeOK, LockInv, NEW c \in Calls, Call(c)
    PROVE  TypeOK' /\ LockInv'
<1>1. DataOK'
  BY TypeParts DEF Call, DataOK, workerVars, frameVars, turnVars
<1>2. at' \in [Calls -> {"new", "waiting", "starting", "turn"} \cup Closing \cup Returned]
      /\ cancelled' \subseteq Calls
  BY DEF Call, TypeOK
<1>3. turn' = turn /\ (turn.active => at'[Head(turn_lock')] = "turn" /\ turn_lock' # <<>>)
  <2>1. turn' = turn /\ at[c] = "new" /\ at' = [at EXCEPT ![c] = "waiting"]
    BY DEF Call, turnVars
  <2>2. ASSUME turn.active PROVE at'[Head(turn_lock')] = "turn" /\ turn_lock' # <<>>
    <3>1. turn_lock # <<>> /\ at[Head(turn_lock)] = "turn"
      BY <2>2 DEF TypeOK
    <3>2. Head(turn_lock') = Head(turn_lock) /\ turn_lock' # <<>> /\ Head(turn_lock) \in Calls
      BY <3>1, LockCall DEF TypeOK
    <3>. QED
      BY <2>1, <3>1, <3>2 DEF TypeOK
  <2>. QED
    BY <2>1, <2>2
<1>4. turn.callback # None => turn.active /\ turn.callback = Head(turn_lock')
  <2>1. ASSUME turn.callback # None PROVE turn.active /\ turn.callback = Head(turn_lock')
    <3>1. turn.active /\ turn.callback = Head(turn_lock) /\ turn_lock # <<>>
      BY <2>1 DEF TypeOK
    <3>. QED
      BY <3>1, LockCall
  <2>. QED
    BY <2>1
<1>5. ActiveInv'
  BY <1>3, <1>4 DEF ActiveInv
<1>. QED
  BY <1>1, <1>2, <1>5, LockCall DEF TypeOK, DataOK, ActiveInv, TurnType, AnswerType, ScriptSet

LEMMA CallStepsType ==
    ASSUME VoiceAssumption, TypeOK, LockInv, NEW c \in Calls, CallSteps(c)
    PROVE  TypeOK' /\ LockInv'
<1>0. /\ DataOK /\ c \in Coroutines
      /\ \A place \in Past : place \notin Gone
  BY TypeParts DEF Coroutines, Past, Gone, Returned, Closing
<1>1. ASSUME Holds(c), at[c] \notin Gone, at[c] # "turn", worker \in Calls, TurnBegins(c),
             UNCHANGED <<cancelled, discarded>>
      PROVE  TypeOK' /\ LockInv'
  <2>1. DataOK' /\ turn'.active /\ turn'.callback = c
    BY <1>0, <1>1, BeginTyped
  <2>2. Steady' /\ at'[c] = "turn" /\ Holds(c)'
    BY <1>1, MoveSteady DEF TurnBegins, Past
  <2>. QED
    BY <2>1, <2>2, BegunType
<1>2. ASSUME Holds(c), at[c] \notin Gone, at[c] # "turn", Launch(c),
             UNCHANGED <<cancelled, discarded>>
      PROVE  TypeOK' /\ LockInv'
  <2>1. DataOK' /\ turn' = turn
    BY <1>0, <1>2, LaunchTyped DEF Launch, turnVars
  <2>2. Steady'
    BY <1>2, MoveSteady DEF Launch, Past
  <2>. QED
    BY <2>1, <2>2, <1>2, Inactive, SilentType
<1>3. ASSUME Holds(c), at[c] \notin Gone, CloseBegins(c), NEW place \in Past,
             at' = [at EXCEPT ![c] = place],
             UNCHANGED <<turn_lock, cancelled, discarded, worker, started, running, unstarted,
                         flight>>
      PROVE  TypeOK' /\ LockInv'
  <2>1. discarded' \in {"no", "closing", "yes"}
    BY <1>0, <1>3 DEF DataOK
  <2>2. DataOK' /\ ~turn'.active /\ turn'.callback = None
    BY <1>0, <1>3, <2>1, CloseTyped
  <2>3. Steady'
    BY <1>3, MoveSteady
  <2>. QED
    BY <2>2, <2>3, SilentType
<1>4. ASSUME NEW how \in Returned, Return(c, how), at[c] \notin Gone, cancelled' = cancelled,
             turn' \in TurnType, ~turn'.active, turn'.callback = None,
             UNCHANGED <<running, unstarted, ending, flight>>,
             inbox' \in [Calls -> Seq(Calls \cup {Interruption})],
             answer' \in AnswerType, worker' \in Calls \cup {None}, started' \in BOOLEAN,
             discarded' = discarded
      PROVE  TypeOK' /\ LockInv'
  <2>1. Steady'
    BY <1>4, ReturnSteady
  <2>2. DataOK'
    BY <1>0, <1>4, ReturnTyped DEF DataOK
  <2>. QED
    BY <1>4, <2>1, <2>2, SilentType
<1>5. "expired" \in Returned /\ "failed" \in Returned /\ "answered" \in Returned
      /\ "cancelled" \in Returned
  BY DEF Returned
<1>6. ASSUME at[c] \in Past PROVE Holds(c) /\ at[c] \notin Gone
  BY <1>6 DEF LockInv, Past, Gone, Returned, Closing
<1>7. CASE EnsureStarted(c)
  <2>1. at[c] = "waiting" /\ Holds(c) /\ at[c] \notin Gone /\ UNCHANGED <<cancelled, discarded>>
    BY <1>7 DEF EnsureStarted, Enabled, Gone, Returned
  <2>2. CASE worker \in running /\ TurnBegins(c)
    BY <1>0, <1>1, <2>1, <2>2 DEF DataOK
  <2>3. CASE worker = None /\ Launch(c)
    BY <1>2, <2>1, <2>3
  <2>4. CASE /\ CloseBegins(c)
             /\ at' = [at EXCEPT ![c] = "restart"]
             /\ UNCHANGED <<turn_lock, worker, started, running, unstarted, flight>>
    BY <1>3, <2>1, <2>4 DEF Past, Closing
  <2>. QED
    BY <1>7, <2>2, <2>3, <2>4 DEF EnsureStarted
<1>8. CASE Relaunch(c)
  BY <1>2, <1>6, <1>8 DEF Relaunch, Enabled, Past, Closing
<1>9. CASE Started(c)
  <2>1. at[c] = "starting" /\ UNCHANGED <<cancelled, discarded>>
    BY <1>9 DEF Started, Enabled
  <2>2. Holds(c) /\ at[c] \notin Gone /\ ~turn.active /\ turn.callback = None
    BY <1>6, <2>1, Inactive DEF Past
  <2>3. CASE worker = None
    <3>1. Return(c, "failed") /\ UNCHANGED <<workerVars, frameVars, turnVars>>
      BY <1>9, <2>3 DEF Started
    <3>. QED
      BY <1>0, <1>4, <1>5, <2>1, <2>2, <3>1 DEF DataOK, workerVars, frameVars, turnVars
  <2>4. CASE worker # None
    <3>1. worker \in Calls /\ TurnBegins(c)
      BY <1>0, <1>9, <2>4 DEF Started, DataOK
    <3>. QED
      BY <1>1, <2>1, <2>2, <3>1
  <2>. QED
    BY <2>3, <2>4
<1>10. CASE StartTimesOut(c)
  <2>1. /\ at[c] = "starting"
        /\ UNCHANGED <<cancelled, discarded, worker, started, running, unstarted, flight>>
    BY <1>10 DEF StartTimesOut, Enabled
  <2>2. Holds(c) /\ at[c] \notin Gone
    BY <1>6, <2>1 DEF Past
  <2>3. CASE worker = None
    <3>1. Return(c, "expired") /\ Interrupt /\ ending' = ending
      BY <1>10, <2>3 DEF StartTimesOut
    <3>. QED
      BY <1>0, <1>4, <1>5, <2>1, <2>2, <3>1, InterruptTyped DEF DataOK
  <2>4. CASE worker # None
    <3>1. CloseBegins(c) /\ at' = [at EXCEPT ![c] = "giveup"] /\ turn_lock' = turn_lock
      BY <1>10, <2>4 DEF StartTimesOut
    <3>. QED
      BY <1>3, <2>1, <2>2, <3>1 DEF Past, Closing
  <2>. QED
    BY <2>3, <2>4
<1>11. CASE TurnEnds(c)
  <2>1. /\ at[c] = "turn" /\ cancelled' = cancelled /\ discarded' = discarded
        /\ turn' = [turn EXCEPT !.active = FALSE, !.callback = None]
        /\ Return(c, IF turn.error \/ ~turn.said THEN "failed" ELSE "answered")
        /\ answer' = NoAnswer /\ UNCHANGED <<workerVars, frameVars>>
    BY <1>11 DEF TurnEnds, Enabled
  <2>2. (IF turn.error \/ ~turn.said THEN "failed" ELSE "answered") \in Returned
    BY <1>5
  <2>3. turn' \in TurnType /\ ~turn'.active /\ turn'.callback = None
    BY <1>0, <2>1 DEF DataOK, TurnType
  <2>. QED
    BY <1>0, <1>4, <1>6, <2>1, <2>2, <2>3, NoTurnTyped DEF DataOK, workerVars, frameVars, Past
<1>12. CASE TurnTimesOut(c)
  BY <1>3, <1>6, <1>12 DEF TurnTimesOut, Enabled, Past, Closing
<1>13. CASE Expires(c)
  <2>1. /\ at[c] \in Past /\ cancelled' = cancelled /\ discarded' = discarded
        /\ turn' = [turn EXCEPT !.active = FALSE, !.callback = None]
        /\ Return(c, "expired") /\ worker' = None /\ started' = FALSE
        /\ UNCHANGED <<running, unstarted, ending, frameVars, answer>>
    BY <1>13 DEF Expires, Enabled, CloseEnds, Past, Closing
  <2>2. turn' \in TurnType /\ ~turn'.active /\ turn'.callback = None
    BY <1>0, <2>1 DEF DataOK, TurnType
  <2>. QED
    BY <1>0, <1>4, <1>5, <1>6, <2>1, <2>2 DEF DataOK, frameVars
<1>14. CASE Cancelled(c)
  <2>1. /\ c \in cancelled /\ at[c] \notin Returned /\ cancelled' = cancelled
        /\ turn' = IF at[c] \in {"turn", "timeout"}
                   THEN [turn EXCEPT !.active = FALSE, !.callback = None] ELSE turn
        /\ answer' = IF at[c] = "turn" THEN NoAnswer ELSE answer
        /\ Return(c, "cancelled")
        /\ UNCHANGED <<discarded, worker, started, running, unstarted, ending, frameVars>>
    BY <1>14 DEF Cancelled
  <2>2. at[c] \notin Gone
    BY <2>1 DEF LockInv, Gone
  <2>3. answer' \in AnswerType
    BY <1>0, <2>1, NoTurnTyped DEF DataOK
  <2>4. CASE Holds(c)
    <3>1. turn' \in TurnType /\ ~turn'.active /\ turn'.callback = None
      <4>1. CASE at[c] \in {"turn", "timeout"}
        BY <1>0, <2>1, <4>1 DEF DataOK, TurnType
      <4>2. CASE at[c] \notin {"turn", "timeout"}
        BY <1>0, <2>1, <2>4, <4>2, Inactive DEF DataOK
      <4>. QED
        BY <4>1, <4>2
    <3>. QED
      BY <1>0, <1>4, <1>5, <2>1, <2>2, <2>3, <3>1 DEF DataOK, frameVars
  <2>5. CASE ~Holds(c)
    <3>1. at[c] = "waiting"
      BY <2>2, <2>5 DEF LockInv, Gone
    <3>2. turn' = turn
      BY <2>1, <3>1
    <3>3. Steady'
      BY <1>5, <2>1, <2>2, ReturnSteady
    <3>4. DataOK'
      BY <1>0, <2>1, <2>3, <3>2, ReturnTyped DEF DataOK, frameVars
    <3>5. turn_lock # <<>> =>
             /\ turn_lock' # <<>> /\ Head(turn_lock') = Head(turn_lock)
             /\ at'[Head(turn_lock)] = at[Head(turn_lock)]
      <4>1. turn_lock # <<>> => Head(turn_lock) # c /\ Head(turn_lock) \in Calls
        BY <2>5 DEF Holds, TypeOK
      <4>2. at' = [at EXCEPT ![c] = "cancelled"]
        BY <2>1 DEF Return
      <4>. QED
        BY <4>1, <4>2, <1>5, <2>1, <2>2, LockReturn DEF TypeOK
    <3>6. ActiveInv'
      <4>1. ActiveInv
        BY TypeParts
      <4>. QED
        BY <4>1, <3>2, <3>5 DEF ActiveInv
    <3>. QED
      BY <3>3, <3>4, <3>6 DEF Steady, TypeOK, DataOK, ActiveInv, TurnType, AnswerType, ScriptSet
  <2>. QED
    BY <2>4, <2>5
<1>. QED
  BY <1>7, <1>8, <1>9, <1>10, <1>11, <1>12, <1>13, <1>14 DEF CallSteps

LEMMA TypeStep ==
    ASSUME VoiceAssumption, TypeOK, LockInv, [Next]_vars
    PROVE  TypeOK' /\ LockInv'
<1>0. DataOK
  BY TypeParts
<1>1. ASSUME NEW c \in Calls, Call(c) \/ CallSteps(c) PROVE TypeOK' /\ LockInv'
  BY <1>1, CallType, CallStepsType
<1>2. ASSUME NEW c \in Calls, InterruptResponse(c) PROVE TypeOK' /\ LockInv'
  <2>1. /\ cancelled' = cancelled \cup {c} /\ at[c] # "new"
        /\ UNCHANGED <<turn_lock, at, discarded, workerVars, flight, runner>>
    BY <1>2 DEF InterruptResponse
  <2>2. Steady'
    BY <2>1 DEF Steady, LockInv, Holds, TypeOK
  <2>3. CASE discarded = "no"
    <3>1. Interrupt
      BY <1>2, <2>3 DEF InterruptResponse
    <3>. QED
      BY <1>0, <2>1, <2>2, <3>1, InterruptTyped, SilentType DEF DataOK, workerVars
  <2>4. CASE discarded # "no"
    <3>1. UNCHANGED <<turn, answer, inbox>>
      BY <1>2, <2>4 DEF InterruptResponse, turnVars
    <3>2. DataOK'
      BY <1>0, <2>1, <3>1 DEF DataOK, workerVars
    <3>. QED
      BY <2>1, <2>2, <3>1, <3>2
         DEF Steady, TypeOK, DataOK, TurnType, AnswerType, ScriptSet
  <2>. QED
    BY <2>3, <2>4
<1>3. CASE Discard
  <2>1. Steady'
    BY <1>3 DEF Discard, Steady, LockInv, Holds, TypeOK
  <2>2. discarded' \in {"no", "closing", "yes"} /\ Gateway \in Coroutines
    BY <1>3 DEF Discard, Coroutines
  <2>3. DataOK' /\ ~turn'.active /\ turn'.callback = None
    BY <1>0, <1>3, <2>2, CloseTyped DEF Discard
  <2>. QED
    BY <2>1, <2>3, SilentType
<1>4. CASE DiscardEnds
  <2>1. DataOK'
    BY <1>0, <1>4 DEF DiscardEnds, CloseEnds, DataOK, frameVars, turnVars
  <2>. QED
    BY <1>4, <2>1, SameType DEF DiscardEnds, turnVars
<1>5. ASSUME NEW w \in Calls, PipelineStarts(w) PROVE TypeOK' /\ LockInv'
  <2>1. DataOK'
    BY <1>0, <1>5 DEF PipelineStarts, DataOK, frameVars, turnVars, callVars
  <2>. QED
    BY <1>5, <2>1, SameType DEF PipelineStarts, turnVars, callVars
<1>6. ASSUME NEW w \in Calls, Process(w) PROVE TypeOK' /\ LockInv'
  BY <1>0, <1>6, ProcessTyped, SameType DEF Process, callVars
<1>7. ASSUME NEW w \in Calls, Observe(w) PROVE TypeOK' /\ LockInv'
  BY <1>0, <1>7, ObserveTyped, SameType DEF Observe, callVars
<1>8. ASSUME NEW w \in Calls, RunnerStops(w) PROVE TypeOK' /\ LockInv'
  BY <1>0, <1>8, StopsTyped, SameType DEF RunnerStops, callVars
<1>9. CASE UNCHANGED vars
  BY <1>0, <1>9, SameType DEF vars, callVars, workerVars, frameVars, turnVars, DataOK
<1>. QED
  BY <1>1, <1>2, <1>3, <1>4, <1>5, <1>6, <1>7, <1>8, <1>9 DEF Next

------------------------------------------------------------------------------
(* The answer.                                                             *)

\* Every script ends with an error, or with an end that no pass of tool calls
\* precedes.
LEMMA ScriptShape ==
    ASSUME NEW c \in Calls, NEW s \in Scripts(c), NEW k \in 1..Len(s)
    PROVE  k = Len(s) <=> s[k] = "error" \/ (s[k] = "end" /\ ~CallsTools(s, k - 1))
<1>0. CASE s = <<>>
  BY <1>0
<1>e. CASE s = <<"error">>
  BY <1>e
<1>1. CASE s = <<"end">>
  <2>1. k = 1 /\ Len(s) = 1 /\ ~CallsTools(s, 0)
    BY <1>1 DEF CallsTools
  <2>. QED
    BY <1>1, <2>1
<1>2. CASE s = <<"speech", "end">>
  BY <1>2 DEF CallsTools
<1>3. CASE s = <<"tools", "end", "speech", "end">>
  <2>1. k \in {1, 2, 3, 4} /\ Len(s) = 4
    BY <1>3
  <2>2. CallsTools(s, 1) /\ ~CallsTools(s, 3)
    BY <1>3 DEF CallsTools
  <2>. QED
    BY <1>3, <2>1, <2>2
<1>4. CASE s = <<"speech", "tools", "end", "speech", "end">>
  <2>1. k \in {1, 2, 3, 4, 5} /\ Len(s) = 5
    BY <1>4
  <2>2. CallsTools(s, 2) /\ ~CallsTools(s, 4)
    BY <1>4 DEF CallsTools
  <2>. QED
    BY <1>4, <2>1, <2>2
<1>. QED
  BY <1>0, <1>e, <1>1, <1>2, <1>3, <1>4 DEF Scripts

\* What one more frame changes.
LEMMA OneMore ==
    ASSUME NEW s \in Seq(Kinds), NEW k \in Nat, k < Len(s)
    PROVE  /\ s[k + 1] = "speech" => Spoken(s, k + 1) = Spoken(s, k) \cup {k + 1}
           /\ s[k + 1] # "speech" => Spoken(s, k + 1) = Spoken(s, k)
           /\ CallsTools(s, k + 1) <=> \/ s[k + 1] = "tools"
                                       \/ s[k + 1] # "end" /\ CallsTools(s, k)
           /\ (\E i \in 1..(k + 1) : s[i] = "error")
              <=> s[k + 1] = "error" \/ \E i \in 1..k : s[i] = "error"
           /\ IsFiniteSet(Spoken(s, k)) /\ k + 1 \notin Spoken(s, k)
<1>1. 1..(k + 1) = (1..k) \cup {k + 1}
  OBVIOUS
<1>2. IsFiniteSet(Spoken(s, k))
  <2>1. IsFiniteSet(1..k) /\ Spoken(s, k) \subseteq 1..k
    BY FS_Interval DEF Spoken
  <2>. QED
    BY <2>1, FS_Subset
<1>3. ASSUME s[k + 1] = "tools" PROVE CallsTools(s, k + 1)
  BY <1>3 DEF CallsTools
<1>4. ASSUME s[k + 1] # "end", CallsTools(s, k) PROVE CallsTools(s, k + 1)
  <2>1. PICK i \in 1..k : s[i] = "tools" /\ \A j \in i..k : s[j] # "end"
    BY <1>4 DEF CallsTools
  <2>2. \A j \in i..(k + 1) : s[j] # "end"
    BY <1>4, <2>1
  <2>. QED
    BY <2>1, <2>2 DEF CallsTools
<1>5. ASSUME CallsTools(s, k + 1), s[k + 1] # "tools"
      PROVE  s[k + 1] # "end" /\ CallsTools(s, k)
  <2>1. PICK i \in 1..(k + 1) : s[i] = "tools" /\ \A j \in i..(k + 1) : s[j] # "end"
    BY <1>5 DEF CallsTools
  <2>2. i \in 1..k /\ \A j \in i..k : s[j] # "end"
    BY <1>5, <2>1
  <2>. QED
    BY <2>1, <2>2 DEF CallsTools
<1>. QED
  BY <1>1, <1>2, <1>3, <1>4, <1>5 DEF Spoken

Frame(c, kind) == [call |-> c, kind |-> kind]
OnTheirWay(c, s, k) == [i \in 1..(Len(s) - k) |-> Frame(c, s[k + i])]

LEMMA PlayedFlight ==
    ASSUME NEW c, NEW w, NEW k
    PROVE  Played(c, w, k) <=>
               /\ answer.script \in Scripts(c) /\ k \in 0..Len(answer.script)
               /\ inbox[w] = <<>>
               /\ flight[w] = OnTheirWay(c, answer.script, k)
               /\ answer.heard = Cardinality(Spoken(answer.script, k))
               /\ turn.said <=> Spoken(answer.script, k) # {}
               /\ turn.used_tools <=> CallsTools(answer.script, k)
               /\ turn.error <=> \E i \in 1..k : answer.script[i] = "error"
               /\ turn.done <=> k = Len(answer.script) /\ answer.script # <<>>
BY DEF Played, OnTheirWay, Frame

LEMMA NextFrame ==
    ASSUME NEW c \in Calls, NEW s \in Seq(Kinds), NEW k \in Nat, k < Len(s)
    PROVE  /\ OnTheirWay(c, s, k) # <<>>
           /\ Head(OnTheirWay(c, s, k)) = Frame(c, s[k + 1])
           /\ Tail(OnTheirWay(c, s, k)) = OnTheirWay(c, s, k + 1)
<1>1. PICK f : f = OnTheirWay(c, s, k)
  OBVIOUS
<1>2. PICK g : g = OnTheirWay(c, s, k + 1)
  OBVIOUS
<1>3. \A i \in 1..Len(s) : s[i] \in Kinds
  OBVIOUS
<1>4. /\ f \in Seq(Frames) /\ Len(f) = Len(s) - k
      /\ \A i \in 1..(Len(s) - k) : f[i] = Frame(c, s[k + i])
  <2>1. \A i \in 1..(Len(s) - k) : Frame(c, s[k + i]) \in Frames
    BY <1>3 DEF Frame, Frames, Kinds
  <2>. QED
    BY <1>1, <2>1, IsASeq DEF OnTheirWay
<1>5. /\ g \in Seq(Frames) /\ Len(g) = Len(s) - (k + 1)
      /\ \A i \in 1..(Len(s) - (k + 1)) : g[i] = Frame(c, s[(k + 1) + i])
  <2>1. \A i \in 1..(Len(s) - (k + 1)) : Frame(c, s[(k + 1) + i]) \in Frames
    BY <1>3 DEF Frame, Frames, Kinds
  <2>. QED
    BY <1>2, <2>1, IsASeq DEF OnTheirWay
<1>6. f # <<>> /\ Head(f) = Frame(c, s[k + 1])
  BY <1>4
<1>7. Tail(f) = g
  <2>0. Tail(f) \in Seq(Frames) /\ Len(Tail(f)) = Len(f) - 1
        /\ \A i \in 1..Len(Tail(f)) : Tail(f)[i] = f[i + 1]
    BY ONLY <1>4, <1>6, HeadTailProperties
  <2>1. PICK t \in Seq(Frames) : t = Tail(f)
    BY <2>0
  <2>2. Len(t) = Len(f) - 1 /\ \A i \in 1..Len(t) : t[i] = f[i + 1]
    BY <2>0, <2>1
  <2>3. Len(t) = Len(g)
    BY <1>4, <1>5, <2>2
  <2>4. ASSUME NEW i \in 1..Len(t) PROVE t[i] = g[i]
    <3>1. i + 1 \in 1..(Len(s) - k) /\ i \in 1..(Len(s) - (k + 1)) /\ k + (i + 1) = (k + 1) + i
      BY <1>4, <1>5, <2>3
    <3>. QED
      BY <1>4, <1>5, <2>2, <3>1
  <2>. QED
    BY <1>5, <2>1, <2>3, <2>4, SeqEqual
<1>. QED
  BY <1>1, <1>2, <1>6, <1>7

\* A clean answer is that of the lock's holder, in its turn.
LEMMA CleanHolder ==
    ASSUME TypeOK, LockInv, AnswerInv, answer.clean
    PROVE  /\ turn_lock # <<>> /\ Head(turn_lock) \in Calls /\ Holds(Head(turn_lock))
           /\ at[Head(turn_lock)] = "turn"
           /\ \A c \in Calls : at[c] = "turn" => c = Head(turn_lock)
<1>1. turn_lock # <<>> /\ at[Head(turn_lock)] = "turn"
  BY DEF AnswerInv
<1>2. \A c \in Calls : at[c] = "turn" => Holds(c)
  BY DEF LockInv, Gone, Returned
<1>. QED
  BY <1>1, <1>2 DEF Holds, TypeOK

\* A step that leaves the answer's turn and its worker alone.
LEMMA AnswerKept ==
    ASSUME AnswerInv,
           answer.clean =>
               /\ turn_lock' # <<>> /\ Head(turn_lock') = Head(turn_lock)
               /\ at'[Head(turn_lock)] = at[Head(turn_lock)]
               /\ runner'[Head(turn_lock)] = runner[Head(turn_lock)],
           UNCHANGED <<turn, answer, inbox, flight, running, ending>>
    PROVE  AnswerInv'
<1>1. SUFFICES ASSUME answer.clean PROVE AnswerInv'
  BY DEF AnswerInv
<1>2. PICK c, w : c = Head(turn_lock) /\ w = runner[c]
  OBVIOUS
<1>3. /\ at[c] = "turn" /\ turn.active /\ turn.callback = c
      /\ running \subseteq {w} /\ w \notin ending
      /\ IF w \in running
         THEN Queued(c, w) \/ \E k \in 0..Len(answer.script) : Played(c, w, k)
         ELSE turn.done /\ turn.error
  BY <1>1, <1>2 DEF AnswerInv
<1>4. /\ turn_lock' # <<>> /\ Head(turn_lock') = c
      /\ at'[c] = "turn" /\ runner'[c] = w
  BY <1>1, <1>2, <1>3
<1>5. Queued(c, w)' <=> Queued(c, w)
  BY DEF Queued
<1>6. \A k : Played(c, w, k)' <=> Played(c, w, k)
  BY DEF Played
<1>. QED
  BY <1>3, <1>4, <1>5, <1>6 DEF AnswerInv

\* A turn that begins behind nothing.
LEMMA AnswerBegins ==
    ASSUME VoiceAssumption, TypeOK, NEW c \in Calls, Holds(c), worker \in Calls, TurnBegins(c)
    PROVE  AnswerInv'
<1>1. SUFFICES ASSUME Undisturbed PROVE AnswerInv'
  BY DEF TurnBegins, AnswerInv, NoAnswer
<1>2. turn_lock' = turn_lock /\ turn_lock # <<>> /\ Head(turn_lock) = c
  BY DEF TurnBegins, Holds
<1>3. /\ at'[c] = "turn" /\ runner'[c] = worker
      /\ turn' = [NoTurn EXCEPT !.active = TRUE, !.callback = c]
      /\ answer' = [NoAnswer EXCEPT !.clean = Undisturbed]
      /\ running' = running /\ ending' = ending /\ flight' = flight
  BY DEF TurnBegins, TypeOK, workerVars, Coroutines
<1>4. turn'.active /\ turn'.callback = c
      /\ ~turn'.done /\ ~turn'.error /\ ~turn'.used_tools /\ ~turn'.said
  BY <1>3 DEF NoTurn
<1>5. answer'.script = <<>> /\ answer'.heard = 0
  BY <1>3 DEF NoAnswer
<1>6. worker \in running /\ running = {worker} /\ worker \notin ending /\ flight[worker] = <<>>
  BY <1>1 DEF Undisturbed
<1>7. inbox'[worker] = <<c>>
  <2>1. inbox' = [inbox EXCEPT ![worker] = Append(@, c)] /\ inbox[worker] = <<>>
    BY <1>1, <1>6 DEF TurnBegins, Undisturbed
  <2>2. Append(<<>>, c) = <<c>>
    OBVIOUS
  <2>. QED
    BY <2>1, <2>2 DEF TypeOK
<1>. QED
  BY <1>2, <1>3, <1>4, <1>5, <1>6, <1>7 DEF AnswerInv, Queued

LEMMA Unclean ==
    ASSUME ~answer'.clean
    PROVE  AnswerInv'
BY DEF AnswerInv

\* Before its turn and after it, the lock's holder has no clean answer.
LEMMA NotItsTurn ==
    ASSUME TypeOK, LockInv, AnswerInv, NEW c \in Calls, at[c] # "turn",
           Holds(c) \/ at[c] \notin Gone \cup {"waiting"}
    PROVE  ~answer.clean
<1>1. Holds(c)
  BY DEF LockInv
<1>. QED
  BY <1>1, CleanHolder DEF Holds

LEMMA AnswerCallSteps ==
    ASSUME VoiceAssumption, TypeOK, LockInv, AnswerInv, NEW c \in Calls, CallSteps(c)
    PROVE  AnswerInv'
<1>0. ~NoAnswer.clean
  BY DEF NoAnswer
<1>1. CASE EnsureStarted(c)
  <2>1. Holds(c) /\ at[c] = "waiting"
    BY <1>1 DEF EnsureStarted, Enabled
  <2>2. CASE worker \in running /\ TurnBegins(c)
    BY <2>1, <2>2, AnswerBegins DEF TypeOK
  <2>3. CASE Launch(c)
    <3>1. answer' = answer
      BY <2>3 DEF Launch, turnVars
    <3>. QED
      BY <2>1, <3>1, NotItsTurn, Unclean
  <2>4. CASE CloseBegins(c)
    BY <1>0, <2>4, Unclean DEF CloseBegins, Interrupt
  <2>. QED
    BY <1>1, <2>2, <2>3, <2>4 DEF EnsureStarted
<1>2. CASE Relaunch(c)
  <2>1. at[c] = "restart" /\ answer' = answer
    BY <1>2 DEF Relaunch, Enabled, Launch, turnVars
  <2>2. ~answer.clean
    BY <2>1, NotItsTurn DEF Gone, Returned
  <2>. QED
    BY <2>1, <2>2, Unclean
<1>3. CASE Started(c)
  <2>1. at[c] = "starting"
    BY <1>3 DEF Started, Enabled
  <2>2. Holds(c) /\ ~answer.clean
    BY <2>1, NotItsTurn DEF Gone, Returned, LockInv
  <2>3. CASE worker = None
    <3>1. answer' = answer
      BY <1>3, <2>3 DEF Started, turnVars
    <3>. QED
      BY <2>2, <3>1, Unclean
  <2>4. CASE worker # None
    <3>1. worker \in Calls /\ TurnBegins(c)
      BY <1>3, <2>4 DEF Started, TypeOK
    <3>. QED
      BY <2>2, <3>1, AnswerBegins
  <2>. QED
    BY <2>3, <2>4
<1>4. CASE StartTimesOut(c)
  BY <1>0, <1>4, Unclean DEF StartTimesOut, CloseBegins, Interrupt
<1>5. CASE TurnEnds(c)
  BY <1>0, <1>5, Unclean DEF TurnEnds
<1>6. CASE TurnTimesOut(c)
  BY <1>0, <1>6, Unclean DEF TurnTimesOut, CloseBegins, Interrupt
<1>7. CASE Expires(c)
  <2>1. at[c] \in {"giveup", "timeout"} /\ answer' = answer
    BY <1>7 DEF Expires, Enabled
  <2>2. ~answer.clean
    BY <2>1, NotItsTurn DEF Gone, Returned
  <2>. QED
    BY <2>1, <2>2, Unclean
<1>8. CASE Cancelled(c)
  <2>1. /\ at[c] \notin Returned /\ c \in cancelled
        /\ turn' = IF at[c] \in {"turn", "timeout"}
                   THEN [turn EXCEPT !.active = FALSE, !.callback = None] ELSE turn
        /\ answer' = IF at[c] = "turn" THEN NoAnswer ELSE answer
        /\ Return(c, "cancelled") /\ cancelled' = cancelled
        /\ UNCHANGED <<running, ending, inbox, flight>>
    BY <1>8 DEF Cancelled, frameVars
  <2>2. at[c] \notin Gone
    BY <2>1 DEF LockInv, Gone
  <2>3. CASE at[c] = "turn"
    BY <1>0, <2>1, <2>3, Unclean
  <2>4. CASE at[c] # "turn" /\ ~answer.clean
    BY <2>1, <2>4, Unclean
  <2>5. CASE at[c] # "turn" /\ answer.clean
    <3>1. at[c] = "waiting" /\ ~Holds(c)
      BY <2>2, <2>5, NotItsTurn
    <3>2. turn_lock # <<>> /\ Head(turn_lock) \in Calls /\ Head(turn_lock) # c
      BY <2>5, <3>1, CleanHolder DEF Holds
    <3>3. turn_lock' # <<>> /\ Head(turn_lock') = Head(turn_lock)
      BY <2>1, <2>2, <3>2, LockReturn DEF Returned
    <3>4. /\ at' = [at EXCEPT ![c] = "cancelled"]
          /\ runner' = [runner EXCEPT ![c] = None]
      BY <2>1 DEF Return
    <3>5. at'[Head(turn_lock)] = at[Head(turn_lock)] /\ runner'[Head(turn_lock)] = runner[Head(turn_lock)]
      BY <3>2, <3>4 DEF TypeOK, Coroutines
    <3>6. turn' = turn /\ answer' = answer
      BY <2>1, <3>1
    <3>. QED
      BY <2>1, <3>3, <3>5, <3>6, AnswerKept
  <2>. QED
    BY <2>3, <2>4, <2>5
<1>. QED
  BY <1>1, <1>2, <1>3, <1>4, <1>5, <1>6, <1>7, <1>8 DEF CallSteps

\* The pipeline works the request off: an answer is on its way.
LEMMA AnswerProcess ==
    ASSUME VoiceAssumption, TypeOK, LockInv, AnswerInv, NEW w \in Calls, Process(w)
    PROVE  AnswerInv'
<1>1. SUFFICES ASSUME answer'.clean PROVE AnswerInv'
  BY Unclean
<1>2. /\ w \in running /\ inbox[w] # <<>>
      /\ inbox' = [inbox EXCEPT ![w] = Tail(@)]
      /\ UNCHANGED <<turn_lock, at, turn, runner, running, ending>>
  BY DEF Process, callVars, workerVars
<1>3. PICK c : c = Head(inbox[w])
  OBVIOUS
<1>4. answer.clean
  <2>1. \/ answer' = answer
        \/ \E s : answer' = [answer EXCEPT !.script = s]
    BY DEF Process
  <2>. QED
    BY <1>1, <2>1 DEF TypeOK
<1>h. PICK h \in Calls : h = Head(turn_lock) /\ at[h] = "turn" /\ turn_lock # <<>>
  BY <1>4, CleanHolder
<1>5. /\ runner[h] = w /\ w \notin ending /\ running \subseteq {w}
      /\ turn.active /\ turn.callback = h
      /\ Queued(h, w) \/ \E k \in 0..Len(answer.script) : Played(h, w, k)
  BY <1>2, <1>4, <1>h DEF AnswerInv
<1>6. Queued(h, w)
  BY <1>2, <1>5 DEF Played
<1>7. c = h /\ h # Interruption
  BY <1>3, <1>6 DEF Queued, Interruption, VoiceAssumption
<1>8. PICK s \in Scripts(h) :
         /\ answer' = [answer EXCEPT !.script = s]
         /\ flight' = [flight EXCEPT ![w] =
                 @ \o [i \in DOMAIN s |-> [call |-> h, kind |-> s[i]]]]
  <2>1. \E s \in Scripts(h) :
           /\ answer' = IF answer.clean /\ turn.callback = h
                        THEN [answer EXCEPT !.script = s] ELSE answer
           /\ flight' = [flight EXCEPT ![w] =
                   @ \o [i \in DOMAIN s |-> [call |-> h, kind |-> s[i]]]]
    <3> DEFINE Works(d) == \E s \in Scripts(d) :
                              /\ answer' = IF answer.clean /\ turn.callback = d
                                           THEN [answer EXCEPT !.script = s] ELSE answer
                              /\ flight' = [flight EXCEPT ![w] =
                                      @ \o [i \in DOMAIN s |-> [call |-> d, kind |-> s[i]]]]
    <3>1. Head(inbox[w]) # Interruption => Works(Head(inbox[w]))
      BY Zenon DEF Process
    <3>2. Head(inbox[w]) = h /\ Head(inbox[w]) # Interruption
      BY <1>3, <1>7
    <3> HIDE DEF Works
    <3>3. Works(h)
      BY <3>1, <3>2, Zenon
    <3>. QED
      BY <3>3, Zenon DEF Works
  <2>. QED
    BY <1>4, <1>5, <2>1
<1>9. s \in Seq(Kinds)
  BY ScriptTyped
<1>10. PICK f \in Seq(Frames) : f = [i \in DOMAIN s |-> [call |-> h, kind |-> s[i]]]
  <2>1. \A i \in 1..Len(s) : [call |-> h, kind |-> s[i]] \in Frames
    BY <1>9 DEF Frames, Kinds
  <2>2. DOMAIN s = 1..Len(s) /\ Len(s) \in Nat
    BY <1>9
  <2>3. [i \in 1..Len(s) |-> [call |-> h, kind |-> s[i]]] \in Seq(Frames)
    BY <2>1, <2>2, IsASeq
  <2>. QED
    BY <2>2, <2>3
<1>11. flight'[w] = f
  <2>1. flight[w] = <<>> /\ <<>> \o f = f
    BY <1>6 DEF Queued
  <2>. QED
    BY <1>8, <1>10, <2>1 DEF TypeOK
<1>12. f = OnTheirWay(h, s, 0)
  <2>1. DOMAIN s = 1..(Len(s) - 0) /\ \A i \in 1..Len(s) : 0 + i = i
    BY <1>9
  <2>. QED
    BY <1>9, <1>10, <2>1 DEF OnTheirWay, Frame
<1>13. inbox'[w] = <<>>
  BY <1>2, <1>6 DEF Queued, TypeOK
<1>14. answer'.script = s /\ answer'.heard = 0
  BY <1>6, <1>8 DEF TypeOK, Queued
<1>15. Spoken(s, 0) = {} /\ ~CallsTools(s, 0)
  BY DEF Spoken, CallsTools
<1>16. Len(s) \in Nat /\ (s # <<>> => Len(s) # 0)
  BY <1>9
<1>17. ~turn.done /\ ~turn.error /\ ~turn.used_tools /\ ~turn.said
  BY <1>6 DEF Queued
<1>18. Played(h, w, 0)'
  <2>1. 0 \in 0..Len(s)
    BY <1>16
  <2>2. flight'[w] = [i \in 1..(Len(s) - 0) |-> [call |-> h, kind |-> s[0 + i]]]
    BY <1>11, <1>12 DEF OnTheirWay, Frame
  <2>3. answer'.heard = Cardinality(Spoken(s, 0))
    BY <1>14, <1>15, FS_EmptySet
  <2>. QED
    BY <1>2, <1>13, <1>14, <1>15, <1>16, <1>17, <2>1, <2>2, <2>3 DEF Played
<1>19. 0 \in 0..Len(answer'.script)
  BY <1>14, <1>16
<1>. QED
  BY <1>2, <1>5, <1>h, <1>18, <1>19 DEF AnswerInv

\* The observer sees the next frame of the answer.
LEMMA AnswerObserve ==
    ASSUME VoiceAssumption, TypeOK, LockInv, AnswerInv, NEW w \in Calls, Observe(w)
    PROVE  AnswerInv'
<1>1. SUFFICES ASSUME answer'.clean PROVE AnswerInv'
  BY Unclean
<1>2. /\ w \in running /\ flight[w] # <<>>
      /\ flight' = [flight EXCEPT ![w] = Tail(@)]
      /\ UNCHANGED <<turn_lock, at, inbox, runner, running, ending>>
  BY DEF Observe, callVars, workerVars
<1>3. PICK f : f = Head(flight[w])
  OBVIOUS
<1>4. /\ turn' = Observed(f)
      /\ answer' = IF answer.clean /\ f.kind = "speech"
                      /\ turn.active /\ turn.callback = f.call
                   THEN [answer EXCEPT !.heard = @ + 1] ELSE answer
  BY <1>3 DEF Observe
<1>5. answer.clean
  BY <1>1, <1>4 DEF TypeOK
<1>h. PICK h \in Calls : h = Head(turn_lock) /\ at[h] = "turn" /\ turn_lock # <<>>
  BY <1>5, CleanHolder
<1>6. /\ runner[h] = w /\ w \notin ending /\ running \subseteq {w}
      /\ turn.active /\ turn.callback = h
      /\ Queued(h, w) \/ \E k \in 0..Len(answer.script) : Played(h, w, k)
  BY <1>2, <1>5, <1>h DEF AnswerInv
<1>s. PICK s : s = answer.script
  OBVIOUS
<1>7. PICK k \in 0..Len(s) : Played(h, w, k)
  BY <1>2, <1>6, <1>s DEF Queued
<1>8. /\ s \in Scripts(h) /\ inbox[w] = <<>> /\ flight[w] = OnTheirWay(h, s, k)
      /\ answer.heard = Cardinality(Spoken(s, k))
      /\ turn.said <=> Spoken(s, k) # {}
      /\ turn.used_tools <=> CallsTools(s, k)
      /\ turn.error <=> \E i \in 1..k : s[i] = "error"
      /\ turn.done <=> k = Len(s) /\ s # <<>>
  BY <1>7, <1>s, PlayedFlight
<1>9. s \in Seq(Kinds) /\ Len(s) \in Nat /\ k \in Nat
  BY <1>8, ScriptTyped
<1>10. k < Len(s)
  <2>1. SUFFICES ASSUME k = Len(s) PROVE FALSE
    BY <1>9
  <2>2. 1..(Len(s) - k) = {}
    BY <1>9, <2>1
  <2>3. PICK g \in Seq(Frames) : g = flight[w]
    BY DEF TypeOK
  <2>4. DOMAIN g = {}
    BY <1>8, <2>2, <2>3, Zenon DEF OnTheirWay
  <2>5. g = <<>>
    BY <2>4
  <2>. QED
    BY <1>2, <2>3, <2>5
<1>11. f = Frame(h, s[k + 1]) /\ flight'[w] = OnTheirWay(h, s, k + 1)
  <2>1. /\ Head(OnTheirWay(h, s, k)) = Frame(h, s[k + 1])
        /\ Tail(OnTheirWay(h, s, k)) = OnTheirWay(h, s, k + 1)
    BY <1>9, <1>10, NextFrame
  <2>2. flight'[w] = Tail(flight[w])
    BY <1>2 DEF TypeOK
  <2>. QED
    BY <1>3, <1>8, <2>1, <2>2
<1>12. f.call = h /\ f.kind = s[k + 1] /\ s[k + 1] \in Kinds
  BY <1>9, <1>10, <1>11 DEF Frame
<1>13. k + 1 = Len(s) <=> s[k + 1] = "error" \/ (s[k + 1] = "end" /\ ~CallsTools(s, k))
  <2>1. k + 1 \in 1..Len(s) /\ (k + 1) - 1 = k
    BY <1>9, <1>10
  <2>. QED
    BY <1>8, <2>1, ScriptShape
<1>14. /\ s[k + 1] = "speech" => Spoken(s, k + 1) = Spoken(s, k) \cup {k + 1}
       /\ s[k + 1] # "speech" => Spoken(s, k + 1) = Spoken(s, k)
       /\ CallsTools(s, k + 1) <=> \/ s[k + 1] = "tools"
                                   \/ s[k + 1] # "end" /\ CallsTools(s, k)
       /\ (\E i \in 1..(k + 1) : s[i] = "error")
          <=> s[k + 1] = "error" \/ \E i \in 1..k : s[i] = "error"
       /\ IsFiniteSet(Spoken(s, k)) /\ k + 1 \notin Spoken(s, k)
  BY <1>9, <1>10, OneMore
<1>15. answer'.script = s /\ answer'.heard = Cardinality(Spoken(s, k + 1))
  <2>1. CASE s[k + 1] = "speech"
    <3>1. answer' = [answer EXCEPT !.heard = @ + 1]
      BY <1>4, <1>5, <1>6, <1>12, <2>1
    <3>2. Cardinality(Spoken(s, k) \cup {k + 1}) = Cardinality(Spoken(s, k)) + 1
      BY <1>14, FS_AddElement
    <3>. QED
      BY <1>8, <1>14, <1>s, <2>1, <3>1, <3>2 DEF TypeOK
  <2>2. CASE s[k + 1] # "speech"
    BY <1>4, <1>8, <1>12, <1>14, <1>s, <2>2
  <2>. QED
    BY <2>1, <2>2
<1>16. /\ turn'.active /\ turn'.callback = h
       /\ turn'.said <=> Spoken(s, k + 1) # {}
       /\ turn'.used_tools <=> CallsTools(s, k + 1)
       /\ turn'.error <=> \E i \in 1..(k + 1) : s[i] = "error"
       /\ turn'.done <=> k + 1 = Len(s) /\ s # <<>>
  <2>0. turn \in TurnType
    BY DEF TypeOK, TurnType
  <2>1. ~turn.done /\ s # <<>>
    BY <1>8, <1>9, <1>10
  <2>2. CASE s[k + 1] = "speech"
    <3>1. turn' = [turn EXCEPT !.said = TRUE]
      BY <1>4, <1>12, <2>2 DEF Observed
    <3>. QED
      BY <1>6, <1>8, <1>13, <1>14, <2>0, <2>1, <2>2, <3>1 DEF TurnType
  <2>3. CASE s[k + 1] = "tools"
    <3>1. turn' = [turn EXCEPT !.used_tools = TRUE]
      BY <1>4, <1>12, <2>3 DEF Observed
    <3>. QED
      BY <1>6, <1>8, <1>13, <1>14, <2>0, <2>1, <2>3, <3>1 DEF TurnType
  <2>4. CASE s[k + 1] = "error"
    <3>1. turn' = [turn EXCEPT !.error = TRUE, !.done = TRUE]
      BY <1>4, <1>12, <2>4 DEF Observed
    <3>. QED
      BY <1>6, <1>8, <1>13, <1>14, <2>0, <2>1, <2>4, <3>1 DEF TurnType
  <2>5. CASE s[k + 1] = "end"
    <3>1. turn' = [turn EXCEPT !.used_tools = FALSE, !.done = @ \/ ~turn.used_tools]
      BY <1>4, <1>12, <2>5 DEF Observed
    <3>. QED
      BY <1>6, <1>8, <1>13, <1>14, <2>0, <2>1, <2>5, <3>1 DEF TurnType
  <2>. QED
    BY <1>12, <2>2, <2>3, <2>4, <2>5 DEF Kinds
<1>17. Played(h, w, k + 1)'
  <2>1. k + 1 \in 0..Len(s) /\ inbox'[w] = <<>>
    BY <1>2, <1>8, <1>9, <1>10
  <2>2. flight'[w] = [i \in 1..(Len(s) - (k + 1)) |-> [call |-> h, kind |-> s[(k + 1) + i]]]
    BY <1>11 DEF OnTheirWay, Frame
  <2>. QED
    BY <1>8, <1>15, <1>16, <2>1, <2>2 DEF Played
<1>18. k + 1 \in 0..Len(answer'.script)
  BY <1>9, <1>10, <1>15
<1>. QED
  BY <1>2, <1>6, <1>h, <1>16, <1>17, <1>18 DEF AnswerInv

\* The runner stops under a turn, which ends with an error.
LEMMA AnswerStops ==
    ASSUME VoiceAssumption, TypeOK, LockInv, AnswerInv, NEW w \in Calls, RunnerStops(w)
    PROVE  AnswerInv'
<1>1. /\ w \in running /\ running' = running \ {w} /\ ending' = ending \ {w}
      /\ UNCHANGED <<turn_lock, at, answer, runner>>
      /\ \/ /\ turn.active
            /\ turn' = [turn EXCEPT !.error = TRUE, !.done = TRUE]
         \/ (turn.active => w \in ending) /\ turn' = turn
  BY DEF RunnerStops, callVars
<1>2. SUFFICES ASSUME answer.clean PROVE AnswerInv'
  BY <1>1, Unclean
<1>h. PICK h \in Calls : h = Head(turn_lock) /\ at[h] = "turn" /\ turn_lock # <<>>
  BY <1>2, CleanHolder
<1>3. /\ runner[h] = w /\ w \notin ending /\ running \subseteq {w}
      /\ turn.active /\ turn.callback = h
  BY <1>1, <1>2, <1>h DEF AnswerInv
<1>4. turn' = [turn EXCEPT !.error = TRUE, !.done = TRUE]
  BY <1>1, <1>3
<1>5. turn'.active /\ turn'.callback = h /\ turn'.done /\ turn'.error
  BY <1>3, <1>4 DEF TypeOK
<1>. QED
  BY <1>1, <1>3, <1>5, <1>h DEF AnswerInv

LEMMA AnswerStep ==
    ASSUME VoiceAssumption, Inv, [Next]_vars
    PROVE  AnswerInv'
<1>0. TypeOK /\ LockInv /\ AnswerInv /\ ~NoAnswer.clean
  BY DEF Inv, NoAnswer
<1>1. ASSUME NEW c \in Calls, Call(c) PROVE AnswerInv'
  <2>1. answer.clean =>
           /\ turn_lock' # <<>> /\ Head(turn_lock') = Head(turn_lock)
           /\ at'[Head(turn_lock)] = at[Head(turn_lock)]
    <3>1. SUFFICES ASSUME answer.clean
                   PROVE  /\ turn_lock' # <<>> /\ Head(turn_lock') = Head(turn_lock)
                          /\ at'[Head(turn_lock)] = at[Head(turn_lock)]
      OBVIOUS
    <3>2. turn_lock # <<>> /\ Head(turn_lock) \in Calls /\ at[Head(turn_lock)] = "turn"
      BY <1>0, <3>1, CleanHolder
    <3>3. at[c] = "new" /\ at' = [at EXCEPT ![c] = "waiting"]
      BY <1>1 DEF Call
    <3>. QED
      BY <1>0, <1>1, <3>2, <3>3, LockCall DEF TypeOK
  <2>. QED
    BY <1>0, <1>1, <2>1, AnswerKept DEF Call, workerVars, frameVars, turnVars
<1>2. ASSUME NEW c \in Calls, CallSteps(c) PROVE AnswerInv'
  BY <1>0, <1>2, AnswerCallSteps
<1>3. ASSUME NEW c \in Calls, InterruptResponse(c) PROVE AnswerInv'
  <2>1. CASE discarded = "no"
    BY <1>0, <1>3, <2>1, Unclean DEF InterruptResponse, Interrupt
  <2>2. CASE discarded # "no"
    BY <1>0, <1>3, <2>2, AnswerKept DEF InterruptResponse, AnswerInv, workerVars, turnVars
  <2>. QED
    BY <2>1, <2>2
<1>4. CASE Discard
  BY <1>0, <1>4, Unclean DEF Discard, CloseBegins, Interrupt
<1>5. CASE DiscardEnds
  BY <1>0, <1>5, AnswerKept DEF DiscardEnds, AnswerInv, frameVars, turnVars
<1>6. ASSUME NEW w \in Calls, PipelineStarts(w) PROVE AnswerInv'
  BY <1>0, <1>6, AnswerKept DEF PipelineStarts, AnswerInv, callVars, frameVars, turnVars
<1>7. ASSUME NEW w \in Calls, Process(w) \/ Observe(w) \/ RunnerStops(w) PROVE AnswerInv'
  BY <1>0, <1>7, AnswerProcess, AnswerObserve, AnswerStops
<1>8. CASE UNCHANGED vars
  BY <1>0, <1>8, AnswerKept
     DEF AnswerInv, vars, callVars, workerVars, frameVars, turnVars
<1>. QED
  BY <1>1, <1>2, <1>3, <1>4, <1>5, <1>6, <1>7, <1>8 DEF Inv, Next

------------------------------------------------------------------------------
(* Theorems.                                                               *)

LEMMA InitInv ==
    ASSUME VoiceAssumption, Init
    PROVE  Inv
<1>1. DataOK
  <2>1. \A S : [c \in Calls |-> <<>>] \in [Calls -> Seq(S)]
    OBVIOUS
  <2>. QED
    BY <2>1, NoTurnTyped DEF Init, DataOK, Coroutines
<1>2. ActiveInv
  BY DEF Init, ActiveInv, NoTurn
<1>3. turn_lock \in Seq(Calls) /\ IsInjective(turn_lock) /\ Len(turn_lock) = 0
  BY DEF Init, IsInjective
<1>4. at \in [Calls -> {"new", "waiting", "starting", "turn"} \cup Closing \cup Returned]
      /\ cancelled \subseteq Calls
  BY DEF Init
<1>5. LockInv
  BY <1>3 DEF LockInv, Init, Gone
<1>6. AnswerInv
  BY DEF AnswerInv, Init, NoAnswer
<1>. QED
  BY <1>1, <1>2, <1>3, <1>4, <1>5, <1>6, TypeParts DEF Inv

\* The turns of the pipeline and what is on its way for them agree, always.
THEOREM VoiceInvariance == Spec => []Inv
<1>1. Init => Inv
  BY InitInv, VoiceAssumption
<1>2. Inv /\ [Next]_vars => Inv'
  BY TypeStep, AnswerStep, VoiceAssumption DEF Inv
<1>. QED
  BY <1>1, <1>2, PTL DEF Spec

\* The lock's queue holds each call once, and a turn is active only while the
\* first of it waits for its end.
THEOREM VoiceTyped == Spec => []TypeOK
<1>1. Inv => TypeOK
  BY DEF Inv
<1>. QED
  BY <1>1, VoiceInvariance, PTL

\* A call whose answer has come to its end, or whose runner has stopped, does
\* not wait for its time limit, however many calls, interruptions and workers
\* there were before it.
THEOREM TurnsAlwaysEndInTime == Spec => []TurnsEndInTime
<1>1. ASSUME Inv PROVE TurnsEndInTime
  <2>0. TypeOK /\ LockInv /\ AnswerInv
    BY <1>1 DEF Inv
  <2>1. SUFFICES ASSUME NEW c \in Calls, answer.clean, at[c] = "turn", ~turn.done
                 PROVE  /\ runner[c] \in running
                        /\ answer.script # <<>> =>
                              inbox[runner[c]] # <<>> \/ flight[runner[c]] # <<>>
    BY DEF TurnsEndInTime
  <2>2. c = Head(turn_lock)
    BY <2>0, <2>1, CleanHolder
  <2>3. /\ runner[c] \in running
        /\ Queued(c, runner[c])
           \/ \E k \in 0..Len(answer.script) : Played(c, runner[c], k)
    BY <2>0, <2>1, <2>2 DEF AnswerInv
  <2>4. CASE Queued(c, runner[c])
    BY <2>3, <2>4 DEF Queued
  <2>5. ASSUME NEW k \in 0..Len(answer.script), Played(c, runner[c], k), answer.script # <<>>
        PROVE  flight[runner[c]] # <<>>
    <3>1. answer.script \in Seq(Kinds)
      BY <2>5, ScriptTyped DEF Played
    <3>2. k # Len(answer.script) /\ k \in Nat /\ Len(answer.script) \in Nat
      BY <2>1, <2>5, <3>1 DEF Played
    <3>3. k < Len(answer.script)
      BY <3>2
    <3>. QED
      BY <2>5, <3>1, <3>2, <3>3, NextFrame, PlayedFlight
  <2>. QED
    BY <2>3, <2>4, <2>5
<1>. QED
  BY <1>1, VoiceInvariance, PTL

\* A call that returns has sent all its speech to its own listener; one that
\* fails had none to send, an error or a runner that died.
THEOREM AnswersAlwaysWhole == Spec => AnswersAreWhole
<1>1. ASSUME Inv, Next, NEW c \in Calls
      PROVE  answer.clean /\ at[c] = "turn" =>
                 /\ at'[c] = "answered" => answer.heard = Words
                 /\ at'[c] = "failed" => \/ Words = 0 \/ "error" \in ToSet(answer.script)
                                         \/ runner[c] \notin running
  <2>0. TypeOK /\ LockInv /\ AnswerInv
    BY <1>1 DEF Inv
  <2>1. SUFFICES ASSUME answer.clean, at[c] = "turn", at'[c] \in {"answered", "failed"}
                 PROVE  /\ at'[c] = "answered" => answer.heard = Words
                        /\ at'[c] = "failed" => \/ Words = 0
                                                \/ "error" \in ToSet(answer.script)
                                                \/ runner[c] \notin running
    OBVIOUS
  <2>2. c = Head(turn_lock) /\ turn_lock # <<>> /\ at \in [Calls -> {at[d] : d \in Calls}]
    BY <2>0, <2>1, CleanHolder DEF TypeOK
  <2>3. TurnEnds(c)
    <3>0. at'[c] # at[c]
      BY <2>1
    <3>1. ASSUME NEW d \in Calls, CallSteps(d) PROVE TurnEnds(c)
      <4>1. CASE d = c
        <5>1. at[d] = "turn"
          BY <2>1, <4>1
        <5>2. TurnEnds(d) \/ TurnTimesOut(d) \/ Cancelled(d)
          BY <3>1, <5>1
             DEF CallSteps, EnsureStarted, Relaunch, Started, StartTimesOut, Expires, Enabled
        <5>3. ASSUME TurnTimesOut(d) \/ Cancelled(d) PROVE FALSE
          <6>1. at' = [at EXCEPT ![d] = "timeout"] \/ at' = [at EXCEPT ![d] = "cancelled"]
            BY <5>3 DEF TurnTimesOut, Cancelled, Return
          <6>. QED
            BY <2>1, <2>2, <4>1, <6>1
        <5>. QED
          BY <4>1, <5>2, <5>3
      <4>2. CASE d # c
        BY <2>2, <3>0, <3>1, <4>2
           DEF CallSteps, EnsureStarted, Relaunch, Started, StartTimesOut, TurnEnds,
               TurnTimesOut, Expires, Cancelled, Return, TurnBegins, Launch
      <4>. QED
        BY <4>1, <4>2
    <3>2. ASSUME NEW d \in Calls, Call(d) PROVE FALSE
      BY <2>1, <2>2, <3>0, <3>2 DEF Call
    <3>. QED
      BY <1>1, <3>0, <3>1, <3>2
         DEF Next, InterruptResponse, Discard, DiscardEnds, PipelineStarts, Process,
             Observe, RunnerStops, callVars
  <2>4. turn.done /\ at' = [at EXCEPT ![c] = IF turn.error \/ ~turn.said
                                             THEN "failed" ELSE "answered"]
    BY <2>3 DEF TurnEnds, Return
  <2>5. CASE runner[c] \notin running
    <3>1. turn.error
      BY <2>0, <2>1, <2>2, <2>5 DEF AnswerInv
    <3>. QED
      BY <2>2, <2>4, <2>5, <3>1
  <2>6. CASE runner[c] \in running
    <3>1. Queued(c, runner[c]) \/ \E k \in 0..Len(answer.script) : Played(c, runner[c], k)
      BY <2>0, <2>1, <2>2, <2>6 DEF AnswerInv
    <3>s. PICK s : s = answer.script
      OBVIOUS
    <3>2. PICK k \in 0..Len(s) : Played(c, runner[c], k)
      BY <2>4, <3>1, <3>s DEF Queued
    <3>3. /\ s \in Scripts(c) /\ k = Len(s)
          /\ answer.heard = Cardinality(Spoken(s, k))
          /\ turn.said <=> Spoken(s, k) # {}
          /\ turn.error <=> \E i \in 1..k : s[i] = "error"
      BY <2>4, <3>2, <3>s DEF Played
    <3>4. s \in Seq(Kinds) /\ DOMAIN s = 1..k
      BY <3>3, ScriptTyped
    <3>5. Words = Cardinality(Spoken(s, k))
      BY <3>4, <3>s DEF Words, Spoken
    <3>6. CASE turn.error
      <4>1. "error" \in ToSet(answer.script)
        BY <3>3, <3>4, <3>6, <3>s DEF ToSet
      <4>. QED
        BY <2>2, <2>4, <3>6, <4>1
    <3>7. CASE ~turn.error /\ turn.said
      BY <2>2, <2>4, <3>3, <3>5, <3>7
    <3>8. CASE ~turn.error /\ ~turn.said
      <4>1. Words = 0
        BY <3>3, <3>5, <3>8, FS_EmptySet
      <4>. QED
        BY <2>2, <2>4, <3>8, <4>1
    <3>. QED
      BY <3>6, <3>7, <3>8
  <2>. QED
    BY <2>5, <2>6
<1>2. Inv /\ [Next]_vars =>
         [\A c \in Calls : answer.clean /\ at[c] = "turn" =>
                 /\ at'[c] = "answered" => answer.heard = Words
                 /\ at'[c] = "failed" => \/ Words = 0 \/ "error" \in ToSet(answer.script)
                                         \/ runner[c] \notin running]_vars
  BY <1>1
<1>. QED
  BY <1>2, VoiceInvariance, PTL DEF Spec, AnswersAreWhole
==============================================================================

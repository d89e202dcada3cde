----------------------------- MODULE PttLinkProofs -----------------------------
(***************************************************************************)
(* What the backend gets of the pilot's speech: for any queue, any number  *)
(* of presses and sessions and any limit of an utterance, frames reach it  *)
(* in an order it accepts, and an utterance is of one press.               *)
(*                                                                         *)
(* The argument is about the pipe, the frames on the wire and those queued *)
(* behind them, which no step reorders: the writer moves none across the   *)
(* other, the backend takes the first and the client appends.  A turn is   *)
(* open before a frame when the backend will be in a turn as it receives   *)
(* that frame.                                                             *)
(***************************************************************************)
EXTENDS PttLink, SequenceTheorems, TLAPS

Closing == {"end", "session.end"}

\* With the backend in a turn or not, as a says, it is in one when s[i] arrives.
Open(s, a, i) ==
    \E j \in 0..(i - 1) :
        /\ IF j = 0 THEN a ELSE s[j].kind = "start"
        /\ \A k \in (j + 1)..(i - 1) : s[k].kind \notin Closing

\* Two chunks the backend may put in this order into one utterance.
Follows(c, d, lost) ==
    \/ c.press = d.press /\ c.chunk < d.chunk
    \/ c.press < d.press /\ c.press \in lost

\* What the backend will find as it receives s: no audio outside a turn, and a
\* start within one only after a press whose end was lost.
Ordered(s, a, lost) ==
    \A i \in 1..Len(s) :
        /\ s[i].kind = "audio" => Open(s, a, i)
        /\ s[i].kind = "start" /\ Open(s, a, i) => \E p \in lost : p < s[i].press

\* The backend puts a chunk into the same turn as an earlier one.
SameTurn(s, i, j) == \A k \in i..j : s[k].kind \notin Closing

\* The chunks in the buffer and those to come into the same turn follow each other.
Whole(s, b, lost) ==
    /\ \A m, n \in 1..Len(b) : m < n => Follows(b[m], b[n], lost)
    /\ \A i \in 1..Len(s) : s[i].kind = "audio" /\ SameTurn(s, 1, i) =>
         \A m \in 1..Len(b) : Follows(b[m], s[i].chunk, lost)
    /\ \A i, j \in 1..Len(s) :
         i < j /\ s[i].kind = "audio" /\ s[j].kind = "audio" /\ SameTurn(s, i, j) =>
             Follows(s[i].chunk, s[j].chunk, lost)

\* The chunks of a turn that is not closed in s.
Pending(s, b, c) ==
    \/ SameTurn(s, 1, Len(s)) /\ \E m \in 1..Len(b) : b[m] = c
    \/ \E i \in 1..Len(s) : s[i] = Audio(c) /\ SameTurn(s, i, Len(s))

Pipe == wire \o outbound

On   == mic # MicOff
Live == On /\ mic.generation = generation      \* transmit still lets its audio pass

OrderInv == Ordered(Pipe, ptt_active, lost_ends)
WholeInv == Whole(Pipe, audio_buffer, lost_ends)

\* At the end of the pipe there is a turn for as long as the capture that began it
\* runs, and none after it, unless its end was lost; what the turn has got is of that
\* press, or of one that was lost before.
EndInv ==
    ready =>
        /\ Live => Open(Pipe, ptt_active, Len(Pipe) + 1)
        /\ Open(Pipe, ptt_active, Len(Pipe) + 1) => Live \/ lost_ends # {}
        /\ \A c \in Chunks : Pending(Pipe, audio_buffer, c) =>
             \/ c.press \in lost_ends
             \/ /\ Live /\ c.press = mic.press
                /\ c.chunk + Len(callbacks) <= mic.captured

\* The chunks scheduled are the latest captured, in order.
CaptureInv ==
    /\ Len(callbacks) <= mic.captured
    /\ \A i \in 1..Len(callbacks) :
         /\ callbacks[i].press = mic.press
         /\ callbacks[i].generation = mic.generation
         /\ callbacks[i].chunk + Len(callbacks) = mic.captured + i
    /\ On => mic.press \in Presses /\ mic.generation \in 1..generation
    /\ ~On => mic.captured = 0

\* A press that has yet to begin its turn is later than all that have begun one.
Waiting(i) == tasks[i].kind = "press" /\ ~(i = 1 /\ step = "open")
PressInv ==
    /\ \A i \in 1..Len(tasks) : tasks[i].press <= presses
    /\ \A i \in 1..Len(tasks) : Waiting(i) =>
         /\ tasks[i].press > mic.press
         /\ \A p \in lost_ends : p < tasks[i].press
         /\ \A j \in 1..Len(tasks) : i < j /\ tasks[j].kind = "press" =>
              tasks[i].press < tasks[j].press
    /\ mic.press <= presses
    /\ \A p \in lost_ends : p <= presses
    /\ On => \A p \in lost_ends : p < mic.press

\* Where the lock's holder is suspended, and when the microphone is on.
HolderInv ==
    /\ step \in {"interrupt", "open"} => Running("press", step)
    /\ step = "close" => Releasing("close")
    /\ step \in {"drop", "silence"} => Running("reset", step)
    /\ step \in {"close", "drop"} => active
    /\ step \in {"interrupt", "open", "silence"} => ~active
    /\ active => session_generation = mic.generation
    /\ On => active \/ step = "open" \/ runtime = "off"
    /\ active \/ step = "open" => On

\* The audio in a queue was captured in the session g.
OfSession(s, g) == \A i \in 1..Len(s) : s[i].kind = "audio" => s[i].chunk.generation = g

\* A connection is set up with nothing in the pipe and a backend in no turn.
LinkInv ==
    /\ ready => generation \in Nat \ {0}
    /\ handshaking => generation < MaxSessions
    /\ ~ready => outbound = <<>>
    /\ handshaking \/ (~ready /\ runtime = "on") =>
         wire = <<>> /\ ~ptt_active /\ audio_buffer = <<>>
    /\ runtime = "off" => ~ready /\ ~handshaking /\ tasks = <<>>
    /\ ~ptt_active => audio_buffer = <<>>
    /\ OfSession(wire, generation) /\ OfSession(outbound, generation)
    /\ \A i \in 1..Len(audio_buffer) : audio_buffer[i].generation = generation

------------------------------------------------------------------------------
(* The frames, and the pipe they move through.                             *)

LEMMA FrameKinds ==
    /\ \A f \in Frames : f.kind = "audio" => f.chunk \in Chunks /\ f = Audio(f.chunk)
    /\ \A f \in Frames : f.kind = "start" => f.press \in Presses
    /\ \A c \in Chunks : /\ Audio(c) \in Frames
                         /\ Audio(c).kind = "audio" /\ Audio(c).chunk = c
    /\ \A p \in Presses, k \in {"start", "end", "interrupt"} :
         Control(k, p) \in Frames /\ Control(k, p).kind = k /\ Control(k, p).press = p
    /\ [kind |-> "telemetry"] \in Frames /\ Farewell \in Frames
  BY DEF Frames, Audio, Control, Farewell

\* The writer leaves the pipe as it is, the backend takes its head, the client
\* appends to it.
LEMMA Pipes ==
    ASSUME NEW w \in Seq(Frames), NEW o \in Seq(Frames)
    PROVE  /\ w \o o \in Seq(Frames)
           /\ \A f \in Frames : w \o Append(o, f) = Append(w \o o, f)
           /\ o # <<>> => Append(w, Head(o)) \o Tail(o) = w \o o
           /\ w # <<>> => /\ w \o o # <<>>
                          /\ Tail(w) \o o = Tail(w \o o)
                          /\ Head(w) = Head(w \o o)
<1>1. w \o o \in Seq(Frames)
  OBVIOUS
<1>2. ASSUME NEW f \in Frames
      PROVE  w \o Append(o, f) = Append(w \o o, f)
  <2>1. w \o Append(o, f) \in Seq(Frames) /\ Append(w \o o, f) \in Seq(Frames)
    OBVIOUS
  <2>2. Len(w \o Append(o, f)) = Len(Append(w \o o, f))
    OBVIOUS
  <2>3. \A i \in 1..Len(w \o Append(o, f)) : (w \o Append(o, f))[i] = Append(w \o o, f)[i]
    OBVIOUS
  <2>. QED
    BY <2>1, <2>2, <2>3, SeqEqual
<1>3. ASSUME o # <<>>
      PROVE  Append(w, Head(o)) \o Tail(o) = w \o o
  <2>1. Head(o) \in Frames /\ Tail(o) \in Seq(Frames)
    BY <1>3
  <2>2. Append(w, Head(o)) \o Tail(o) \in Seq(Frames)
    BY <2>1
  <2>3. Len(Append(w, Head(o)) \o Tail(o)) = Len(w \o o)
    BY <1>3, <2>1
  <2>4. \A i \in 1..Len(w \o o) : (Append(w, Head(o)) \o Tail(o))[i] = (w \o o)[i]
    BY <1>3, <2>1
  <2>. QED
    BY <1>1, <2>2, <2>3, <2>4, SeqEqual
<1>4. ASSUME w # <<>>
      PROVE  /\ w \o o # <<>>
             /\ Tail(w) \o o = Tail(w \o o)
             /\ Head(w) = Head(w \o o)
  <2>1. Len(w) \in Nat \ {0} /\ Len(w \o o) = Len(w) + Len(o) /\ w \o o # <<>>
    BY <1>4
  <2>2. Tail(w) \o o \in Seq(Frames) /\ Tail(w \o o) \in Seq(Frames)
    BY <1>4, <2>1, HeadTailProperties, ConcatProperties
  <2>3. Len(Tail(w) \o o) = Len(Tail(w \o o))
    BY <1>4, <2>1
  <2>4. \A i \in 1..Len(Tail(w) \o o) : (Tail(w) \o o)[i] = Tail(w \o o)[i]
    BY <1>4, <2>1
  <2>5. Head(w) = Head(w \o o)
    BY <1>4, <2>1
  <2>. QED
    BY <2>1, <2>2, <2>3, <2>4, <2>5, SeqEqual
<1>. QED
  BY <1>1, <1>2, <1>3, <1>4

------------------------------------------------------------------------------
(* Open turns, and what appending or taking a frame changes.               *)

\* The backend's turn after a frame.
After(a, f) == f.kind = "start" \/ (a /\ f.kind \notin Closing)

LEMMA OpenFirst ==
    ASSUME NEW s \in Seq(Frames), NEW a \in BOOLEAN
    PROVE  Open(s, a, 1) <=> a
  BY DEF Open

LEMMA OpenStep ==
    ASSUME NEW s \in Seq(Frames), NEW a \in BOOLEAN, NEW i \in 1..Len(s)
    PROVE  Open(s, a, i + 1) <=> After(Open(s, a, i), s[i])
<1>1. ASSUME Open(s, a, i + 1), s[i].kind # "start"
      PROVE  Open(s, a, i) /\ s[i].kind \notin Closing
  <2>1. PICK j \in 0..i :
           /\ IF j = 0 THEN a ELSE s[j].kind = "start"
           /\ \A k \in (j + 1)..i : s[k].kind \notin Closing
    BY <1>1 DEF Open
  <2>2. j # i
    BY <1>1, <2>1
  <2>. QED
    BY <2>1, <2>2 DEF Open
<1>2. ASSUME s[i].kind = "start"
      PROVE  Open(s, a, i + 1)
  BY <1>2 DEF Open
<1>3. ASSUME Open(s, a, i), s[i].kind \notin Closing
      PROVE  Open(s, a, i + 1)
  <2>1. PICK j \in 0..(i - 1) :
           /\ IF j = 0 THEN a ELSE s[j].kind = "start"
           /\ \A k \in (j + 1)..(i - 1) : s[k].kind \notin Closing
    BY <1>3 DEF Open
  <2>2. j \in 0..i /\ \A k \in (j + 1)..i : s[k].kind \notin Closing
    BY <1>3, <2>1
  <2>. QED
    BY <2>1, <2>2 DEF Open
<1>. QED
  BY <1>1, <1>2, <1>3 DEF After

\* What is before a frame decides whether a turn is open there.
LEMMA OpenSame ==
    ASSUME NEW s \in Seq(Frames), NEW t \in Seq(Frames), NEW a \in BOOLEAN,
           NEW i \in Nat \ {0}, \A k \in 1..(i - 1) : s[k] = t[k]
    PROVE  Open(s, a, i) <=> Open(t, a, i)
  BY DEF Open

LEMMA OpenAppended ==
    ASSUME NEW s \in Seq(Frames), NEW f \in Frames, NEW a \in BOOLEAN
    PROVE  /\ Open(Append(s, f), a, Len(s) + 2) <=> After(Open(s, a, Len(s) + 1), f)
           /\ Len(Append(s, f)) + 1 = Len(s) + 2
<1>0. /\ Append(s, f) \in Seq(Frames) /\ Len(Append(s, f)) = Len(s) + 1 /\ Len(s) \in Nat
      /\ \A k \in 1..Len(s) : Append(s, f)[k] = s[k]
      /\ Append(s, f)[Len(s) + 1] = f
  OBVIOUS
<1>1. Open(Append(s, f), a, Len(s) + 1) <=> Open(s, a, Len(s) + 1)
  <2>1. Len(s) + 1 \in Nat \ {0} /\ \A k \in 1..((Len(s) + 1) - 1) : Append(s, f)[k] = s[k]
    BY <1>0
  <2>. QED
    BY ONLY <1>0, <2>1, s \in Seq(Frames), a \in BOOLEAN, OpenSame
<1>2. Len(s) + 1 \in 1..Len(Append(s, f)) /\ (Len(s) + 1) + 1 = Len(s) + 2
  BY <1>0
<1>3. Open(Append(s, f), a, (Len(s) + 1) + 1) <=>
        After(Open(Append(s, f), a, Len(s) + 1), Append(s, f)[Len(s) + 1])
  BY ONLY <1>0, <1>2, a \in BOOLEAN, OpenStep
<1>. QED
  BY <1>0, <1>1, <1>2, <1>3 DEF After

LEMMA OpenTail ==
    ASSUME NEW s \in Seq(Frames), s # <<>>, NEW a \in BOOLEAN, NEW i \in 1..Len(s)
    PROVE  Open(Tail(s), After(a, Head(s)), i) <=> Open(s, a, i + 1)
<1>0. /\ Tail(s) \in Seq(Frames) /\ Len(s) \in Nat \ {0} /\ Head(s) = s[1]
      /\ \A k \in 1..(Len(s) - 1) : Tail(s)[k] = s[k + 1]
  OBVIOUS
<1>1. ASSUME Open(Tail(s), After(a, Head(s)), i)
      PROVE  Open(s, a, i + 1)
  <2>1. PICK j \in 0..(i - 1) :
           /\ IF j = 0 THEN After(a, Head(s)) ELSE Tail(s)[j].kind = "start"
           /\ \A k \in (j + 1)..(i - 1) : Tail(s)[k].kind \notin Closing
    BY <1>1 DEF Open
  <2>2. \A k \in (j + 2)..i : s[k].kind \notin Closing
    <3>1. ASSUME NEW k \in (j + 2)..i
          PROVE  s[k].kind \notin Closing
      <4>1. k - 1 \in (j + 1)..(i - 1) /\ Tail(s)[k - 1] = s[k]
        BY <1>0
      <4>. QED
        BY <2>1, <4>1
    <3>. QED
      BY <3>1
  <2>3. CASE j # 0 \/ Head(s).kind = "start"
    <3>1. j + 1 \in 0..i /\ s[j + 1].kind = "start"
      BY <1>0, <2>1, <2>3
    <3>. QED
      BY <2>2, <3>1 DEF Open
  <2>4. CASE j = 0 /\ Head(s).kind # "start"
    <3>1. a /\ s[1].kind \notin Closing
      BY <1>0, <2>1, <2>4 DEF After
    <3>2. \A k \in 1..i : s[k].kind \notin Closing
      BY <2>2, <2>4, <3>1
    <3>. QED
      BY <3>1, <3>2 DEF Open
  <2>. QED
    BY <2>3, <2>4
<1>2. ASSUME Open(s, a, i + 1)
      PROVE  Open(Tail(s), After(a, Head(s)), i)
  <2>1. PICK j \in 0..i :
           /\ IF j = 0 THEN a ELSE s[j].kind = "start"
           /\ \A k \in (j + 1)..i : s[k].kind \notin Closing
    BY <1>2 DEF Open
  <2>2. \A k \in 1..(i - 1) : k >= j => Tail(s)[k].kind \notin Closing
    BY <1>0, <2>1
  <2>3. CASE j >= 2
    <3>1. j - 1 \in 1..(i - 1) /\ Tail(s)[j - 1].kind = "start"
      BY <1>0, <2>1, <2>3
    <3>2. \A k \in ((j - 1) + 1)..(i - 1) : Tail(s)[k].kind \notin Closing
      BY <2>2, <2>3
    <3>3. j - 1 \in 0..(i - 1) /\ j - 1 # 0
      BY <2>3
    <3>. QED
      BY <3>1, <3>2, <3>3 DEF Open
  <2>4. CASE j < 2
    <3>1. After(a, Head(s))
      BY <1>0, <2>1, <2>4 DEF After
    <3>2. \A k \in 1..(i - 1) : Tail(s)[k].kind \notin Closing
      BY <2>2, <2>4
    <3>3. 0 \in 0..(i - 1) /\ \A k \in (0 + 1)..(i - 1) : Tail(s)[k].kind \notin Closing
      BY <3>2
    <3>. QED
      BY ONLY <3>1, <3>3, Zenon DEF Open
  <2>. QED
    BY <2>3, <2>4
<1>. QED
  BY <1>1, <1>2

LEMMA OrderedAppend ==
    ASSUME NEW s \in Seq(Frames), NEW f \in Frames, NEW a \in BOOLEAN, NEW lost,
           Ordered(s, a, lost),
           f.kind = "audio" => Open(s, a, Len(s) + 1),
           f.kind = "start" /\ Open(s, a, Len(s) + 1) => \E p \in lost : p < f.press
    PROVE  Ordered(Append(s, f), a, lost)
<1>0. /\ Append(s, f) \in Seq(Frames) /\ Len(Append(s, f)) = Len(s) + 1
      /\ \A k \in 1..Len(s) : Append(s, f)[k] = s[k]
      /\ Append(s, f)[Len(s) + 1] = f
  OBVIOUS
<1>. SUFFICES ASSUME NEW i \in 1..(Len(s) + 1)
              PROVE  LET t == Append(s, f) IN
                     /\ t[i].kind = "audio" => Open(t, a, i)
                     /\ t[i].kind = "start" /\ Open(t, a, i) =>
                          \E p \in lost : p < t[i].press
  BY <1>0 DEF Ordered
<1>1. Open(Append(s, f), a, i) <=> Open(s, a, i)
  <2>1. i \in Nat \ {0} /\ \A k \in 1..(i - 1) : Append(s, f)[k] = s[k]
    BY <1>0
  <2>. QED
    BY ONLY <1>0, <2>1, s \in Seq(Frames), a \in BOOLEAN, OpenSame
<1>. QED
  BY <1>0, <1>1 DEF Ordered

LEMMA OrderedTail ==
    ASSUME NEW s \in Seq(Frames), s # <<>>, NEW a \in BOOLEAN, NEW lost,
           Ordered(s, a, lost)
    PROVE  /\ Ordered(Tail(s), After(a, Head(s)), lost)
           /\ Head(s).kind = "audio" => a
           /\ Head(s).kind = "start" /\ a => \E p \in lost : p < Head(s).press
<1>0. /\ Tail(s) \in Seq(Frames) /\ Len(s) \in Nat \ {0} /\ Head(s) = s[1]
      /\ Len(Tail(s)) = Len(s) - 1
      /\ \A k \in 1..(Len(s) - 1) : Tail(s)[k] = s[k + 1]
  OBVIOUS
<1>1. \A i \in 1..Len(Tail(s)) : Open(Tail(s), After(a, Head(s)), i) <=> Open(s, a, i + 1)
  BY <1>0, OpenTail
<1>2. Ordered(Tail(s), After(a, Head(s)), lost)
  BY <1>0, <1>1 DEF Ordered
<1>. QED
  BY <1>0, <1>2, OpenFirst DEF Ordered

LEMMA OrderedPrefix ==
    ASSUME NEW s \in Seq(Frames), NEW t \in Seq(Frames), NEW a \in BOOLEAN, NEW lost,
           Ordered(s \o t, a, lost)
    PROVE  Ordered(s, a, lost)
<1>0. /\ s \o t \in Seq(Frames) /\ Len(s) <= Len(s \o t)
      /\ \A k \in 1..Len(s) : (s \o t)[k] = s[k]
  OBVIOUS
<1>1. ASSUME NEW i \in 1..Len(s)
      PROVE  Open(s \o t, a, i) <=> Open(s, a, i)
  <2>1. i \in Nat \ {0} /\ \A k \in 1..(i - 1) : (s \o t)[k] = s[k]
    BY <1>0
  <2>. QED
    BY ONLY <1>0, <2>1, s \in Seq(Frames), a \in BOOLEAN, OpenSame
<1>. QED
  BY <1>0, <1>1 DEF Ordered

LEMMA WholeAppend ==
    ASSUME NEW s \in Seq(Frames), NEW f \in Frames, NEW b \in Seq(Chunks), NEW lost,
           Whole(s, b, lost),
           f.kind = "audio" =>
               \A c \in Chunks : Pending(s, b, c) => Follows(c, f.chunk, lost)
    PROVE  Whole(Append(s, f), b, lost)
<1>. DEFINE t == Append(s, f)
<1>0. /\ t \in Seq(Frames) /\ Len(t) = Len(s) + 1 /\ Len(s) \in Nat
      /\ \A k \in 1..Len(s) : t[k] = s[k]
      /\ t[Len(s) + 1] = f
  OBVIOUS
<1>1. \A i, j \in 1..(Len(s) + 1) : SameTurn(t, i, j) => SameTurn(s, i, IF j = Len(s) + 1 THEN Len(s) ELSE j)
  BY <1>0 DEF SameTurn
<1>2. ASSUME NEW i \in 1..Len(t), t[i].kind = "audio", SameTurn(t, 1, i), NEW m \in 1..Len(b)
      PROVE  Follows(b[m], t[i].chunk, lost)
  <2>1. CASE i = Len(s) + 1
    <3>1. SameTurn(s, 1, Len(s))
      BY <1>0, <1>1, <1>2, <2>1
    <3>2. b[m] \in Chunks /\ Pending(s, b, b[m])
      BY <3>1 DEF Pending
    <3>. QED
      BY <1>0, <1>2, <2>1, <3>2
  <2>2. CASE i \in 1..Len(s)
    BY <1>0, <1>1, <1>2, <2>2 DEF Whole
  <2>. QED
    BY <1>0, <2>1, <2>2
<1>3. ASSUME NEW i \in 1..Len(t), NEW j \in 1..Len(t), i < j,
             t[i].kind = "audio", t[j].kind = "audio", SameTurn(t, i, j)
      PROVE  Follows(t[i].chunk, t[j].chunk, lost)
  <2>0. i \in 1..Len(s)
    BY <1>0, <1>3
  <2>1. CASE j = Len(s) + 1
    <3>1. SameTurn(s, i, Len(s))
      BY <1>0, <1>1, <1>3, <2>0, <2>1
    <3>2. s[i].kind = "audio" /\ s[i] \in Frames
      BY <1>0, <1>3, <2>0
    <3>3. s[i].chunk \in Chunks /\ s[i] = Audio(s[i].chunk)
      BY <3>2, FrameKinds
    <3>4. Pending(s, b, s[i].chunk)
      BY <2>0, <3>1, <3>3 DEF Pending
    <3>. QED
      BY <1>0, <1>3, <2>0, <2>1, <3>3, <3>4
  <2>2. CASE j \in 1..Len(s)
    <3>1. SameTurn(s, i, j)
      BY <1>0, <1>1, <1>3, <2>0, <2>2
    <3>. QED
      BY <1>0, <1>3, <2>0, <2>2, <3>1 DEF Whole
  <2>. QED
    BY <1>0, <2>1, <2>2
<1>4. \A m, n \in 1..Len(b) : m < n => Follows(b[m], b[n], lost)
  BY DEF Whole
<1>. QED
  BY <1>2, <1>3, <1>4 DEF Whole

\* What the backend may do with its buffer as it takes the frame f.
Takes(f, b, d) ==
    \/ d = <<>>
    \/ f.kind \notin Closing /\ d = b
    \/ f.kind = "audio" /\ d = Append(b, f.chunk)

LEMMA WholeTail ==
    ASSUME NEW s \in Seq(Frames), s # <<>>, NEW b \in Seq(Chunks), NEW d \in Seq(Chunks),
           NEW lost, Whole(s, b, lost), Takes(Head(s), b, d)
    PROVE  Whole(Tail(s), d, lost)
<1>. DEFINE t == Tail(s)
<1>0. /\ t \in Seq(Frames) /\ Len(s) \in Nat \ {0} /\ Head(s) = s[1]
      /\ Len(t) = Len(s) - 1
      /\ \A k \in 1..(Len(s) - 1) : t[k] = s[k + 1]
  OBVIOUS
<1>1. ASSUME NEW i \in 1..Len(t), NEW j \in 1..Len(t), SameTurn(t, i, j)
      PROVE  SameTurn(s, i + 1, j + 1)
  <2>1. ASSUME NEW k \in (i + 1)..(j + 1)
        PROVE  s[k].kind \notin Closing
    <3>1. k - 1 \in i..j /\ t[k - 1] = s[k]
      BY <1>0
    <3>. QED
      BY <1>1, <3>1 DEF SameTurn
  <2>. QED
    BY <2>1 DEF SameTurn
<1>2. ASSUME NEW i \in 1..Len(t), SameTurn(t, 1, i), Head(s).kind \notin Closing
      PROVE  SameTurn(s, 1, i + 1)
  <2>1. SameTurn(s, 2, i + 1)
    BY <1>0, <1>1, <1>2
  <2>. QED
    BY <1>0, <1>2, <2>1 DEF SameTurn
<1>3. \A i, j \in 1..Len(t) :
        i < j /\ t[i].kind = "audio" /\ t[j].kind = "audio" /\ SameTurn(t, i, j) =>
             Follows(t[i].chunk, t[j].chunk, lost)
  BY <1>0, <1>1 DEF Whole
<1>4. CASE d = <<>>
  BY <1>3, <1>4 DEF Whole
<1>5. CASE Head(s).kind \notin Closing /\ d = b
  <2>1. \A i \in 1..Len(t) : t[i].kind = "audio" /\ SameTurn(t, 1, i) =>
          \A m \in 1..Len(b) : Follows(b[m], t[i].chunk, lost)
    BY <1>0, <1>2, <1>5 DEF Whole
  <2>. QED
    BY <1>3, <1>5, <2>1 DEF Whole
<1>6. CASE Head(s).kind = "audio" /\ d = Append(b, Head(s).chunk)
  <2>0. /\ Head(s).kind \notin Closing
        /\ Len(d) = Len(b) + 1
        /\ \A m \in 1..Len(b) : d[m] = b[m]
        /\ d[Len(b) + 1] = s[1].chunk
    BY <1>0, <1>6 DEF Closing
  <2>1. ASSUME NEW i \in 1..Len(t), t[i].kind = "audio", SameTurn(t, 1, i),
               NEW m \in 1..Len(d)
        PROVE  Follows(d[m], t[i].chunk, lost)
    <3>1. SameTurn(s, 1, i + 1)
      BY <1>2, <2>0, <2>1
    <3>2. i + 1 \in 1..Len(s) /\ s[i + 1] = t[i] /\ 1 \in 1..Len(s) /\ 1 < i + 1
      BY <1>0
    <3>3. CASE m = Len(b) + 1
      BY <1>0, <1>6, <2>0, <2>1, <3>1, <3>2, <3>3 DEF Whole
    <3>4. CASE m \in 1..Len(b)
      BY <2>0, <2>1, <3>1, <3>2, <3>4 DEF Whole
    <3>. QED
      BY <2>0, <3>3, <3>4
  <2>2. ASSUME NEW m \in 1..Len(d), NEW n \in 1..Len(d), m < n
        PROVE  Follows(d[m], d[n], lost)
    <3>0. m \in 1..Len(b)
      BY <2>0, <2>2
    <3>1. CASE n = Len(b) + 1
      <4>1. SameTurn(s, 1, 1)
        BY <1>0, <2>0 DEF SameTurn
      <4>2. \A l \in 1..Len(b) : Follows(b[l], s[1].chunk, lost)
        BY <1>0, <1>6, <4>1 DEF Whole
      <4>. QED
        BY <2>0, <3>0, <3>1, <4>2
    <3>2. CASE n \in 1..Len(b)
      BY <2>0, <2>2, <3>0, <3>2 DEF Whole
    <3>. QED
      BY <2>0, <3>1, <3>2
  <2>. QED
    BY <1>3, <2>1, <2>2 DEF Whole
<1>. QED
  BY <1>4, <1>5, <1>6 DEF Takes

LEMMA WholePrefix ==
    ASSUME NEW s \in Seq(Frames), NEW t \in Seq(Frames), NEW b \in Seq(Chunks), NEW lost,
           Whole(s \o t, b, lost)
    PROVE  Whole(s, b, lost)
<1>0. /\ s \o t \in Seq(Frames) /\ Len(s) <= Len(s \o t)
      /\ \A k \in 1..Len(s) : (s \o t)[k] = s[k]
  OBVIOUS
<1>1. \A i, j \in 1..Len(s) : SameTurn(s, i, j) => SameTurn(s \o t, i, j)
  BY <1>0 DEF SameTurn
<1>2. 1..Len(s) \subseteq 1..Len(s \o t) /\ \A i \in 1..Len(s) : 1 \in 1..Len(s)
  BY <1>0
<1>3. \A m, n \in 1..Len(b) : m < n => Follows(b[m], b[n], lost)
  BY DEF Whole
<1>4. ASSUME NEW i \in 1..Len(s), s[i].kind = "audio", SameTurn(s, 1, i), NEW m \in 1..Len(b)
      PROVE  Follows(b[m], s[i].chunk, lost)
  <2>1. (s \o t)[i].kind = "audio" /\ SameTurn(s \o t, 1, i) /\ i \in 1..Len(s \o t)
    BY <1>0, <1>1, <1>2, <1>4
  <2>. QED
    BY <1>0, <2>1 DEF Whole
<1>5. ASSUME NEW i \in 1..Len(s), NEW j \in 1..Len(s), i < j, s[i].kind = "audio",
             s[j].kind = "audio", SameTurn(s, i, j)
      PROVE  Follows(s[i].chunk, s[j].chunk, lost)
  <2>1. /\ (s \o t)[i].kind = "audio" /\ (s \o t)[j].kind = "audio"
        /\ SameTurn(s \o t, i, j) /\ i \in 1..Len(s \o t) /\ j \in 1..Len(s \o t)
    BY <1>0, <1>1, <1>2, <1>5
  <2>. QED
    BY <1>0, <1>5, <2>1 DEF Whole
<1>. QED
  BY <1>3, <1>4, <1>5 DEF Whole

\* A lost end makes more orders acceptable, none less.
LEMMA MoreLost ==
    ASSUME NEW lost, NEW more, lost \subseteq more
    PROVE  /\ \A s, a : Ordered(s, a, lost) => Ordered(s, a, more)
           /\ \A s, b : Whole(s, b, lost) => Whole(s, b, more)
<1>1. \A c, d : Follows(c, d, lost) => Follows(c, d, more)
  BY DEF Follows
<1>2. ASSUME NEW s, NEW a, Ordered(s, a, lost)
      PROVE  Ordered(s, a, more)
  BY <1>2 DEF Ordered
<1>3. ASSUME NEW s, NEW b, Whole(s, b, lost)
      PROVE  Whole(s, b, more)
  BY <1>1, <1>3 DEF Whole
<1>. QED
  BY <1>2, <1>3

LEMMA PendingAppend ==
    ASSUME NEW s \in Seq(Frames), NEW f \in Frames, NEW b \in Seq(Chunks),
           NEW c \in Chunks, Pending(Append(s, f), b, c)
    PROVE  f.kind \notin Closing /\ (f = Audio(c) \/ Pending(s, b, c))
<1>. DEFINE t == Append(s, f)
<1>0. /\ t \in Seq(Frames) /\ Len(t) = Len(s) + 1 /\ Len(s) \in Nat
      /\ \A k \in 1..Len(s) : t[k] = s[k]
      /\ t[Len(s) + 1] = f
  OBVIOUS
<1>1. ASSUME NEW i \in 1..(Len(s) + 1), SameTurn(t, i, Len(s) + 1)
      PROVE  SameTurn(s, i, Len(s)) /\ f.kind \notin Closing
  BY <1>0, <1>1 DEF SameTurn
<1>2. CASE SameTurn(t, 1, Len(t)) /\ \E m \in 1..Len(b) : b[m] = c
  BY <1>0, <1>1, <1>2 DEF Pending
<1>3. ASSUME NEW i \in 1..Len(t), t[i] = Audio(c), SameTurn(t, i, Len(t))
      PROVE  f.kind \notin Closing /\ (f = Audio(c) \/ Pending(s, b, c))
  BY <1>0, <1>1, <1>3 DEF Pending
<1>. QED
  BY <1>2, <1>3 DEF Pending

LEMMA PendingTail ==
    ASSUME NEW s \in Seq(Frames), s # <<>>, NEW b \in Seq(Chunks), NEW d \in Seq(Chunks),
           Takes(Head(s), b, d), NEW c \in Chunks, Pending(Tail(s), d, c)
    PROVE  Pending(s, b, c)
<1>. DEFINE t == Tail(s)
<1>0. /\ t \in Seq(Frames) /\ Len(s) \in Nat \ {0} /\ Head(s) = s[1]
      /\ Len(t) = Len(s) - 1
      /\ \A k \in 1..(Len(s) - 1) : t[k] = s[k + 1]
  OBVIOUS
<1>1. ASSUME NEW i \in 1..(Len(t) + 1), SameTurn(t, i, Len(t))
      PROVE  SameTurn(s, i + 1, Len(s))
  <2>1. ASSUME NEW k \in (i + 1)..Len(s)
        PROVE  s[k].kind \notin Closing
    <3>1. k - 1 \in i..Len(t) /\ t[k - 1] = s[k]
      BY <1>0
    <3>. QED
      BY <1>1, <3>1 DEF SameTurn
  <2>. QED
    BY <2>1 DEF SameTurn
<1>2. ASSUME NEW i \in 1..Len(t), t[i] = Audio(c), SameTurn(t, i, Len(t))
      PROVE  Pending(s, b, c)
  BY <1>0, <1>1, <1>2 DEF Pending
<1>3. ASSUME SameTurn(t, 1, Len(t)), NEW m \in 1..Len(d), d[m] = c
      PROVE  Pending(s, b, c)
  <2>0. Head(s).kind \notin Closing
    BY <1>3 DEF Takes, Closing
  <2>1. SameTurn(s, 1, Len(s))
    BY <1>0, <1>1, <1>3, <2>0 DEF SameTurn
  <2>2. CASE d = b
    BY <1>3, <2>1, <2>2 DEF Pending
  <2>3. CASE Head(s).kind = "audio" /\ d = Append(b, Head(s).chunk)
    <3>1. Head(s) \in Frames /\ Head(s) = Audio(Head(s).chunk) /\ Head(s).chunk \in Chunks
      BY <1>0, <2>3, FrameKinds
    <3>2. CASE m \in 1..Len(b)
      BY <1>3, <2>1, <2>3, <3>1, <3>2 DEF Pending
    <3>3. CASE m = Len(b) + 1
      <4>1. s[1] = Audio(c)
        BY <1>0, <1>3, <2>3, <3>1, <3>3
      <4>. QED
        BY <1>0, <2>1, <4>1 DEF Pending
    <3>. QED
      BY <1>3, <2>3, <3>1, <3>2, <3>3
  <2>. QED
    BY <1>3, <2>2, <2>3 DEF Takes
<1>. QED
  BY <1>2, <1>3 DEF Pending

------------------------------------------------------------------------------
(* Types, and what holds of the parts of the client whatever is in the     *)
(* pipe.                                                                   *)

Quiet == CaptureInv /\ PressInv /\ HolderInv /\ LinkInv

\* The step by which the device reports an edge, or none.
LEMMA DeviceEdge ==
    ASSUME KeyDown \/ KeyUp \/ Move \/ Poll
    PROVE  /\ UNCHANGED <<device, resets, runtime, step, active, session_generation, mic,
                         callbacks, linkVars, serverVars, lost_ends>>
           /\ runtime = "on" /\ held' \in {"up", "down", "gone"} \cup {held}
           /\ ReportPress \/ ReportRelease \/ UNCHANGED <<pressed, presses, tasks>>
  BY DEF KeyDown, KeyUp, Move, Poll, DeviceStep

Coroutine == [kind: {"press", "release", "reset", "quit"}, press: 0..MaxPresses]

LEMMA EnqueueTyped ==
    ASSUME NEW f \in Frames, NEW q \in Seq(Frames), Len(q) <= QueueSize + Reserve
    PROVE  Enqueue(f, q) \in Seq(Frames) /\ Len(Enqueue(f, q)) <= QueueSize + Reserve
  BY PttLinkAssumption DEF PttLinkAssumption, Enqueue, Accepts

LEMMA TypeStep ==
    ASSUME TypeOK, Quiet, [Next]_vars
    PROVE  TypeOK'
<1>c. /\ QueueSize \in Nat \ {0} /\ Reserve \in Nat /\ WireSize \in Nat /\ MaxUtterance \in Nat
      /\ MaxPresses \in Nat /\ MaxChunks \in Nat /\ MaxResets \in Nat /\ MaxSessions \in Nat
      /\ Presses = 1..MaxPresses
  BY PttLinkAssumption DEF PttLinkAssumption, Presses
<1>t. tasks \in Seq(Coroutine)
  BY DEF TypeOK, Coroutine
<1>k. /\ Task("press", presses) \in Coroutine /\ Task("release", presses) \in Coroutine
      /\ Task("reset", presses) \in Coroutine /\ Task("quit", presses) \in Coroutine
  BY DEF Task, TypeOK, Coroutine
<1>r. tasks # <<>> => Tail(tasks) \in Seq(Coroutine)
  BY <1>t
<1>m. /\ mic \in [press: 0..MaxPresses, generation: 0..MaxSessions, captured: 0..MaxChunks]
      /\ callbacks \in Seq(Chunks)
  BY DEF TypeOK
<1>p. /\ outbound \in Seq(Frames) /\ Len(outbound) <= QueueSize + Reserve
      /\ wire \in Seq(Frames) /\ Len(wire) <= WireSize
  BY DEF TypeOK
<1>b. /\ audio_buffer \in Seq(Chunks) /\ Len(audio_buffer) <= MaxUtterance
      /\ ptt_active \in BOOLEAN /\ overflowed \in BOOLEAN
      /\ utterances \subseteq Seq(Chunks) /\ rejected \subseteq Frames
  BY DEF TypeOK
<1>e. <<>> \in Seq(Frames) /\ <<>> \in Seq(Chunks) /\ Len(<<>>) = 0
  BY EmptySeq
<1>g. MicOff \in [press: 0..MaxPresses, generation: 0..MaxSessions, captured: 0..MaxChunks]
  BY <1>c DEF MicOff
<1>1. CASE KeyDown \/ KeyUp \/ Move \/ Poll
  <2>1. tasks' \in Seq(Coroutine) /\ presses' \in 0..MaxPresses /\ pressed' \in BOOLEAN
    <3>1. CASE ReportPress
      <4>1. presses + 1 \in 0..MaxPresses /\ presses' = presses + 1
        BY <3>1, <1>c DEF TypeOK, ReportPress
      <4>2. Task("press", presses') \in Coroutine
        BY <4>1 DEF Task, Coroutine
      <4>. QED
        BY <3>1, <4>1, <4>2, <1>t DEF ReportPress
    <3>2. CASE ReportRelease
      <4>1. presses' \in 0..MaxPresses
        BY <3>2 DEF ReportRelease, TypeOK
      <4>2. Append(tasks, Task("release", presses)) \in Seq(Coroutine)
        BY <1>t, <1>k
      <4>. QED
        BY <3>2, <4>1, <4>2 DEF ReportRelease
    <3>3. CASE UNCHANGED <<pressed, presses, tasks>>
      BY <3>3, <1>t DEF TypeOK
    <3>. QED
      BY <1>1, <3>1, <3>2, <3>3, DeviceEdge
  <2>. QED
    BY <1>1, <2>1, DeviceEdge DEF TypeOK, Coroutine, linkVars, sessionVars, serverVars
<1>2. CASE AircraftChanged
  <2>1. tasks' \in Seq(Coroutine)
    BY <1>2, <1>t, <1>k DEF AircraftChanged
  <2>2. resets' \in 0..MaxResets
    BY <1>2, <1>c DEF AircraftChanged, TypeOK
  <2>. QED
    BY <1>2, <2>1, <2>2 DEF AircraftChanged, TypeOK, Coroutine, linkVars, sessionVars, serverVars
<1>3. CASE StopRuntime
  <2>1. tasks' \in Seq(Coroutine)
    BY <1>3, <1>t, <1>k DEF StopRuntime
  <2>. QED
    <3>1. /\ runtime' = "stopping" /\ pressed' = FALSE
          /\ UNCHANGED <<device, held, presses, resets, step, active, session_generation,
                         mic, callbacks, lost_ends>>
          /\ UNCHANGED <<ready, handshaking, generation, outbound, wire>>
          /\ UNCHANGED <<ptt_active, audio_buffer, overflowed, utterances, rejected>>
      BY <1>3 DEF StopRuntime, linkVars, sessionVars, serverVars
    <3>2. tasks' \in Seq([kind: {"press", "release", "reset", "quit"}, press: 0..MaxPresses])
      BY <2>1 DEF Coroutine
    <3>3. /\ ready' \in BOOLEAN /\ handshaking' \in BOOLEAN /\ ~(ready' /\ handshaking')
          /\ generation' \in 0..MaxSessions
          /\ outbound' \in Seq(Frames) /\ Len(outbound') <= QueueSize + Reserve
          /\ wire' \in Seq(Frames) /\ Len(wire') <= WireSize
      BY ONLY TypeOK, <3>1 DEF TypeOK
    <3>4. /\ ptt_active' \in BOOLEAN /\ overflowed' \in BOOLEAN
          /\ audio_buffer' \in Seq(Chunks) /\ Len(audio_buffer') <= MaxUtterance
          /\ utterances' \subseteq Seq(Chunks) /\ rejected' \subseteq Frames
          /\ lost_ends' \subseteq Presses
      BY ONLY TypeOK, <3>1 DEF TypeOK
    <3>. QED
      BY ONLY TypeOK, <3>1, <3>2, <3>3, <3>4, Zenon DEF TypeOK
<1>4. CASE Exit
  BY <1>4 DEF Exit, TypeOK, Coroutine, linkVars, sessionVars, serverVars
<1>5. CASE PressIgnored \/ PressBegins \/ ReleaseIgnored \/ ReleaseBegins \/ ResetBegins
           \/ ResetEnds \/ PressOpens
  <2>1. tasks' = tasks \/ Return
    BY <1>5 DEF PressIgnored, PressBegins, ReleaseIgnored, ReleaseBegins, ResetBegins,
       ResetEnds, PressOpens
  <2>2. tasks # <<>>
    BY <1>5 DEF PressIgnored, PressBegins, ReleaseIgnored, ReleaseBegins, ResetBegins,
       ResetEnds, PressOpens, Running, Releasing
  <2>3. tasks' \in Seq(Coroutine)
    BY <2>1, <2>2, <1>t, <1>r DEF Return
  <2>4. /\ UNCHANGED <<pilotVars, mic, callbacks, linkVars, serverVars, lost_ends>>
        /\ session_generation' \in {0, session_generation, mic.generation}
        /\ step' \in {"ready", "interrupt", "close", "drop", "silence"}
        /\ active' \in BOOLEAN
    BY <1>5, TypeOK DEF TypeOK, PressIgnored, PressBegins, ReleaseIgnored, ReleaseBegins, ResetBegins,
       ResetEnds, PressOpens, Return
  <2>. QED
    BY <1>c, <1>m, <2>3, <2>4, SMTT(30) DEF TypeOK, Coroutine, pilotVars, linkVars, sessionVars, serverVars
<1>6. CASE PressSends
  <2>1. tasks # <<>> /\ Head(tasks) = tasks[1] /\ tasks[1] \in Coroutine /\ 1 \in 1..Len(tasks)
        /\ Head(tasks).kind = "press" /\ step = "interrupt"
    BY <1>6, <1>t DEF PressSends, Running
  <2>2. Head(tasks).press \in Presses
    BY <2>1, <1>c, <1>m DEF Quiet, PressInv, Waiting, Coroutine
  <2>3. PICK i \in Frames, e \in Frames : outbound' = Enqueue(e, Enqueue(i, outbound))
    <3>1. /\ Control("interrupt", Head(tasks).press) \in Frames
          /\ Control("start", Head(tasks).press) \in Frames
      BY <2>2, FrameKinds
    <3>2. outbound' = Enqueue(Control("start", Head(tasks).press),
                              Enqueue(Control("interrupt", Head(tasks).press), outbound))
      BY <1>6 DEF PressSends
    <3>. QED
      BY <3>1, <3>2
  <2>4. outbound' \in Seq(Frames) /\ Len(outbound') <= QueueSize + Reserve
    <3>1. Enqueue(i, outbound) \in Seq(Frames) /\ Len(Enqueue(i, outbound)) <= QueueSize + Reserve
      BY <1>p, EnqueueTyped
    <3>. QED
      BY <2>3, <3>1, EnqueueTyped
  <2>5. tasks' \in Seq(Coroutine) /\ step' \in {"ready", "open"}
    BY <1>6, <2>1, <1>t, <1>r DEF PressSends, Return
  <2>6. mic' \in [press: 0..MaxPresses, generation: 0..MaxSessions, captured: 0..MaxChunks]
    BY <1>6, <2>2, <1>c, <1>m, TypeOK, SMTT(30) DEF PressSends, TypeOK
  <2>7. UNCHANGED <<pilotVars, active, session_generation, callbacks, sessionVars, wire,
                    serverVars, lost_ends>>
    BY <1>6 DEF PressSends
  <2>. QED
    BY <2>4, <2>5, <2>6, <2>7 DEF TypeOK, Coroutine, pilotVars, sessionVars, serverVars
<1>8. CASE PressFails \/ ReleaseEnds \/ ResetDrops
  <2>1. On /\ mic.press \in Presses
    BY <1>8 DEF Quiet, HolderInv, CaptureInv, PressFails, ReleaseEnds, ResetDrops, Running, Releasing
  <2>2. lost_ends' \in SUBSET Presses
    BY <1>8, <2>1, TypeOK DEF PressFails, ReleaseEnds, ResetDrops, Unended, TypeOK
  <2>3. Control("end", mic.press) \in Frames /\ Control("end", mic.press).kind = "end"
    BY <2>1, FrameKinds
  <2>4. outbound' \in {outbound, Enqueue(Control("end", mic.press), outbound)}
    BY <1>8, <2>3 DEF PressFails, ReleaseEnds, ResetDrops, Enqueue, linkVars
  <2>5. outbound' \in Seq(Frames) /\ Len(outbound') <= QueueSize + Reserve
    BY <2>3, <2>4, <1>p, EnqueueTyped
  <2>6. tasks # <<>>
    BY <1>8 DEF PressFails, ReleaseEnds, ResetDrops, Running, Releasing
  <2>7. tasks' \in Seq(Coroutine) /\ step' \in {"ready", "silence"}
    BY <1>8, <2>6, <1>t, <1>r DEF PressFails, ReleaseEnds, ResetDrops, Return
  <2>8. /\ UNCHANGED <<pilotVars, callbacks, sessionVars, wire, serverVars>>
        /\ session_generation' \in {0, session_generation} /\ active' \in BOOLEAN
        /\ mic' = MicOff
    BY <1>8, TypeOK DEF TypeOK, PressFails, ReleaseEnds, ResetDrops, CaptureStopped, linkVars
  <2>. QED
    <3>1. mic' \in [press: 0..MaxPresses, generation: 0..MaxSessions, captured: 0..MaxChunks]
      BY <1>g, <2>8
    <3>2. session_generation' \in 0..MaxSessions
      BY <1>c, <2>8 DEF TypeOK
    <3>3. lost_ends' \subseteq Presses
      BY <2>2
    <3>. QED
      BY <3>1, <3>2, <3>3, <2>5, <2>7, <2>8, SMTT(30) DEF TypeOK, Coroutine, pilotVars, sessionVars, serverVars
<1>11. CASE Capture
  <2>1. On /\ mic.press \in Presses /\ mic.generation \in 1..MaxSessions
    <3>1. On
      BY <1>11 DEF Capture, On
    <3>2. generation \in 0..MaxSessions
      BY DEF TypeOK
    <3>. QED
      BY <3>1, <3>2, <1>c, <1>m DEF Quiet, CaptureInv
  <2>2. mic' \in [press: 0..MaxPresses, generation: 0..MaxSessions, captured: 0..MaxChunks]
    <3>1. mic' = [mic EXCEPT !.captured = @ + 1] /\ mic.captured < MaxChunks
      BY <1>11 DEF Capture
    <3>2. mic.captured + 1 \in 0..MaxChunks
      BY <3>1, <1>c, <1>m
    <3>. QED
      BY <3>1, <3>2, <1>m
  <2>3. [press |-> mic.press, chunk |-> mic.captured + 1, generation |-> mic.generation] \in Chunks
    BY <1>11, <2>1, <1>c, <1>m DEF Capture, Chunks
  <2>4. callbacks' \in Seq(Chunks)
    BY <1>11, <2>3, <1>m DEF Capture
  <2>. QED
    BY <1>11, <2>2, <2>4 DEF TypeOK, Coroutine, Capture, pilotVars, linkVars, sessionVars, serverVars
<1>12. CASE Transmit
  <2>1. /\ callbacks' \in Seq(Chunks) /\ Audio(Head(callbacks)) \in Frames
        /\ outbound' \in {outbound, Enqueue(Audio(Head(callbacks)), outbound)}
    BY <1>12, <1>m, FrameKinds DEF Transmit
  <2>2. outbound' \in Seq(Frames) /\ Len(outbound') <= QueueSize + Reserve
    BY <2>1, <1>p, EnqueueTyped
  <2>. QED
    BY <1>12, <2>1, <2>2 DEF TypeOK, Coroutine, Transmit, pilotVars, sessionVars, serverVars
<1>13. CASE Publish
  <2>1. outbound' \in Seq(Frames) /\ Len(outbound') <= QueueSize + Reserve
    BY <1>13, <1>c, <1>p, FrameKinds DEF Publish, Accepts
  <2>. QED
    BY <1>13, <2>1 DEF TypeOK, Coroutine, Publish, pilotVars, clientVars, sessionVars, serverVars
<1>14. CASE Write
  <2>1. outbound' \in Seq(Frames) /\ Len(outbound') <= QueueSize + Reserve
    BY <1>14, <1>c, <1>p DEF Write
  <2>2. wire' \in Seq(Frames) /\ Len(wire') <= WireSize
    <3>1. Head(outbound) \in Frames
      BY <1>14, <1>p DEF Write
    <3>. QED
      BY <1>14, <1>c, <1>p, <3>1 DEF Write
  <2>. QED
    BY <1>14, <2>1, <2>2 DEF TypeOK, Coroutine, Write, pilotVars, clientVars, sessionVars, serverVars
<1>15. CASE Disconnect \/ Connect \/ Handshake
  <2>1. handshaking => generation + 1 \in 0..MaxSessions
    BY <1>c DEF Quiet, LinkInv, TypeOK
  <2>2. generation' \in 0..MaxSessions
    BY <1>15, <2>1 DEF Disconnect, Connect, Handshake, TypeOK
  <2>3. /\ outbound' \in {outbound, <<>>} /\ wire' \in {wire, <<>>}
        /\ audio_buffer' \in {audio_buffer, <<>>}
        /\ ptt_active' \in BOOLEAN /\ overflowed' \in BOOLEAN
        /\ UNCHANGED <<pilotVars, clientVars, utterances, rejected, lost_ends>>
        /\ ready' \in BOOLEAN /\ handshaking' \in BOOLEAN /\ ~(ready' /\ handshaking')
    <3>1. CASE Disconnect
      BY <3>1 DEF Disconnect, TypeOK
    <3>2. CASE Connect
      BY <3>2 DEF Connect, TypeOK, serverVars
    <3>3. CASE Handshake
      BY <3>3 DEF Handshake, TypeOK, serverVars
    <3>. QED
      BY <1>15, <3>1, <3>2, <3>3
  <2>4. /\ outbound' \in Seq(Frames) /\ Len(outbound') <= QueueSize + Reserve
        /\ wire' \in Seq(Frames) /\ Len(wire') <= WireSize
        /\ audio_buffer' \in Seq(Chunks) /\ Len(audio_buffer') <= MaxUtterance
    <3>1. (outbound' = outbound \/ outbound' = <<>>) /\ (wire' = wire \/ wire' = <<>>)
          /\ (audio_buffer' = audio_buffer \/ audio_buffer' = <<>>)
      BY <2>3
    <3>2. 0 <= QueueSize + Reserve /\ 0 <= WireSize /\ 0 <= MaxUtterance
      BY <1>c
    <3>. QED
      BY <3>1, <3>2, <1>p, <1>b, <1>e
  <2>. QED
    BY <2>2, <2>3, <2>4 DEF TypeOK, pilotVars, clientVars
<1>16. CASE Leave
  <2>1. wire' \in Seq(Frames) /\ Len(wire') <= WireSize
    BY <1>16, <1>c, <1>p, FrameKinds DEF Leave
  <2>2. outbound' \in Seq(Frames) /\ Len(outbound') <= QueueSize + Reserve
    BY <1>16, <1>c DEF Leave
  <2>. QED
    <3>1. /\ ready' = FALSE /\ UNCHANGED <<handshaking, lost_ends>>
          /\ UNCHANGED <<device, held, pressed, presses, resets, runtime>>
          /\ UNCHANGED <<tasks, step, active, session_generation, mic, callbacks>>
          /\ UNCHANGED <<ptt_active, audio_buffer, overflowed, utterances, rejected>>
          /\ generation' = generation
      BY <1>16 DEF Leave, pilotVars, clientVars, serverVars
    <3>2. /\ ready' \in BOOLEAN /\ handshaking' \in BOOLEAN /\ ~(ready' /\ handshaking')
          /\ generation' \in 0..MaxSessions
      BY ONLY TypeOK, <3>1 DEF TypeOK
    <3>3. /\ ptt_active' \in BOOLEAN /\ overflowed' \in BOOLEAN
          /\ audio_buffer' \in Seq(Chunks) /\ Len(audio_buffer') <= MaxUtterance
          /\ utterances' \subseteq Seq(Chunks) /\ rejected' \subseteq Frames
          /\ lost_ends' \subseteq Presses
      BY ONLY TypeOK, <3>1 DEF TypeOK
    <3>. QED
      BY ONLY TypeOK, <2>1, <2>2, <3>1, <3>2, <3>3, Zenon DEF TypeOK
<1>17. CASE Server
  <2>1. /\ wire # <<>> /\ wire' = Tail(wire)
        /\ UNCHANGED <<pilotVars, clientVars, sessionVars, outbound, lost_ends>>
    BY <1>17 DEF Server, StartPtt, HandleMedia, EndPtt, EndSession, HandleOther, Received
  <2>2. wire' \in Seq(Frames) /\ Len(wire') <= WireSize /\ Head(wire) \in Frames
    BY <2>1, <1>p, <1>c
  <2>3. ptt_active' \in BOOLEAN /\ overflowed' \in BOOLEAN
    BY <1>17, <1>b DEF Server, StartPtt, HandleMedia, EndPtt, EndSession, HandleOther,
       ResetUtterance, serverVars
  <2>4. rejected' \subseteq Frames
    BY <1>17, <1>b, <2>2 DEF Server, StartPtt, HandleMedia, EndPtt, EndSession, HandleOther,
       Reject, serverVars
  <2>5. utterances' \subseteq Seq(Chunks)
    BY <1>17, <1>b DEF Server, StartPtt, HandleMedia, EndPtt, EndSession, HandleOther, serverVars
  <2>6. audio_buffer' \in Seq(Chunks) /\ Len(audio_buffer') <= MaxUtterance
    <3>1. CASE StartPtt \/ EndPtt \/ EndSession \/ HandleOther
      <4>1. audio_buffer' \in {audio_buffer, <<>>}
        BY <3>1 DEF StartPtt, EndPtt, EndSession, HandleOther, ResetUtterance, serverVars
      <4>. QED
        <5>1. CASE audio_buffer' = audio_buffer
          BY <5>1, <1>b
        <5>2. CASE audio_buffer' = <<>>
          BY <5>2, <1>c, <1>e
        <5>. QED
          BY <4>1, <5>1, <5>2
    <3>2. CASE HandleMedia
      <4>1. Head(wire).chunk \in Chunks
        BY <3>2, <2>2, FrameKinds DEF HandleMedia, Received
      <4>2. \/ audio_buffer' = audio_buffer
            \/ Len(audio_buffer) # MaxUtterance /\ audio_buffer' = Append(audio_buffer, Head(wire).chunk)
        BY <3>2 DEF HandleMedia
      <4>. QED
        BY <4>1, <4>2, <1>b, <1>c
    <3>. QED
      BY <1>17, <3>1, <3>2 DEF Server
  <2>. QED
    BY <2>1, <2>2, <2>3, <2>4, <2>5, <2>6 DEF TypeOK, Coroutine, pilotVars, clientVars, sessionVars
<1>18. CASE UNCHANGED vars
  BY <1>18 DEF TypeOK, vars, pilotVars, clientVars, linkVars, sessionVars, serverVars
<1>. QED
  BY <1>1, <1>2, <1>3, <1>4, <1>5, <1>6, <1>8, <1>11, <1>12, <1>13, <1>14, <1>15, <1>16,
     <1>17, <1>18 DEF Next, Controller

LEMMA ServerLocal ==
    ASSUME Server
    PROVE  /\ wire # <<>> /\ wire' = Tail(wire)
           /\ UNCHANGED <<pilotVars, clientVars, sessionVars, outbound, lost_ends>>
  BY DEF Server, StartPtt, HandleMedia, EndPtt, EndSession, HandleOther, Received

LEMMA CaptureStep ==
    ASSUME TypeOK, Quiet, [Next]_vars
    PROVE  CaptureInv'
<1>m. /\ mic \in [press: 0..MaxPresses, generation: 0..MaxSessions, captured: 0..MaxChunks]
      /\ callbacks \in Seq(Chunks) /\ Len(callbacks) \in Nat /\ generation \in Nat
      /\ MaxSessions \in Nat
  BY PttLinkAssumption DEF TypeOK, PttLinkAssumption
<1>e. ~On => callbacks = <<>> /\ Len(callbacks) = 0
  BY <1>m DEF Quiet, CaptureInv
<1>1. CASE UNCHANGED <<mic, callbacks, generation>>
  BY <1>1 DEF Quiet, CaptureInv, On
<1>2. CASE PressSends
  <2>1. \/ ~On /\ callbacks = <<>> /\ ready /\ generation \in Nat \ {0}
        \/ UNCHANGED <<mic, callbacks, generation>>
    BY <1>2, <1>e DEF PressSends, Running, Quiet, HolderInv, LinkInv, Accepts, sessionVars
  <2>2. CASE UNCHANGED <<mic, callbacks, generation>>
    BY <1>1, <2>2
  <2>3. CASE ~UNCHANGED <<mic, callbacks, generation>>
    <3>1. /\ mic' = [press |-> Head(tasks).press, generation |-> generation, captured |-> 0]
          /\ callbacks' = callbacks /\ generation' = generation
      BY <1>2, <2>3 DEF PressSends, sessionVars
    <3>2. Head(tasks).press \in Presses
      <4>1. tasks \in Seq(Coroutine) /\ tasks # <<>> /\ Head(tasks).kind = "press" /\ step = "interrupt"
        BY <1>2 DEF PressSends, Running, TypeOK, Coroutine
      <4>2. Head(tasks) = tasks[1] /\ tasks[1] \in Coroutine /\ 1 \in 1..Len(tasks)
        BY <4>1
      <4>. QED
        BY <1>m, <4>1, <4>2, PttLinkAssumption DEF Quiet, PressInv, Waiting, Coroutine, Presses, PttLinkAssumption
    <3>3. Len(callbacks') = 0
      BY <2>1, <2>3, <3>1
    <3>. QED
      BY <2>1, <2>3, <3>1, <3>2, <3>3, <1>m DEF CaptureInv, On, MicOff
  <2>. QED
    BY <2>2, <2>3
<1>3. CASE PressFails \/ ReleaseEnds \/ ResetDrops
  <2>1. Len(callbacks) = 0 /\ callbacks' = callbacks /\ mic' = MicOff
    <3>1. CASE PressFails
      <4>1. mic.captured = 0 /\ callbacks' = callbacks /\ mic' = MicOff
        BY <3>1 DEF PressFails
      <4>. QED
        BY <4>1, <1>m DEF Quiet, CaptureInv
    <3>2. CASE ReleaseEnds \/ ResetDrops
      <4>1. callbacks = <<>> /\ callbacks' = callbacks /\ mic' = MicOff
        BY <3>2 DEF ReleaseEnds, ResetDrops, CaptureStopped
      <4>. QED
        BY <4>1
    <3>. QED
      BY <1>3, <3>1, <3>2
  <2>. QED
    BY <2>1 DEF CaptureInv, MicOff, On
<1>4. CASE Capture
  <2>0. On /\ generation' = generation
    BY <1>4 DEF Capture, On, linkVars, sessionVars
  <2>1. mic' = [mic EXCEPT !.captured = @ + 1]
    BY <1>4 DEF Capture
  <2>2. /\ mic'.press = mic.press /\ mic'.generation = mic.generation
        /\ mic'.captured = mic.captured + 1
    BY <2>1, <1>m
  <2>3. PICK c \in Chunks : /\ callbacks' = Append(callbacks, c)
                           /\ c.press = mic.press /\ c.generation = mic.generation
                           /\ c.chunk = mic.captured + 1
    <3>1. [press |-> mic.press, chunk |-> mic.captured + 1, generation |-> mic.generation] \in Chunks
      <4>1. mic.captured + 1 \in 1..MaxChunks
        BY <1>4, <1>m, PttLinkAssumption DEF Capture, PttLinkAssumption
      <4>2. mic.press \in Presses /\ mic.generation \in 1..generation
        BY <2>0 DEF Quiet, CaptureInv
      <4>3. generation \in 0..MaxSessions
        BY DEF TypeOK
      <4>4. mic.generation \in 1..MaxSessions
        BY <4>2, <4>3, <1>m
      <4>. QED
        BY <4>1, <4>2, <4>4 DEF Chunks
    <3>. QED
      BY <1>4, <3>1 DEF Capture
  <2>4. /\ Len(callbacks') = Len(callbacks) + 1
        /\ \A i \in 1..Len(callbacks) : callbacks'[i] = callbacks[i]
        /\ callbacks'[Len(callbacks) + 1] = c
    BY <1>m, <2>3
  <2>5. mic.captured \in Nat
    BY <1>m, PttLinkAssumption DEF PttLinkAssumption
  <2>6. ASSUME NEW i \in 1..Len(callbacks')
        PROVE  /\ callbacks'[i].press = mic'.press
               /\ callbacks'[i].generation = mic'.generation
               /\ callbacks'[i].chunk + Len(callbacks') = mic'.captured + i
    <3>1. CASE i = Len(callbacks) + 1
      BY <1>m, <2>2, <2>3, <2>4, <2>5, <3>1
    <3>2. CASE i \in 1..Len(callbacks)
      <4>1. callbacks[i] \in Chunks
        BY <1>m, <3>2
      <4>3. callbacks[i].chunk \in 1..MaxChunks
        BY <4>1 DEF Chunks
      <4>2. callbacks[i].press = mic.press /\ callbacks[i].generation = mic.generation
            /\ callbacks[i].chunk + Len(callbacks) = mic.captured + i
        BY <3>2, <1>m DEF Quiet, CaptureInv
      <4>. QED
        <5>1. Len(callbacks) \in Nat /\ callbacks[i].chunk \in Int
          BY <1>m, <4>3
        <5>2. callbacks[i].chunk + (Len(callbacks) + 1) = (mic.captured + 1) + i
          BY ONLY <2>5, <4>2, <5>1, i \in 1..Len(callbacks')
        <5>3. callbacks'[i] = callbacks[i]
          BY <2>4, <3>2
        <5>. QED
          BY ONLY <2>2, <2>4, <4>2, <5>2, <5>3
    <3>. QED
      BY <1>m, <2>4, <3>1, <3>2
  <2>7. Len(callbacks') <= mic'.captured
    BY <1>m, <2>2, <2>4, <2>5 DEF Quiet, CaptureInv
  <2>8. mic' # MicOff
    BY <2>2, <2>5 DEF MicOff
  <2>. QED
    BY <2>0, <2>2, <2>6, <2>7, <2>8 DEF Quiet, CaptureInv, On
<1>5. CASE Transmit
  <2>1. /\ callbacks # <<>> /\ callbacks' = Tail(callbacks) /\ UNCHANGED <<mic, generation>>
    BY <1>5 DEF Transmit, sessionVars
  <2>2. /\ Len(callbacks') = Len(callbacks) - 1
        /\ \A i \in 1..Len(callbacks') : callbacks'[i] = callbacks[i + 1] /\ i + 1 \in 1..Len(callbacks)
    BY <1>m, <2>1
  <2>3. mic.captured \in Nat /\ \A i \in 1..Len(callbacks) : callbacks[i].chunk \in Nat
    <3>1. \A i \in 1..Len(callbacks) : callbacks[i] \in Chunks
      BY <1>m
    <3>. QED
      BY <1>m, <3>1, PttLinkAssumption, SMTT(30) DEF PttLinkAssumption, Chunks
  <2>4. \A i \in 1..Len(callbacks') :
           /\ callbacks'[i].press = mic.press
           /\ callbacks'[i].generation = mic.generation
           /\ callbacks'[i].chunk + Len(callbacks') = mic.captured + i
    <3>1. ASSUME NEW i \in 1..Len(callbacks')
          PROVE  /\ callbacks'[i].press = mic.press
                 /\ callbacks'[i].generation = mic.generation
                 /\ callbacks'[i].chunk + Len(callbacks') = mic.captured + i
      <4>1. callbacks'[i] = callbacks[i + 1] /\ i + 1 \in 1..Len(callbacks)
        BY <2>2
      <4>2. callbacks[i + 1].press = mic.press /\ callbacks[i + 1].generation = mic.generation
            /\ callbacks[i + 1].chunk + Len(callbacks) = mic.captured + (i + 1)
        BY <4>1 DEF Quiet, CaptureInv
      <4>3. callbacks[i + 1].chunk \in Nat
        BY <2>3, <4>1
      <4>. QED
        <5>1. Len(callbacks) \in Nat /\ mic.captured \in Nat
          BY <1>m, <2>3
        <5>2. callbacks[i + 1].chunk + (Len(callbacks) - 1) = mic.captured + i
          <6>1. i \in Int /\ callbacks[i + 1].chunk + Len(callbacks) = mic.captured + (i + 1)
            BY <4>2
          <6>. QED
            BY ONLY <6>1, <4>3, <5>1
        <5>. QED
          BY ONLY <2>2, <4>1, <4>2, <5>2
    <3>. QED
      BY <3>1
  <2>. QED
    BY <1>m, <2>1, <2>2, <2>3, <2>4 DEF Quiet, CaptureInv, On
<1>6. CASE Handshake
  <2>1. UNCHANGED <<mic, callbacks>> /\ generation' \in {generation, generation + 1}
    BY <1>6 DEF Handshake, clientVars
  <2>2. 1..generation \subseteq 1..generation'
    BY <1>m, <2>1
  <2>. QED
    BY <2>1, <2>2 DEF Quiet, CaptureInv, On
<1>. QED
  <2>1. CASE KeyDown \/ KeyUp \/ Move \/ Poll
    BY <1>1, <2>1, DeviceEdge DEF linkVars, sessionVars
  <2>2. CASE AircraftChanged \/ StopRuntime \/ Exit \/ PressIgnored \/ PressBegins \/ PressOpens
             \/ ReleaseIgnored \/ ReleaseBegins \/ ResetBegins \/ ResetEnds
             \/ Publish \/ Write \/ Disconnect \/ Connect \/ Leave
    BY <1>1, <2>2 DEF AircraftChanged, StopRuntime, Exit, PressIgnored, PressBegins, PressOpens,
       ReleaseIgnored, ReleaseBegins, ResetBegins, ResetEnds, Publish, Write, Disconnect,
       Connect, Leave, clientVars, linkVars, sessionVars
  <2>3. CASE Server
    BY <1>1, <2>3, ServerLocal DEF clientVars, sessionVars
  <2>4. CASE UNCHANGED vars
    BY <1>1, <2>4 DEF vars, clientVars, linkVars, sessionVars
  <2>. QED
    BY <1>2, <1>3, <1>4, <1>5, <1>6, <2>1, <2>2, <2>3, <2>4 DEF Next, Controller

\* What is scheduled behind the lock's holder changes nothing for it.
LEMMA HolderStays ==
    ASSUME HolderInv, UNCHANGED <<step, active, session_generation, mic>>,
           runtime # "off",
           tasks # <<>> => tasks' # <<>> /\ Head(tasks') = Head(tasks)
    PROVE  HolderInv'
  BY DEF HolderInv, Running, Releasing, On

LEMMA HolderStep ==
    ASSUME TypeOK, Quiet, [Next]_vars
    PROVE  HolderInv'
<1>t. /\ tasks \in Seq(Coroutine) /\ Task("reset", presses) \in Coroutine
      /\ Task("release", presses) \in Coroutine /\ Task("quit", presses) \in Coroutine
  BY DEF TypeOK, Coroutine, Task
<1>q. HolderInv /\ runtime \in {"on", "stopping", "off"} /\ (runtime = "off" => tasks = <<>>)
  BY DEF Quiet, TypeOK, LinkInv
<1>1. CASE KeyDown \/ KeyUp \/ Move \/ Poll
  <2>1. tasks' = tasks \/ \E t \in Coroutine : tasks' = Append(tasks, t)
    <3>1. CASE ReportPress
      <4>0. presses' \in 0..MaxPresses
        <5>1. MaxPresses \in Nat
          BY PttLinkAssumption DEF PttLinkAssumption
        <5>. QED
          BY <3>1, <5>1 DEF ReportPress, TypeOK
      <4>1. Task("press", presses') \in Coroutine
        BY <4>0 DEF Task, Coroutine
      <4>. QED
        BY <3>1, <4>1 DEF ReportPress
    <3>2. CASE ReportRelease
      BY <3>2, <1>t DEF ReportRelease
    <3>. QED
      BY <1>1, <3>1, <3>2, DeviceEdge
  <2>2. tasks # <<>> => tasks' # <<>> /\ Head(tasks') = Head(tasks)
    BY <1>t, <2>1, HeadTailAppend
  <2>. QED
    BY <1>1, <1>q, <2>2, HolderStays, DeviceEdge
<1>2. CASE AircraftChanged
  <2>1. tasks' = Append(tasks, Task("reset", presses))
    BY <1>2 DEF AircraftChanged
  <2>2. tasks # <<>> => tasks' # <<>> /\ Head(tasks') = Head(tasks)
    BY <1>t, <2>1
  <2>. QED
    BY <1>2, <1>q, <2>2, HolderStays DEF AircraftChanged
<1>3. CASE StopRuntime
  <2>1. PICK x \in Seq(Coroutine) : tasks' = tasks \o x
    <3>1. <<Task("quit", presses)>> \in Seq(Coroutine) /\ <<Task("release", presses)>> \in Seq(Coroutine)
          /\ <<>> \in Seq(Coroutine)
      BY <1>t
    <3>2. \A y \in Seq(Coroutine) :
             (tasks \o y) \o <<Task("quit", presses)>> = tasks \o (y \o <<Task("quit", presses)>>)
             /\ y \o <<Task("quit", presses)>> \in Seq(Coroutine)
      BY <1>t, <3>1, ConcatAssociative, ConcatProperties
    <3>. QED
      BY <1>3, <3>1, <3>2 DEF StopRuntime
  <2>2. tasks # <<>> => tasks' # <<>> /\ Head(tasks') = Head(tasks)
    <3>1. ASSUME tasks # <<>>
          PROVE  tasks' # <<>> /\ Head(tasks') = Head(tasks)
      <4>1. Len(tasks) \in Nat \ {0} /\ Len(tasks') = Len(tasks) + Len(x) /\ Len(x) \in Nat
            /\ tasks'[1] = tasks[1] /\ tasks' \in Seq(Coroutine)
        BY <1>t, <2>1, <3>1
      <4>. QED
        BY <1>t, <3>1, <4>1
    <3>. QED
      BY <3>1
  <2>. QED
    BY <1>3, <1>q, <2>2, HolderStays DEF StopRuntime
<1>4. CASE Exit
  BY <1>4, <1>q DEF Exit, HolderInv, On
<1>5. CASE PressIgnored \/ ReleaseIgnored \/ ResetEnds
  <2>1. step' = "ready" /\ UNCHANGED <<active, session_generation, mic, runtime>> /\ step # "open"
    BY <1>5 DEF PressIgnored, ReleaseIgnored, ResetEnds, Return, Running, Releasing, pilotVars
  <2>. QED
    BY <1>q, <2>1 DEF HolderInv, On
<1>6. CASE PressBegins \/ ReleaseBegins \/ ResetBegins
  BY <1>6, <1>q DEF PressBegins, ReleaseBegins, ResetBegins, HolderInv, On, Running, Releasing, pilotVars
<1>7. CASE PressSends
  <2>0. ~On /\ step = "interrupt" /\ ~active /\ active' = active /\ Running("press", "interrupt")
    BY <1>7, <1>q DEF PressSends, Running, HolderInv
  <2>1. CASE step' = "open"
    <3>1. /\ mic' = [press |-> Head(tasks).press, generation |-> generation, captured |-> 0]
          /\ UNCHANGED <<tasks, runtime>>
      BY <1>7, <2>1 DEF PressSends, Return, pilotVars
    <3>2. mic' # MicOff
      <4>1. generation \in Nat \ {0}
        BY <1>7, <2>1 DEF PressSends, Accepts, Return, Quiet, LinkInv
      <4>. QED
        BY <3>1, <4>1 DEF MicOff
    <3>. QED
      BY <2>0, <2>1, <3>1, <3>2 DEF HolderInv, Running, On
  <2>2. CASE step' = "ready" /\ mic' = mic
    BY <2>0, <2>2 DEF HolderInv, On
  <2>. QED
    BY <1>7, <2>1, <2>2 DEF PressSends, Return
<1>8. CASE PressOpens
  BY <1>8, <1>q DEF PressOpens, HolderInv, On, Return, Running
<1>9. CASE PressFails \/ ReleaseEnds
  <2>1. mic' = MicOff /\ ~active' /\ step' = "ready"
    BY <1>9, <1>q DEF PressFails, ReleaseEnds, CaptureStopped, Return, HolderInv, Running
  <2>. QED
    BY <2>1 DEF HolderInv, On
<1>10. CASE ResetDrops
  BY <1>10, <1>q DEF ResetDrops, CaptureStopped, HolderInv, On, Running
<1>11. CASE Capture
  <2>1. mic' = [mic EXCEPT !.captured = @ + 1] /\ On
    BY <1>11 DEF Capture, On
  <2>2. mic'.generation = mic.generation /\ mic' # MicOff
    <3>1. /\ mic \in [press: 0..MaxPresses, generation: 0..MaxSessions, captured: 0..MaxChunks]
          /\ mic.captured \in Nat
      BY PttLinkAssumption DEF TypeOK, PttLinkAssumption
    <3>2. mic'.generation = mic.generation /\ mic'.captured = mic.captured + 1
      BY <2>1, <3>1
    <3>. QED
      BY <3>1, <3>2 DEF MicOff
  <2>. QED
    BY <1>11, <1>q, <2>1, <2>2 DEF Capture, HolderInv, On, Running, Releasing, pilotVars
<1>12. CASE Transmit \/ Publish \/ Write \/ Disconnect \/ Connect \/ Handshake \/ Leave \/ Server
           \/ UNCHANGED vars
  <2>1. UNCHANGED <<pilotVars, tasks, step, active, session_generation, mic>>
    BY <1>12, ServerLocal DEF Transmit, Publish, Write, Disconnect, Connect, Handshake, Leave,
       clientVars, vars
  <2>. QED
    BY <1>q, <2>1 DEF HolderInv, On, Running, Releasing, pilotVars
<1>. QED
  BY <1>1, <1>2, <1>3, <1>4, <1>5, <1>6, <1>7, <1>8, <1>9, <1>10, <1>11, <1>12
     DEF Next, Controller

\* Coroutines that begin no turn may line up behind the others.
LEMMA PressAppend ==
    ASSUME TypeOK, PressInv, NEW x \in Seq(Coroutine), tasks' = tasks \o x,
           \A i \in 1..Len(x) : x[i].kind # "press" /\ x[i].press <= presses,
           UNCHANGED <<presses, step, mic, lost_ends>>
    PROVE  PressInv'
<1>1. /\ tasks \in Seq(Coroutine) /\ Len(tasks') = Len(tasks) + Len(x)
      /\ Len(tasks) \in Nat /\ Len(x) \in Nat
      /\ \A i \in 1..Len(tasks) : tasks'[i] = tasks[i]
      /\ \A i \in 1..Len(x) : tasks'[Len(tasks) + i] = x[i]
  <2>1. tasks \in Seq(Coroutine)
    BY DEF TypeOK, Coroutine
  <2>. QED
    BY <2>1
<1>2. \A i \in 1..Len(tasks') :
        i \notin 1..Len(tasks) => tasks'[i].kind # "press" /\ tasks'[i].press <= presses
  <2>1. ASSUME NEW i \in 1..Len(tasks'), i \notin 1..Len(tasks)
        PROVE  tasks'[i].kind # "press" /\ tasks'[i].press <= presses
    <3>1. i - Len(tasks) \in 1..Len(x) /\ i = Len(tasks) + (i - Len(tasks))
      BY <1>1, <2>1
    <3>. QED
      BY <1>1, <3>1
  <2>. QED
    BY <2>1
<1>3. \A i \in 1..Len(tasks') : Waiting(i)' => i \in 1..Len(tasks) /\ Waiting(i)
  BY <1>1, <1>2 DEF Waiting
<1>4. \A i \in 1..Len(tasks') : tasks'[i].press <= presses'
  BY <1>1, <1>2 DEF PressInv
<1>5. ASSUME NEW i \in 1..Len(tasks'), Waiting(i)'
      PROVE  /\ tasks'[i].press > mic'.press
             /\ \A p \in lost_ends' : p < tasks'[i].press
             /\ \A j \in 1..Len(tasks') : i < j /\ tasks'[j].kind = "press" =>
                  tasks'[i].press < tasks'[j].press
  <2>1. i \in 1..Len(tasks) /\ Waiting(i) /\ tasks'[i] = tasks[i]
    BY <1>1, <1>3, <1>5
  <2>2. ASSUME NEW j \in 1..Len(tasks'), i < j, tasks'[j].kind = "press"
        PROVE  tasks'[i].press < tasks'[j].press
    <3>1. j \in 1..Len(tasks) /\ tasks'[j] = tasks[j]
      BY <1>1, <1>2, <2>2
    <3>. QED
      BY <2>1, <2>2, <3>1 DEF PressInv
  <2>. QED
    BY <2>1, <2>2 DEF PressInv
<1>6. On' = On
  BY DEF On
<1>. QED
  BY <1>4, <1>5, <1>6 DEF PressInv

\* The turn of the lock's holder is over, with its end queued or lost.
LEMMA PressReturn ==
    ASSUME TypeOK, PressInv, tasks # <<>>, tasks' = Tail(tasks), step' = "ready",
           UNCHANGED presses,
           \/ UNCHANGED <<mic, lost_ends>>
           \/ mic' = MicOff /\ On /\ lost_ends' \subseteq lost_ends \cup {mic.press}
    PROVE  PressInv'
<1>1. /\ tasks \in Seq(Coroutine) /\ Len(tasks') = Len(tasks) - 1 /\ Len(tasks) \in Nat \ {0}
      /\ \A i \in 1..Len(tasks') : tasks'[i] = tasks[i + 1] /\ i + 1 \in 1..Len(tasks)
  BY DEF TypeOK, Coroutine
<1>2. \A i \in 1..Len(tasks') : Waiting(i)' => Waiting(i + 1)
  BY <1>1 DEF Waiting
<1>3. mic.press \in Nat /\ presses \in Nat
  BY PttLinkAssumption DEF TypeOK, PttLinkAssumption
<1>4. CASE UNCHANGED <<mic, lost_ends>>
  BY <1>1, <1>2, <1>4 DEF PressInv, On
<1>5. CASE mic' = MicOff /\ On /\ lost_ends' \subseteq lost_ends \cup {mic.press}
  <2>1. mic'.press = 0 /\ ~On'
    BY <1>5 DEF MicOff, On
  <2>2. \A i \in 1..Len(tasks') : Waiting(i)' =>
          /\ tasks'[i].press > mic.press
          /\ \A p \in lost_ends' : p < tasks'[i].press
          /\ \A j \in 1..Len(tasks') : i < j /\ tasks'[j].kind = "press" =>
               tasks'[i].press < tasks'[j].press
    BY <1>1, <1>2, <1>5 DEF PressInv
  <2>3. \A i \in 1..Len(tasks') : tasks'[i].press \in Nat
    <3>1. \A i \in 1..Len(tasks) : tasks[i] \in Coroutine
      BY <1>1
    <3>. QED
      BY <1>1, <3>1 DEF Coroutine
  <2>4. \A i \in 1..Len(tasks') : Waiting(i)' => tasks'[i].press > 0
    BY <1>3, <2>2, <2>3
  <2>. QED
    BY <1>1, <1>3, <1>5, <2>1, <2>2, <2>4 DEF PressInv
<1>. QED
  BY <1>4, <1>5

LEMMA PressStep ==
    ASSUME TypeOK, Quiet, [Next]_vars
    PROVE  PressInv'
<1>t. /\ tasks \in Seq(Coroutine) /\ Task("reset", presses) \in Coroutine
      /\ Task("release", presses) \in Coroutine /\ Task("quit", presses) \in Coroutine
  BY DEF TypeOK, Coroutine, Task
<1>q. PressInv /\ presses \in Nat /\ mic.press \in Nat
  BY PttLinkAssumption DEF Quiet, TypeOK, PttLinkAssumption
<1>k. \A k \in {"reset", "release", "quit"} :
        /\ <<Task(k, presses)>> \in Seq(Coroutine)
        /\ \A i \in 1..Len(<<Task(k, presses)>>) :
             /\ <<Task(k, presses)>>[i].kind # "press"
             /\ <<Task(k, presses)>>[i].press <= presses
  BY <1>t, <1>q DEF Task
<1>1. CASE ReportPress /\ UNCHANGED <<step, mic, lost_ends>>
  <2>1. presses' = presses + 1 /\ tasks' = Append(tasks, Task("press", presses + 1))
    BY <1>1 DEF ReportPress
  <2>2. /\ Len(tasks') = Len(tasks) + 1 /\ Len(tasks) \in Nat
        /\ \A i \in 1..Len(tasks) : tasks'[i] = tasks[i]
        /\ tasks'[Len(tasks) + 1].press = presses + 1
    BY <1>t, <2>1 DEF Task
  <2>3. \A i \in 1..Len(tasks) : Waiting(i)' <=> Waiting(i)
    BY <1>1, <2>2 DEF Waiting
  <2>4. \A i \in 1..Len(tasks) : tasks[i].press \in Nat
    <3>1. \A i \in 1..Len(tasks) : tasks[i] \in Coroutine
      BY <1>t
    <3>. QED
      BY <3>1 DEF Coroutine
  <2>5. lost_ends \subseteq Nat
    BY DEF TypeOK, Presses
  <2>6. ASSUME NEW i \in 1..Len(tasks'), Waiting(i)'
        PROVE  /\ tasks'[i].press > mic'.press
               /\ \A p \in lost_ends' : p < tasks'[i].press
               /\ \A j \in 1..Len(tasks') : i < j /\ tasks'[j].kind = "press" =>
                    tasks'[i].press < tasks'[j].press
    <3>1. CASE i = Len(tasks) + 1
      BY <1>1, <1>q, <2>1, <2>2, <2>5, <3>1 DEF PressInv
    <3>2. CASE i \in 1..Len(tasks)
      <4>1. Waiting(i)
        BY <2>3, <2>6, <3>2
      <4>2. ASSUME NEW j \in 1..Len(tasks'), i < j, tasks'[j].kind = "press"
            PROVE  tasks'[i].press < tasks'[j].press
        <5>1. CASE j = Len(tasks) + 1
          BY <1>q, <2>2, <2>4, <3>2, <5>1 DEF PressInv
        <5>2. CASE j \in 1..Len(tasks)
          BY <1>q, <2>2, <3>2, <4>1, <4>2, <5>2 DEF PressInv
        <5>. QED
          BY <2>2, <5>1, <5>2
      <4>. QED
        BY <1>1, <1>q, <2>2, <3>2, <4>1, <4>2 DEF PressInv
    <3>. QED
      BY <2>2, <3>1, <3>2
  <2>7. \A i \in 1..Len(tasks') : tasks'[i].press <= presses'
    BY <1>q, <2>1, <2>2, <2>4 DEF PressInv
  <2>. QED
    BY <1>1, <1>q, <2>1, <2>5, <2>6, <2>7 DEF PressInv, On
<1>2. CASE KeyDown \/ KeyUp \/ Move \/ Poll
  <2>1. UNCHANGED <<step, mic, lost_ends>>
    BY <1>2, DeviceEdge
  <2>2. CASE ReportRelease
    <3>1. tasks' = tasks \o <<Task("release", presses)>> /\ presses' = presses
      BY <1>t, <2>2, AppendIsConcat DEF ReportRelease
    <3>. QED
      BY <1>k, <1>q, <2>1, <3>1, PressAppend
  <2>3. CASE UNCHANGED <<pressed, presses, tasks>>
    BY <1>q, <2>1, <2>3 DEF PressInv, Waiting, On
  <2>. QED
    BY <1>1, <1>2, <2>1, <2>2, <2>3, DeviceEdge
<1>3. CASE AircraftChanged
  <2>1. tasks' = tasks \o <<Task("reset", presses)>> /\ UNCHANGED <<presses, step, mic, lost_ends>>
    BY <1>t, <1>3, AppendIsConcat DEF AircraftChanged
  <2>. QED
    BY <1>k, <1>q, <2>1, PressAppend
<1>4. CASE StopRuntime
  <2>0. UNCHANGED <<presses, step, mic, lost_ends>>
    BY <1>4 DEF StopRuntime
  <2>1. CASE pressed
    <3>1. tasks' = (tasks \o <<Task("release", presses)>>) \o <<Task("quit", presses)>>
      BY <1>4, <2>1 DEF StopRuntime
    <3>. DEFINE x == <<Task("release", presses)>> \o <<Task("quit", presses)>>
    <3>2. tasks' = tasks \o x /\ x \in Seq(Coroutine)
      BY <1>t, <1>k, <3>1, ConcatAssociative, ConcatProperties
    <3>3. \A i \in 1..Len(x) : x[i].kind # "press" /\ x[i].press <= presses
      BY <1>t, <1>q DEF Task
    <3>. QED
      BY <1>q, <2>0, <3>2, <3>3, PressAppend
  <2>2. CASE ~pressed
    <3>1. tasks' = tasks \o <<Task("quit", presses)>>
      BY <1>4, <1>t, <2>2, ConcatEmptySeq DEF StopRuntime
    <3>. QED
      BY <1>k, <1>q, <2>0, <3>1, PressAppend
  <2>. QED
    BY <2>1, <2>2
<1>5. CASE Exit
  <2>1. tasks' = <<>> /\ UNCHANGED <<presses, mic, lost_ends>> /\ Len(tasks') = 0
    BY <1>5 DEF Exit
  <2>. QED
    BY <1>q, <2>1 DEF PressInv, On
<1>6. CASE PressIgnored \/ ReleaseIgnored \/ ResetEnds \/ PressOpens
  BY <1>6, <1>q, PressReturn DEF PressIgnored, ReleaseIgnored, ResetEnds, PressOpens, Return,
     Running, Releasing, pilotVars
<1>7. CASE PressBegins \/ ReleaseBegins \/ ResetBegins
  <2>1. UNCHANGED <<tasks, presses, mic, lost_ends>> /\ step = "ready" /\ step' # "open"
    BY <1>7 DEF PressBegins, ReleaseBegins, ResetBegins, Running, Releasing, pilotVars
  <2>. QED
    BY <1>q, <2>1 DEF PressInv, Waiting, On
<1>8. CASE PressSends
  <2>1. Running("press", "interrupt") /\ UNCHANGED <<presses, lost_ends>>
    BY <1>8 DEF PressSends, pilotVars
  <2>2. CASE Return /\ mic' = mic
    BY <1>q, <2>1, <2>2, PressReturn DEF Return, Running
  <2>3. CASE ~(Return /\ mic' = mic)
    <3>1. step' = "open" /\ tasks' = tasks /\ mic'.press = Head(tasks).press
      BY <1>8, <2>3 DEF PressSends
    <3>2. /\ Len(tasks) \in Nat \ {0} /\ Head(tasks) = tasks[1] /\ 1 \in 1..Len(tasks)
          /\ Waiting(1)
      BY <1>t, <2>1 DEF Running, Waiting
    <3>3. \A i \in 1..Len(tasks) : Waiting(i)' => i # 1 /\ Waiting(i)
      BY <3>1, <3>2 DEF Waiting
    <3>4. tasks[1].press <= presses /\ \A p \in lost_ends : p < tasks[1].press
      BY <1>q, <3>2 DEF PressInv
    <3>5. \A i \in 1..Len(tasks) : Waiting(i)' => tasks[i].press > tasks[1].press
      <4>1. ASSUME NEW i \in 1..Len(tasks), Waiting(i)'
            PROVE  tasks[i].press > tasks[1].press
        <5>1. 1 < i /\ tasks[i].kind = "press"
          BY <3>3, <4>1 DEF Waiting
        <5>2. tasks[1].press < tasks[i].press
          BY <1>q, <3>2, <5>1 DEF PressInv
        <5>3. tasks[i] \in Coroutine /\ tasks[1] \in Coroutine
          BY <1>t, <3>2
        <5>. QED
          BY <5>2, <5>3 DEF Coroutine
      <4>. QED
        BY <4>1
    <3>. QED
      BY <1>q, <2>1, <3>1, <3>2, <3>3, <3>4, <3>5 DEF PressInv
  <2>. QED
    BY <2>2, <2>3
<1>9. CASE PressFails \/ ReleaseEnds
  <2>1. On
    BY <1>9 DEF PressFails, ReleaseEnds, Quiet, HolderInv, Running, Releasing
  <2>2. /\ tasks # <<>> /\ tasks' = Tail(tasks) /\ step' = "ready" /\ presses' = presses
        /\ mic' = MicOff /\ lost_ends' \subseteq lost_ends \cup {mic.press}
    BY <1>9 DEF PressFails, ReleaseEnds, CaptureStopped, Unended, Running, Releasing, Return, pilotVars
  <2>. QED
    BY <1>q, <2>1, <2>2, PressReturn
<1>10. CASE ResetDrops
  <2>1. On
    BY <1>10 DEF ResetDrops, Quiet, HolderInv, Running
  <2>2. /\ UNCHANGED <<presses, tasks>> /\ step' = "silence" /\ step = "drop"
        /\ mic' = MicOff /\ lost_ends' \subseteq lost_ends \cup {mic.press}
    BY <1>10 DEF ResetDrops, CaptureStopped, Unended, Running, pilotVars
  <2>3. \A i \in 1..Len(tasks) : Waiting(i)' => Waiting(i)
    BY <2>2 DEF Waiting
  <2>4. mic'.press = 0 /\ ~On'
    BY <2>2 DEF MicOff, On
  <2>5. \A i \in 1..Len(tasks) : tasks[i].press \in Nat
    <3>1. \A i \in 1..Len(tasks) : tasks[i] \in Coroutine
      BY <1>t
    <3>. QED
      BY <3>1 DEF Coroutine
  <2>6. \A i \in 1..Len(tasks) : Waiting(i)' =>
          /\ tasks[i].press > 0
          /\ \A p \in lost_ends' : p < tasks[i].press
    BY <1>q, <2>2, <2>3, <2>5 DEF PressInv
  <2>. QED
    BY <1>q, <2>1, <2>2, <2>3, <2>4, <2>6 DEF PressInv
<1>11. CASE Capture
  <2>1. /\ UNCHANGED <<tasks, step, presses, lost_ends>> /\ On
        /\ mic' = [mic EXCEPT !.captured = @ + 1]
    BY <1>11 DEF Capture, On, pilotVars
  <2>2. mic'.press = mic.press
    BY <2>1 DEF TypeOK
  <2>. QED
    BY <1>q, <2>1, <2>2 DEF PressInv, Waiting
<1>12. CASE Transmit \/ Publish \/ Write \/ Disconnect \/ Connect \/ Handshake \/ Leave \/ Server
           \/ UNCHANGED vars
  <2>1. UNCHANGED <<presses, tasks, step, mic, lost_ends>>
    BY <1>12, ServerLocal DEF Transmit, Publish, Write, Disconnect, Connect, Handshake, Leave,
       pilotVars, clientVars, vars
  <2>. QED
    BY <1>q, <2>1 DEF PressInv, Waiting, On
<1>. QED
  BY <1>2, <1>3, <1>4, <1>5, <1>6, <1>7, <1>8, <1>9, <1>10, <1>11, <1>12 DEF Next, Controller

LEMMA EnqueueOfSession ==
    ASSUME NEW q \in Seq(Frames), NEW f \in Frames, NEW g, OfSession(q, g),
           f.kind = "audio" => f.chunk.generation = g
    PROVE  /\ OfSession(Append(q, f), g) /\ OfSession(Enqueue(f, q), g)
           /\ Enqueue(f, q) \in Seq(Frames)
           /\ ~ready => Enqueue(f, q) = q
<1>1. OfSession(Append(q, f), g)
  BY DEF OfSession
<1>. QED
  BY <1>1 DEF Enqueue, Accepts

\* What the client queues is of this session, and it queues nothing without one.
LEMMA LinkAppends ==
    ASSUME LinkInv, UNCHANGED <<sessionVars, wire, serverVars, runtime>>,
           runtime = "off" => tasks' = <<>>,
           OfSession(outbound', generation), ~ready => outbound' = outbound
    PROVE  LinkInv'
  BY DEF LinkInv, sessionVars, serverVars

LEMMA LinkStep ==
    ASSUME TypeOK, Quiet, [Next]_vars
    PROVE  LinkInv'
<1>q. /\ LinkInv /\ generation \in Nat /\ outbound \in Seq(Frames) /\ wire \in Seq(Frames)
      /\ audio_buffer \in Seq(Chunks)
      /\ ready \in BOOLEAN /\ handshaking \in BOOLEAN /\ ~(ready /\ handshaking)
      /\ runtime \in {"on", "stopping", "off"} /\ ptt_active \in BOOLEAN
  BY DEF Quiet, TypeOK
<1>s. OfSession(outbound, generation) /\ OfSession(wire, generation)
  BY <1>q DEF LinkInv
<1>1. CASE KeyDown \/ KeyUp \/ Move \/ Poll \/ AircraftChanged
  <2>1. UNCHANGED <<linkVars, serverVars, runtime>> /\ runtime # "off"
    BY <1>1, DeviceEdge DEF AircraftChanged
  <2>. QED
    BY <1>q, <2>1 DEF LinkInv, linkVars, sessionVars, serverVars
<1>2. CASE StopRuntime
  BY <1>2, <1>q DEF StopRuntime, LinkInv, linkVars, sessionVars, serverVars
<1>3. CASE Exit
  BY <1>3, <1>q DEF Exit, LinkInv, linkVars, sessionVars, serverVars
<1>4. CASE PressIgnored \/ PressBegins \/ PressOpens \/ ReleaseIgnored \/ ReleaseBegins
           \/ ResetBegins \/ ResetDrops \/ ResetEnds
  <2>1. UNCHANGED <<linkVars, serverVars, runtime>> /\ tasks # <<>>
    BY <1>4 DEF PressIgnored, PressBegins, PressOpens, ReleaseIgnored, ReleaseBegins, ResetBegins,
       ResetDrops, ResetEnds, Running, Releasing, pilotVars
  <2>. QED
    BY <1>q, <2>1 DEF LinkInv, linkVars, sessionVars, serverVars
<1>5. CASE PressSends
  <2>1. tasks # <<>> /\ runtime # "off" /\ UNCHANGED <<sessionVars, wire, serverVars, runtime>>
    BY <1>5, <1>q DEF PressSends, Running, pilotVars, LinkInv
  <2>2. PICK i \in Frames, e \in Frames :
          /\ outbound' = Enqueue(e, Enqueue(i, outbound))
          /\ i.kind # "audio" /\ e.kind # "audio"
    <3>1. Head(tasks).press \in Presses
      <4>1. tasks \in Seq(Coroutine) /\ tasks # <<>> /\ Head(tasks).kind = "press" /\ step = "interrupt"
        BY <1>5 DEF PressSends, Running, TypeOK, Coroutine
      <4>2. Head(tasks) = tasks[1] /\ tasks[1] \in Coroutine /\ 1 \in 1..Len(tasks)
        BY <4>1
      <4>3. mic.press \in Nat
        BY PttLinkAssumption DEF TypeOK, PttLinkAssumption
      <4>. QED
        BY <4>1, <4>2, <4>3, PttLinkAssumption DEF Quiet, PressInv, Waiting, Coroutine, Presses, PttLinkAssumption
    <3>2. /\ Control("interrupt", Head(tasks).press) \in Frames
          /\ Control("interrupt", Head(tasks).press).kind # "audio"
          /\ Control("start", Head(tasks).press) \in Frames
          /\ Control("start", Head(tasks).press).kind # "audio"
      BY <3>1, FrameKinds
    <3>3. outbound' = Enqueue(Control("start", Head(tasks).press),
                              Enqueue(Control("interrupt", Head(tasks).press), outbound))
      BY <1>5 DEF PressSends
    <3>. QED
      BY <3>2, <3>3
  <2>3. /\ OfSession(Enqueue(i, outbound), generation) /\ Enqueue(i, outbound) \in Seq(Frames)
        /\ ~ready => Enqueue(i, outbound) = outbound
    BY <1>q, <1>s, <2>2, EnqueueOfSession
  <2>4. OfSession(outbound', generation) /\ (~ready => outbound' = outbound)
    BY <2>2, <2>3, EnqueueOfSession
  <2>. QED
    BY <1>q, <2>1, <2>4, LinkAppends
<1>6. CASE PressFails \/ ReleaseEnds
  <2>1. tasks # <<>> /\ runtime # "off" /\ UNCHANGED <<sessionVars, wire, serverVars, runtime>>
    BY <1>6, <1>q DEF PressFails, ReleaseEnds, Running, Releasing, pilotVars, LinkInv
  <2>2. mic.press \in Presses
    BY <1>6 DEF Quiet, HolderInv, CaptureInv, PressFails, ReleaseEnds, Running, Releasing
  <2>3. /\ Control("end", mic.press) \in Frames /\ Control("end", mic.press).kind # "audio"
        /\ Control("end", mic.press).kind = "end"
    BY <2>2, FrameKinds
  <2>4. outbound' = outbound \/ outbound' = Enqueue(Control("end", mic.press), outbound)
    BY <1>6, <2>3 DEF PressFails, ReleaseEnds, Enqueue
  <2>5. OfSession(outbound', generation) /\ (~ready => outbound' = outbound)
    BY <1>q, <1>s, <2>3, <2>4, EnqueueOfSession
  <2>. QED
    BY <1>q, <2>1, <2>5, LinkAppends
<1>7. CASE Capture
  BY <1>7, <1>q DEF Capture, LinkInv, pilotVars, linkVars, sessionVars, serverVars
<1>8. CASE Transmit
  <2>1. UNCHANGED <<sessionVars, wire, serverVars, runtime, tasks>>
    BY <1>8 DEF Transmit, pilotVars
  <2>2. Head(callbacks) \in Chunks
    BY <1>8 DEF Transmit, TypeOK
  <2>3. /\ Audio(Head(callbacks)) \in Frames
        /\ Audio(Head(callbacks)).chunk = Head(callbacks)
    BY <2>2, FrameKinds
  <2>4. \/ outbound' = outbound
        \/ /\ outbound' = Enqueue(Audio(Head(callbacks)), outbound)
           /\ Head(callbacks).generation = generation
    BY <1>8 DEF Transmit, MayTransmit
  <2>5. OfSession(outbound', generation) /\ (~ready => outbound' = outbound)
    BY <1>q, <1>s, <2>3, <2>4, EnqueueOfSession
  <2>. QED
    BY <1>q, <2>1, <2>5, LinkAppends DEF LinkInv
<1>9. CASE Publish
  <2>1. UNCHANGED <<sessionVars, wire, serverVars, runtime, tasks>> /\ ready
    BY <1>9 DEF Publish, Accepts, pilotVars, clientVars
  <2>2. OfSession(outbound', generation)
    BY <1>9, <1>q, <1>s, FrameKinds, EnqueueOfSession DEF Publish
  <2>. QED
    BY <1>q, <2>1, <2>2, LinkAppends DEF LinkInv
<1>10. CASE Write
  <2>1. /\ ready /\ outbound # <<>> /\ wire' = Append(wire, Head(outbound))
        /\ outbound' = Tail(outbound)
        /\ UNCHANGED <<runtime, tasks, sessionVars, serverVars>>
    BY <1>10 DEF Write, pilotVars, clientVars
  <2>2. OfSession(wire', generation)
    <3>1. Head(outbound) \in Frames /\ Head(outbound) = outbound[1] /\ 1 \in 1..Len(outbound)
      BY <1>q, <2>1
    <3>2. Head(outbound).kind = "audio" => Head(outbound).chunk.generation = generation
      BY <1>s, <3>1 DEF OfSession
    <3>. QED
      BY <1>q, <1>s, <2>1, <3>1, <3>2, EnqueueOfSession
  <2>3. OfSession(outbound', generation)
    BY <1>q, <1>s, <2>1 DEF OfSession
  <2>. QED
    BY <1>q, <2>1, <2>2, <2>3 DEF LinkInv, sessionVars, serverVars
<1>11. CASE Disconnect
  <2>1. OfSession(<<>>, generation)
    BY DEF OfSession
  <2>. QED
    BY <1>11, <1>q, <2>1 DEF Disconnect, LinkInv, pilotVars, clientVars
<1>12. CASE Connect
  BY <1>12, <1>q DEF Connect, LinkInv, pilotVars, clientVars, serverVars
<1>13. CASE Handshake
  <2>1. wire = <<>> /\ outbound = <<>> /\ audio_buffer = <<>> /\ ~ptt_active /\ ~ready /\ runtime # "off"
    BY <1>13, <1>q DEF Handshake, LinkInv
  <2>2. OfSession(<<>>, generation')
    BY DEF OfSession
  <2>. QED
    BY <1>13, <1>q, <2>1, <2>2 DEF Handshake, LinkInv, pilotVars, clientVars, serverVars
<1>14. CASE Leave
  <2>1. OfSession(wire', generation)
    BY <1>14, <1>q, <1>s, FrameKinds, EnqueueOfSession DEF Leave, Farewell
  <2>2. OfSession(<<>>, generation)
    BY DEF OfSession
  <2>. QED
    BY <1>14, <1>q, <2>1, <2>2 DEF Leave, LinkInv, pilotVars, clientVars, serverVars
<1>15. CASE Server
  <2>1. /\ wire # <<>> /\ wire' = Tail(wire)
        /\ UNCHANGED <<runtime, tasks, sessionVars, outbound>>
    BY <1>15, ServerLocal DEF pilotVars, clientVars
  <2>2. OfSession(wire', generation)
    BY <1>q, <1>s, <2>1 DEF OfSession
  <2>3. /\ ~ptt_active' => audio_buffer' = <<>>
        /\ \/ audio_buffer' = audio_buffer \/ audio_buffer' = <<>>
           \/ Head(wire).kind = "audio" /\ audio_buffer' = Append(audio_buffer, Head(wire).chunk)
    BY <1>15, <1>q DEF Server, StartPtt, HandleMedia, EndPtt, EndSession, HandleOther,
       ResetUtterance, Received, LinkInv, serverVars
  <2>4. \A k \in 1..Len(audio_buffer') : audio_buffer'[k].generation = generation
    <3>1. \A k \in 1..Len(audio_buffer) : audio_buffer[k].generation = generation
      BY <1>q DEF LinkInv
    <3>2. CASE audio_buffer' = audio_buffer \/ audio_buffer' = <<>>
      BY <3>1, <3>2
    <3>3. CASE Head(wire).kind = "audio" /\ audio_buffer' = Append(audio_buffer, Head(wire).chunk)
      <4>1. Head(wire) \in Frames /\ Head(wire) = wire[1] /\ 1 \in 1..Len(wire)
        BY <1>q, <2>1
      <4>2. Head(wire).chunk \in Chunks /\ Head(wire).chunk.generation = generation
        BY <1>s, <3>3, <4>1, FrameKinds DEF OfSession
      <4>. QED
        BY <1>q, <3>1, <3>3, <4>2
    <3>. QED
      BY <2>3, <3>2, <3>3
  <2>5. ~(handshaking \/ (~ready /\ runtime = "on"))
    BY <1>q, <2>1 DEF LinkInv
  <2>. QED
    BY <1>q, <2>1, <2>2, <2>3, <2>4, <2>5 DEF LinkInv, sessionVars
<1>16. CASE UNCHANGED vars
  BY <1>16, <1>q DEF LinkInv, vars, pilotVars, clientVars, linkVars, sessionVars, serverVars
<1>. QED
  BY <1>1, <1>2, <1>3, <1>4, <1>5, <1>6, <1>7, <1>8, <1>9, <1>10, <1>11, <1>12, <1>13, <1>14,
     <1>15, <1>16 DEF Next, Controller

------------------------------------------------------------------------------
(* What is in the pipe.                                                    *)

PipeInv == OrderInv /\ WholeInv /\ EndInv /\ FramesInOrder /\ UtterancesWhole

LEMMA PipeTyped ==
    ASSUME TypeOK
    PROVE  /\ Pipe \in Seq(Frames) /\ Len(Pipe) \in Nat
           /\ wire \in Seq(Frames) /\ outbound \in Seq(Frames)
           /\ ptt_active \in BOOLEAN /\ audio_buffer \in Seq(Chunks)
           /\ callbacks \in Seq(Chunks) /\ Len(callbacks) \in Nat
           /\ mic \in [press: 0..MaxPresses, generation: 0..MaxSessions, captured: 0..MaxChunks]
           /\ mic.press \in Nat /\ mic.captured \in Nat
<1>1. MaxPresses \in Nat /\ MaxSessions \in Nat /\ MaxChunks \in Nat
  BY PttLinkAssumption DEF PttLinkAssumption
<1>2. /\ wire \in Seq(Frames) /\ outbound \in Seq(Frames)
      /\ ptt_active \in BOOLEAN /\ audio_buffer \in Seq(Chunks)
      /\ callbacks \in Seq(Chunks)
      /\ mic \in [press: 0..MaxPresses, generation: 0..MaxSessions, captured: 0..MaxChunks]
  BY DEF TypeOK
<1>3. Pipe \in Seq(Frames)
  BY <1>2 DEF Pipe
<1>. QED
  BY <1>1, <1>2, <1>3

\* More lost ends leave what was received as acceptable as it was.
LEMMA ReceivedMore ==
    ASSUME FramesInOrder, UtterancesWhole, lost_ends \subseteq lost_ends',
           UNCHANGED <<rejected, utterances>>
    PROVE  FramesInOrder' /\ UtterancesWhole'
  BY DEF FramesInOrder, UtterancesWhole

\* The pipe is as it was, and so is what decides about its end.
LEMMA PipeStays ==
    ASSUME PipeInv, Pipe' = Pipe,
           UNCHANGED <<ptt_active, audio_buffer, utterances, rejected, lost_ends>>,
           \/ ~ready'
           \/ UNCHANGED <<mic, callbacks, ready, generation>>
    PROVE  PipeInv'
<1>1. OrderInv' /\ WholeInv'
  BY DEF PipeInv, OrderInv, WholeInv
<1>2. FramesInOrder' /\ UtterancesWhole'
  BY ReceivedMore DEF PipeInv
<1>3. EndInv'
  BY DEF PipeInv, EndInv, Live, On
<1>. QED
  BY <1>1, <1>2, <1>3 DEF PipeInv

\* A frame that is neither of a turn nor audio changes nothing for the turns.
LEMMA AppendIdle ==
    ASSUME NEW s \in Seq(Frames), NEW f \in Frames, NEW a \in BOOLEAN, NEW b \in Seq(Chunks),
           NEW lost, f.kind \in {"interrupt", "telemetry"},
           Ordered(s, a, lost), Whole(s, b, lost)
    PROVE  /\ Ordered(Append(s, f), a, lost) /\ Whole(Append(s, f), b, lost)
           /\ Open(Append(s, f), a, Len(Append(s, f)) + 1) <=> Open(s, a, Len(s) + 1)
           /\ \A c \in Chunks : Pending(Append(s, f), b, c) => Pending(s, b, c)
<1>1. /\ Ordered(Append(s, f), a, lost) /\ Whole(Append(s, f), b, lost)
  BY OrderedAppend, WholeAppend
<1>2. Open(Append(s, f), a, Len(s) + 2) <=> After(Open(s, a, Len(s) + 1), f)
  BY OpenAppended
<1>3. \A c \in Chunks : f # Audio(c)
  BY FrameKinds
<1>4. Len(Append(s, f)) + 1 = Len(s) + 2 /\ f.kind \notin Closing /\ f.kind # "start"
  BY DEF Closing
<1>. QED
  BY <1>1, <1>2, <1>3, <1>4, PendingAppend DEF After

\* The capture is off: its turn's end is queued, or lost unless the session is.
LEMMA TurnOver ==
    ASSUME TypeOK, Quiet, PipeInv, On, mic' = MicOff,
           UNCHANGED <<wire, sessionVars, serverVars>>,
           \/ /\ lost_ends' = lost_ends
              /\ \E e \in Frames : e.kind = "end" /\ outbound' = Append(outbound, e)
           \/ /\ outbound' = outbound
              /\ lost_ends' = IF generation # mic.generation THEN lost_ends
                              ELSE lost_ends \cup {mic.press}
    PROVE  PipeInv'
<1>1. lost_ends \subseteq lost_ends'
  OBVIOUS
<1>2. FramesInOrder' /\ UtterancesWhole'
  BY <1>1, ReceivedMore DEF PipeInv, serverVars
<1>3. ~Live' /\ UNCHANGED <<ready, ptt_active, audio_buffer>>
  BY DEF Live, On, MicOff, sessionVars, serverVars
<1>4. ASSUME NEW e \in Frames, e.kind = "end", outbound' = Append(outbound, e),
             lost_ends' = lost_ends
      PROVE  OrderInv' /\ WholeInv' /\ EndInv'
  <2>1. Pipe' = Append(Pipe, e)
    BY <1>4, PipeTyped, Pipes DEF Pipe
  <2>2. OrderInv' /\ WholeInv'
    BY <1>3, <1>4, <2>1, PipeTyped, OrderedAppend, WholeAppend DEF PipeInv, OrderInv, WholeInv
  <2>3. ~Open(Pipe', ptt_active', Len(Pipe') + 1)
    BY <1>3, <1>4, <2>1, PipeTyped, OpenAppended DEF After, Closing
  <2>4. \A c \in Chunks : ~Pending(Pipe', audio_buffer', c)
    BY <1>3, <1>4, <2>1, PipeTyped, PendingAppend DEF Closing
  <2>. QED
    BY <1>3, <2>2, <2>3, <2>4 DEF EndInv
<1>5. ASSUME outbound' = outbound,
             lost_ends' = IF generation # mic.generation THEN lost_ends
                          ELSE lost_ends \cup {mic.press}
      PROVE  OrderInv' /\ WholeInv' /\ EndInv'
  <2>1. Pipe' = Pipe
    BY <1>5 DEF Pipe
  <2>2. OrderInv' /\ WholeInv'
    BY <1>1, <1>3, <2>1, MoreLost DEF PipeInv, OrderInv, WholeInv
  <2>3. EndInv'
    BY <1>3, <1>5, <2>1 DEF PipeInv, EndInv, Live
  <2>. QED
    BY <2>2, <2>3
<1>. QED
  BY <1>2, <1>4, <1>5 DEF PipeInv

LEMMA PressSendsPipe ==
    ASSUME TypeOK, Quiet, PipeInv, PressSends
    PROVE  PipeInv'
<1>. DEFINE press == Head(tasks).press
            i == Control("interrupt", press)
            e == Control("start", press)
            q == Enqueue(i, outbound)
<1>1. ~On /\ UNCHANGED <<wire, sessionVars, serverVars, callbacks, lost_ends>>
  BY DEF PressSends, Running, Quiet, HolderInv, LinkInv
<1>2. tasks[1].press = press /\ press \in Presses /\ \A p \in lost_ends : p < press
  <2>1. tasks \in Seq(Coroutine) /\ tasks # <<>> /\ Head(tasks).kind = "press" /\ step = "interrupt"
    BY DEF PressSends, Running, TypeOK, Coroutine
  <2>2. Head(tasks) = tasks[1] /\ tasks[1] \in Coroutine /\ 1 \in 1..Len(tasks)
    BY <2>1
  <2>. QED
    BY <2>1, <2>2, PipeTyped, PttLinkAssumption, SMTT(30)
       DEF Quiet, PressInv, Waiting, Coroutine, Presses, PttLinkAssumption
<1>3. i \in Frames /\ e \in Frames /\ i.kind = "interrupt" /\ e.kind = "start" /\ e.press = press
  BY <1>2, FrameKinds
<1>4. outbound' = Enqueue(e, q)
  BY DEF PressSends
<1>. DEFINE s == wire \o q
<1>. HIDE DEF press, i, e
<1>5. /\ q \in Seq(Frames) /\ s \in Seq(Frames)
      /\ Ordered(s, ptt_active, lost_ends) /\ Whole(s, audio_buffer, lost_ends)
      /\ Open(s, ptt_active, Len(s) + 1) <=> Open(Pipe, ptt_active, Len(Pipe) + 1)
      /\ \A c \in Chunks : Pending(s, audio_buffer, c) => Pending(Pipe, audio_buffer, c)
  <2>1. CASE q = outbound
    BY <2>1, PipeTyped DEF Pipe, PipeInv, OrderInv, WholeInv
  <2>2. CASE q = Append(outbound, i)
    <3>1. s = Append(Pipe, i) /\ q \in Seq(Frames) /\ s \in Seq(Frames)
      BY <1>3, <2>2, PipeTyped, Pipes DEF Pipe
    <3>. HIDE DEF s, q
    <3>. QED
      BY <1>3, <3>1, PipeTyped, AppendIdle DEF PipeInv, OrderInv, WholeInv
  <2>. QED
    BY <2>1, <2>2 DEF Enqueue
<1>6. FramesInOrder' /\ UtterancesWhole'
  BY <1>1, ReceivedMore DEF PipeInv, serverVars
<1>7. UNCHANGED <<ready, generation, ptt_active, audio_buffer, lost_ends>>
  BY <1>1 DEF sessionVars, serverVars
<1>8. CASE Accepts("start", q)
  <2>1. /\ mic' = [press |-> press, generation |-> generation, captured |-> 0]
        /\ outbound' = Append(q, e) /\ ready
    BY <1>3, <1>4, <1>8 DEF PressSends, press, i, Enqueue, Accepts
  <2>2. Pipe' = Append(s, e)
    BY <1>1, <1>3, <1>5, <2>1, PipeTyped, Pipes, SMTT(30) DEF Pipe
  <2>. HIDE DEF s, q
  <2>3. Open(Pipe, ptt_active, Len(Pipe) + 1) => lost_ends # {}
    BY <1>1, <2>1 DEF PipeInv, EndInv, Live
  <2>4. \A c \in Chunks : Pending(Pipe, audio_buffer, c) => c.press \in lost_ends
    BY <1>1, <2>1 DEF PipeInv, EndInv, Live
  <2>5. OrderInv'
    <3>1. Open(s, ptt_active, Len(s) + 1) => \E p \in lost_ends : p < e.press
      BY <1>2, <1>3, <1>5, <2>3
    <3>2. Ordered(Append(s, e), ptt_active, lost_ends)
      BY <1>3, <1>5, <3>1, PipeTyped, OrderedAppend
    <3>. QED
      BY <1>7, <2>2, <3>2 DEF OrderInv
  <2>6. WholeInv'
    BY <1>3, <1>5, <1>7, <2>2, PipeTyped, WholeAppend DEF WholeInv
  <2>7. Open(Pipe', ptt_active', Len(Pipe') + 1)
    <3>1. Open(Append(s, e), ptt_active, Len(s) + 2)
      BY <1>3, <1>5, PipeTyped, OpenAppended DEF After
    <3>2. Len(Append(s, e)) + 1 = Len(s) + 2
      BY <1>3, <1>5
    <3>. QED
      BY <1>7, <2>2, <3>1, <3>2
  <2>8. \A c \in Chunks : Pending(Pipe', audio_buffer', c) => c.press \in lost_ends
    <3>1. \A c \in Chunks : e # Audio(c)
      BY <1>3, FrameKinds
    <3>. QED
      BY <1>3, <1>5, <1>7, <2>2, <2>4, <3>1, PipeTyped, PendingAppend
  <2>9. Live'
    <3>1. generation # 0
      BY <2>1 DEF Quiet, LinkInv
    <3>. QED
      BY <1>7, <2>1, <3>1 DEF Live, On, MicOff
  <2>10. EndInv'
    BY <1>7, <2>7, <2>8, <2>9 DEF EndInv
  <2>. QED
    BY <1>6, <2>5, <2>6, <2>10 DEF PipeInv
<1>9. CASE ~Accepts("start", q)
  <2>1. mic' = mic /\ outbound' = q
    BY <1>3, <1>4, <1>9 DEF PressSends, press, i, Enqueue
  <2>2. Pipe' = s /\ (Live' <=> Live)
    BY <1>1, <1>7, <2>1 DEF Pipe, Live, On
  <2>. HIDE DEF s, q
  <2>3. OrderInv' /\ WholeInv'
    BY <1>5, <1>7, <2>2 DEF OrderInv, WholeInv
  <2>4. EndInv'
    BY <1>1, <1>5, <1>7, <2>1, <2>2 DEF PipeInv, EndInv
  <2>. QED
    BY <1>6, <2>3, <2>4 DEF PipeInv
<1>. QED
  BY <1>8, <1>9

LEMMA TransmitPipe ==
    ASSUME TypeOK, Quiet, PipeInv, Transmit
    PROVE  PipeInv'
<1>. DEFINE c0 == Head(callbacks)
            f == Audio(c0)
<1>1. /\ callbacks # <<>> /\ callbacks' = Tail(callbacks)
      /\ UNCHANGED <<mic, sessionVars, wire, serverVars, lost_ends>>
      /\ outbound' = IF MayTransmit(c0) THEN Enqueue(f, outbound) ELSE outbound
  BY DEF Transmit
<1>2. /\ c0 \in Chunks /\ c0 = callbacks[1] /\ 1 \in 1..Len(callbacks)
      /\ Len(callbacks') = Len(callbacks) - 1 /\ Len(callbacks) \in Nat
  BY <1>1, PipeTyped
<1>3. /\ c0.press = mic.press /\ c0.generation = mic.generation
      /\ c0.chunk + Len(callbacks) = mic.captured + 1
      /\ mic.captured > 0
  BY <1>2, PipeTyped DEF Quiet, CaptureInv
<1>4. On
  BY <1>3 DEF On, MicOff
<1>5. f \in Frames /\ f.kind = "audio" /\ f.chunk = c0 /\ \A c \in Chunks : f = Audio(c) => c = c0
  BY <1>2, FrameKinds
<1>6. FramesInOrder' /\ UtterancesWhole'
  BY <1>1, ReceivedMore DEF PipeInv, serverVars
<1>7. UNCHANGED <<ready, generation, ptt_active, audio_buffer>> /\ (Live' <=> Live)
  BY <1>1 DEF sessionVars, serverVars, Live, On
<1>8. \A c \in Chunks : c.chunk \in Nat
  BY DEF Chunks
<1>. HIDE DEF c0, f
<1>9. CASE MayTransmit(c0) /\ Accepts("audio", outbound)
  <2>1. outbound' = Append(outbound, f) /\ ready
    <3>1. Accepts(f.kind, outbound)
      BY <1>5, <1>9
    <3>2. Enqueue(f, outbound) = Append(outbound, f)
      BY ONLY <3>1 DEF Enqueue
    <3>3. ready
      BY ONLY <3>1 DEF Accepts
    <3>. QED
      BY <1>1, <1>9, <3>2, <3>3
  <2>2. Pipe' = Append(Pipe, f)
    <3>1. wire \o Append(outbound, f) = Append(wire \o outbound, f)
      BY <1>5, PipeTyped, Pipes
    <3>. QED
      BY <1>1, <2>1, <3>1 DEF Pipe
  <2>3. Live
    BY <1>3, <1>4, <1>9 DEF Live, MayTransmit
  <2>4. Open(Pipe, ptt_active, Len(Pipe) + 1)
    BY <2>1, <2>3 DEF PipeInv, EndInv
  <2>5. ASSUME NEW c \in Chunks, Pending(Pipe, audio_buffer, c)
        PROVE  /\ Follows(c, c0, lost_ends)
               /\ c.press \in lost_ends
                    \/ (c.press = mic.press /\ c.chunk + Len(callbacks) <= mic.captured)
    <3>1. \/ c.press \in lost_ends
          \/ c.press = mic.press /\ c.chunk + Len(callbacks) <= mic.captured
      BY <2>1, <2>5 DEF PipeInv, EndInv
    <3>2. c.press \in lost_ends => c.press < c0.press
      BY <1>3, <1>4 DEF Quiet, PressInv
    <3>3. c.chunk + Len(callbacks) <= mic.captured => c.chunk < c0.chunk
      <4>1. c.chunk \in Nat /\ c0.chunk \in Nat /\ mic.captured \in Nat
        BY <1>2, <1>8, PipeTyped
      <4>. QED
        BY ONLY <1>2, <1>3, <4>1
    <3>. QED
      BY <1>3, <3>1, <3>2, <3>3 DEF Follows
  <2>6. OrderInv'
    BY <1>1, <1>5, <1>7, <2>2, <2>4, PipeTyped, OrderedAppend DEF PipeInv, OrderInv
  <2>7. WholeInv'
    BY <1>1, <1>5, <1>7, <2>2, <2>5, PipeTyped, WholeAppend DEF PipeInv, WholeInv
  <2>8. Open(Pipe', ptt_active', Len(Pipe') + 1)
    BY <1>5, <1>7, <2>2, <2>4, PipeTyped, OpenAppended DEF After, Closing
  <2>9. ASSUME NEW c \in Chunks, Pending(Pipe', audio_buffer', c)
        PROVE  \/ c.press \in lost_ends'
               \/ /\ Live' /\ c.press = mic'.press
                  /\ c.chunk + Len(callbacks') <= mic'.captured
    <3>1. c = c0 \/ Pending(Pipe, audio_buffer, c)
      BY <1>5, <1>7, <2>2, <2>9, PipeTyped, PendingAppend
    <3>2. c.chunk \in Nat /\ mic.captured \in Nat
      BY <1>8, PipeTyped
    <3>3. CASE c = c0
      BY <1>1, <1>2, <1>3, <1>7, <2>3, <3>2, <3>3
    <3>4. CASE Pending(Pipe, audio_buffer, c)
      BY <1>1, <1>2, <1>7, <2>3, <2>5, <3>2, <3>4
    <3>. QED
      BY <3>1, <3>3, <3>4
  <2>10. EndInv'
    BY <1>7, <2>3, <2>8, <2>9 DEF EndInv
  <2>. QED
    BY <1>6, <2>6, <2>7, <2>10 DEF PipeInv
<1>10. CASE ~(MayTransmit(c0) /\ Accepts("audio", outbound))
  <2>1. Pipe' = Pipe
    BY <1>1, <1>5, <1>10 DEF Enqueue, Pipe
  <2>2. OrderInv' /\ WholeInv'
    BY <1>1, <1>7, <2>1 DEF PipeInv, OrderInv, WholeInv
  <2>3. ASSUME NEW c \in Chunks, c.chunk + Len(callbacks) <= mic.captured
        PROVE  c.chunk + Len(callbacks') <= mic'.captured
    BY <1>1, <1>2, <1>8, <2>3, PipeTyped
  <2>4. EndInv'
    BY <1>1, <1>7, <2>1, <2>3 DEF PipeInv, EndInv
  <2>. QED
    BY <1>6, <2>2, <2>4 DEF PipeInv
<1>. QED
  BY <1>9, <1>10

LEMMA ServerPipe ==
    ASSUME TypeOK, Quiet, PipeInv, Server
    PROVE  PipeInv'
<1>. DEFINE f == Head(Pipe)
<1>1. /\ wire # <<>> /\ wire' = Tail(wire)
      /\ UNCHANGED <<mic, callbacks, ready, generation, outbound, lost_ends>>
  BY ServerLocal DEF clientVars, sessionVars
<1>2. Pipe # <<>> /\ Pipe' = Tail(Pipe) /\ f = Head(wire)
  BY <1>1, PipeTyped, Pipes DEF Pipe
<1>3. f \in Frames /\ Len(Pipe) \in Nat \ {0} /\ Len(Pipe') = Len(Pipe) - 1
  BY <1>2, PipeTyped
<1>. HIDE DEF f
<1>4. /\ Ordered(Tail(Pipe), After(ptt_active, f), lost_ends)
      /\ f.kind = "audio" => ptt_active
      /\ f.kind = "start" /\ ptt_active => \E p \in lost_ends : p < f.press
  BY <1>2, PipeTyped, OrderedTail DEF PipeInv, OrderInv, f
<1>5. ~ptt_active => audio_buffer = <<>>
  BY DEF Quiet, LinkInv
<1>6. ptt_active' <=> After(ptt_active, f)
  <2>1. CASE StartPtt
    BY <1>2, <2>1 DEF StartPtt, Received, After
  <2>2. CASE HandleMedia
    BY <1>2, <2>2 DEF HandleMedia, Received, After, Closing
  <2>3. CASE EndPtt \/ EndSession
    BY <1>2, <2>3 DEF EndPtt, EndSession, Received, After, Closing
  <2>4. CASE HandleOther
    BY <1>2, <2>4 DEF HandleOther, Received, After, Closing, serverVars
  <2>. QED
    BY <2>1, <2>2, <2>3, <2>4 DEF Server
<1>7. Takes(f, audio_buffer, audio_buffer')
  <2>1. CASE StartPtt
    BY <1>2, <2>1 DEF StartPtt, Received, Takes, ResetUtterance, Closing
  <2>2. CASE HandleMedia
    BY <1>2, <2>2 DEF HandleMedia, Received, Takes, Closing
  <2>3. CASE EndPtt \/ EndSession
    BY <1>5, <2>3 DEF EndPtt, EndSession, Takes, ResetUtterance
  <2>4. CASE HandleOther
    BY <1>2, <2>4 DEF HandleOther, Received, Takes, Closing, serverVars
  <2>. QED
    BY <2>1, <2>2, <2>3, <2>4 DEF Server
<1>8. audio_buffer' \in Seq(Chunks) /\ ptt_active' \in BOOLEAN
  <2>1. TypeOK'
    BY TypeStep DEF Next
  <2>. QED
    BY <2>1 DEF TypeOK
<1>9. OrderInv'
  BY <1>1, <1>2, <1>4, <1>6, <1>8 DEF OrderInv, After
<1>10. WholeInv'
  BY <1>1, <1>2, <1>7, <1>8, PipeTyped, WholeTail DEF PipeInv, WholeInv, f
<1>11. EndInv'
  <2>1. Open(Tail(Pipe), After(ptt_active, f), Len(Pipe)) <=> Open(Pipe, ptt_active, Len(Pipe) + 1)
    BY <1>2, <1>3, PipeTyped, OpenTail DEF f
  <2>2. Open(Pipe', ptt_active', Len(Pipe') + 1) <=> Open(Pipe, ptt_active, Len(Pipe) + 1)
    <3>1. Len(Pipe') + 1 = Len(Pipe)
      BY <1>3
    <3>2. ptt_active' = After(ptt_active, f)
      BY <1>6, <1>8 DEF After
    <3>. QED
      BY <1>2, <2>1, <3>1, <3>2
  <2>3. \A c \in Chunks : Pending(Pipe', audio_buffer', c) => Pending(Pipe, audio_buffer, c)
    BY <1>2, <1>7, <1>8, PipeTyped, PendingTail DEF f
  <2>4. Live' <=> Live
    BY <1>1 DEF Live, On
  <2>. QED
    BY <1>1, <2>2, <2>3, <2>4 DEF PipeInv, EndInv
<1>12. FramesInOrder'
  <2>1. rejected' = rejected \/ (rejected' = rejected \cup {f} /\ (f.kind = "start" => ptt_active)
                                /\ (f.kind = "audio" => ~ptt_active))
    <3>1. CASE StartPtt
      BY <1>2, <3>1 DEF StartPtt, Received, Reject
    <3>2. CASE HandleMedia
      BY <1>2, <3>2 DEF HandleMedia, Received, Reject
    <3>3. CASE EndPtt
      BY <1>2, <3>3 DEF EndPtt, Received, Reject
    <3>4. CASE EndSession \/ HandleOther
      BY <3>4 DEF EndSession, HandleOther, serverVars
    <3>. QED
      BY <3>1, <3>2, <3>3, <3>4 DEF Server
  <2>. QED
    BY <1>1, <1>4, <2>1 DEF PipeInv, FramesInOrder
<1>13. UtterancesWhole'
  <2>1. utterances' \subseteq utterances \cup {audio_buffer}
    <3>1. CASE EndPtt
      BY <3>1 DEF EndPtt
    <3>2. CASE StartPtt \/ HandleMedia \/ EndSession \/ HandleOther
      BY <3>2 DEF StartPtt, HandleMedia, EndSession, HandleOther, serverVars
    <3>. QED
      BY <3>1, <3>2 DEF Server
  <2>2. \A m, n \in DOMAIN audio_buffer : m < n => Follows(audio_buffer[m], audio_buffer[n], lost_ends)
    <3>1. DOMAIN audio_buffer = 1..Len(audio_buffer)
      BY PipeTyped
    <3>2. Whole(Pipe, audio_buffer, lost_ends)
      BY DEF PipeInv, WholeInv
    <3>. QED
      BY <3>1, <3>2 DEF Whole
  <2>. QED
    BY <1>1, <2>1, <2>2 DEF PipeInv, UtterancesWhole, Follows
<1>. QED
  BY <1>9, <1>10, <1>11, <1>12, <1>13 DEF PipeInv

LEMMA PipeStep ==
    ASSUME TypeOK, Quiet, PipeInv, [Next]_vars
    PROVE  PipeInv'
<1>1. CASE KeyDown \/ KeyUp \/ Move \/ Poll \/ AircraftChanged \/ StopRuntime \/ Exit
  <2>1. UNCHANGED <<mic, callbacks, linkVars, serverVars, lost_ends>>
    BY <1>1, DeviceEdge DEF AircraftChanged, StopRuntime, Exit
  <2>2. Pipe' = Pipe
    BY <2>1 DEF Pipe, linkVars
  <2>. QED
    BY <2>1, <2>2, PipeStays DEF linkVars, sessionVars, serverVars
<1>2. CASE PressIgnored \/ PressBegins \/ PressOpens \/ ReleaseIgnored \/ ReleaseBegins
           \/ ResetBegins \/ ResetEnds
  <2>1. UNCHANGED <<mic, callbacks, linkVars, serverVars, lost_ends>>
    BY <1>2 DEF PressIgnored, PressBegins, PressOpens, ReleaseIgnored, ReleaseBegins,
       ResetBegins, ResetEnds
  <2>2. Pipe' = Pipe
    BY <2>1 DEF Pipe, linkVars
  <2>. QED
    BY <2>1, <2>2, PipeStays DEF linkVars, sessionVars, serverVars
<1>3. CASE PressSends
  BY <1>3, PressSendsPipe
<1>4. CASE PressFails
  <2>1. On /\ mic.press \in Presses
    BY <1>4 DEF PressFails, Running, Quiet, HolderInv, CaptureInv
  <2>2. Control("end", mic.press) \in Frames /\ Control("end", mic.press).kind = "end"
    BY <2>1, FrameKinds
  <2>3. /\ mic' = MicOff /\ UNCHANGED <<wire, sessionVars, serverVars>>
        /\ outbound' = Enqueue(Control("end", mic.press), outbound)
        /\ Unended(Accepts("end", outbound))
    BY <1>4 DEF PressFails
  <2>4. CASE Accepts("end", outbound)
    <3>1. outbound' = Append(outbound, Control("end", mic.press)) /\ lost_ends' = lost_ends
      BY <2>2, <2>3, <2>4 DEF Enqueue, Unended
    <3>. QED
      BY <2>1, <2>2, <2>3, <3>1, TurnOver
  <2>5. CASE ~Accepts("end", outbound)
    <3>1. /\ outbound' = outbound
          /\ lost_ends' = IF generation # mic.generation THEN lost_ends
                          ELSE lost_ends \cup {mic.press}
      BY <2>2, <2>3, <2>5 DEF Enqueue, Unended
    <3>. QED
      BY <2>1, <2>3, <3>1, TurnOver
  <2>. QED
    BY <2>4, <2>5
<1>5. CASE ReleaseEnds
  <2>1. On /\ mic.press \in Presses /\ active /\ session_generation = mic.generation
    BY <1>5 DEF ReleaseEnds, Releasing, Running, Quiet, HolderInv, CaptureInv
  <2>2. Control("end", mic.press) \in Frames /\ Control("end", mic.press).kind = "end"
    BY <2>1, FrameKinds
  <2>. DEFINE told == generation = session_generation /\ Accepts("end", outbound)
  <2>3. /\ mic' = MicOff /\ UNCHANGED <<wire, sessionVars, serverVars>>
        /\ outbound' = IF told THEN Append(outbound, Control("end", mic.press)) ELSE outbound
        /\ Unended(told)
    BY <1>5 DEF ReleaseEnds, CaptureStopped
  <2>4. lost_ends' = IF told \/ generation # mic.generation THEN lost_ends
                     ELSE lost_ends \cup {mic.press}
    BY <2>3 DEF Unended
  <2>. HIDE DEF told
  <2>5. CASE told
    BY <2>1, <2>2, <2>3, <2>4, <2>5, TurnOver
  <2>6. CASE ~told
    <3>1. /\ outbound' = outbound
          /\ lost_ends' = IF generation # mic.generation THEN lost_ends
                          ELSE lost_ends \cup {mic.press}
      BY <2>3, <2>4, <2>6
    <3>. QED
      BY <2>1, <2>3, <3>1, TurnOver
  <2>. QED
    BY <2>5, <2>6
<1>6. CASE ResetDrops
  <2>1. On
    BY <1>6 DEF ResetDrops, Running, Quiet, HolderInv
  <2>2. /\ mic' = MicOff /\ UNCHANGED <<wire, outbound, sessionVars, serverVars>>
        /\ lost_ends' = IF generation # mic.generation THEN lost_ends
                        ELSE lost_ends \cup {mic.press}
    BY <1>6 DEF ResetDrops, CaptureStopped, Unended, linkVars
  <2>. QED
    BY <2>1, <2>2, TurnOver
<1>7. CASE Capture
  <2>1. /\ UNCHANGED <<linkVars, serverVars, lost_ends>> /\ On
        /\ mic' = [mic EXCEPT !.captured = @ + 1] /\ \E c : callbacks' = Append(callbacks, c)
    BY <1>7 DEF Capture, On
  <2>2. /\ mic'.press = mic.press /\ mic'.generation = mic.generation
        /\ mic'.captured = mic.captured + 1 /\ Len(callbacks') = Len(callbacks) + 1
    BY <2>1, PipeTyped
  <2>3. Pipe' = Pipe /\ UNCHANGED <<ready, generation, ptt_active, audio_buffer, utterances, rejected>>
    BY <2>1 DEF Pipe, linkVars, sessionVars, serverVars
  <2>4. Live' <=> Live
    <3>1. mic' # MicOff
      BY <2>2, PipeTyped DEF MicOff
    <3>. QED
      BY <2>1, <2>2, <2>3, <3>1 DEF Live, On
  <2>5. ASSUME NEW c \in Chunks, c.chunk + Len(callbacks) <= mic.captured
        PROVE  c.chunk + Len(callbacks') <= mic'.captured
    <3>1. c.chunk \in Nat
      BY DEF Chunks
    <3>. QED
      BY <2>2, <2>5, <3>1, PipeTyped
  <2>6. EndInv'
    BY <2>1, <2>2, <2>3, <2>4, <2>5 DEF PipeInv, EndInv
  <2>7. OrderInv' /\ WholeInv' /\ FramesInOrder' /\ UtterancesWhole'
    BY <2>1, <2>3, ReceivedMore DEF PipeInv, OrderInv, WholeInv
  <2>. QED
    BY <2>6, <2>7 DEF PipeInv
<1>8. CASE Transmit
  BY <1>8, TransmitPipe
<1>9. CASE Publish
  <2>. DEFINE f == [kind |-> "telemetry"]
  <2>1. /\ f \in Frames /\ f.kind = "telemetry" /\ outbound' = Append(outbound, f)
        /\ UNCHANGED <<mic, callbacks, ready, generation, wire, serverVars, lost_ends>>
    BY <1>9, FrameKinds DEF Publish, clientVars, sessionVars
  <2>. HIDE DEF f
  <2>2. Pipe' = Append(Pipe, f)
    BY <2>1, PipeTyped, Pipes DEF Pipe
  <2>3. /\ Ordered(Pipe', ptt_active, lost_ends) /\ Whole(Pipe', audio_buffer, lost_ends)
        /\ Open(Pipe', ptt_active, Len(Pipe') + 1) <=> Open(Pipe, ptt_active, Len(Pipe) + 1)
        /\ \A c \in Chunks : Pending(Pipe', audio_buffer, c) => Pending(Pipe, audio_buffer, c)
    BY <2>1, <2>2, PipeTyped, AppendIdle DEF PipeInv, OrderInv, WholeInv
  <2>4. OrderInv' /\ WholeInv'
    BY <2>1, <2>3 DEF OrderInv, WholeInv, serverVars
  <2>5. EndInv'
    BY <2>1, <2>3 DEF PipeInv, EndInv, Live, On, serverVars
  <2>6. FramesInOrder' /\ UtterancesWhole'
    BY <2>1, ReceivedMore DEF PipeInv, serverVars
  <2>. QED
    BY <2>4, <2>5, <2>6 DEF PipeInv
<1>10. CASE Write
  <2>1. UNCHANGED <<mic, callbacks, ready, generation, serverVars, lost_ends>>
    BY <1>10 DEF Write, clientVars, sessionVars
  <2>2. Pipe' = Pipe
    BY <1>10, PipeTyped, Pipes DEF Write, Pipe
  <2>. QED
    BY <2>1, <2>2, PipeStays DEF serverVars
<1>11. CASE Disconnect
  <2>1. Len(Pipe') = 0 /\ Len(audio_buffer') = 0
    BY <1>11 DEF Disconnect, Pipe
  <2>2. OrderInv' /\ WholeInv'
    BY <2>1 DEF OrderInv, WholeInv, Ordered, Whole
  <2>3. EndInv'
    BY <1>11 DEF Disconnect, EndInv
  <2>4. FramesInOrder' /\ UtterancesWhole'
    BY <1>11, ReceivedMore DEF Disconnect, PipeInv
  <2>. QED
    BY <2>2, <2>3, <2>4 DEF PipeInv
<1>12. CASE Connect
  <2>1. UNCHANGED <<outbound, wire, serverVars, lost_ends>> /\ ~ready'
    BY <1>12 DEF Connect
  <2>2. Pipe' = Pipe
    BY <2>1 DEF Pipe
  <2>. QED
    BY <2>1, <2>2, PipeStays DEF serverVars
<1>13. CASE Handshake
  <2>1. /\ UNCHANGED <<mic, callbacks, outbound, wire, serverVars, lost_ends>>
        /\ \/ generation' = generation + 1
           \/ UNCHANGED <<generation, ready>>
    BY <1>13 DEF Handshake, clientVars
  <2>2. Pipe' = Pipe
    BY <2>1 DEF Pipe
  <2>3. CASE UNCHANGED <<generation, ready>>
    BY <2>1, <2>2, <2>3, PipeStays DEF serverVars
  <2>4. CASE generation' = generation + 1
    <3>1. /\ wire = <<>> /\ outbound = <<>> /\ ~ptt_active /\ audio_buffer = <<>>
      BY <1>13 DEF Handshake, Quiet, LinkInv, TypeOK
    <3>2. Pipe' = <<>> /\ Len(Pipe') = 0 /\ Len(audio_buffer') = 0 /\ ~ptt_active'
      BY <2>1, <3>1 DEF Pipe, serverVars
    <3>3. ~Live'
      <4>1. generation \in Nat
        BY DEF TypeOK
      <4>2. On => mic.generation <= generation
        BY <4>1 DEF Quiet, CaptureInv
      <4>. QED
        BY <2>1, <2>4, <4>1, <4>2 DEF Live, On
    <3>4. ~Open(Pipe', ptt_active', Len(Pipe') + 1)
      BY <3>2 DEF Open
    <3>5. \A c : ~Pending(Pipe', audio_buffer', c)
      BY <3>2 DEF Pending
    <3>6. EndInv'
      BY <3>3, <3>4, <3>5 DEF EndInv
    <3>7. OrderInv' /\ WholeInv' /\ FramesInOrder' /\ UtterancesWhole'
      BY <2>1, <2>2, ReceivedMore DEF PipeInv, OrderInv, WholeInv, serverVars
    <3>. QED
      BY <3>6, <3>7 DEF PipeInv
  <2>. QED
    BY <2>1, <2>3, <2>4
<1>14. CASE Leave
  <2>1. /\ wire' = Append(wire, Farewell) /\ outbound' = <<>> /\ ~ready'
        /\ UNCHANGED <<serverVars, lost_ends>>
    BY <1>14 DEF Leave
  <2>2. Pipe' = Append(wire, Farewell)
    BY <2>1, PipeTyped, FrameKinds, ConcatEmptySeq DEF Pipe
  <2>3. Ordered(wire, ptt_active, lost_ends) /\ Whole(wire, audio_buffer, lost_ends)
    BY PipeTyped, OrderedPrefix, WholePrefix DEF PipeInv, OrderInv, WholeInv, Pipe
  <2>4. Farewell \in Frames /\ Farewell.kind = "session.end"
    BY FrameKinds DEF Farewell
  <2>5. Ordered(Pipe', ptt_active, lost_ends) /\ Whole(Pipe', audio_buffer, lost_ends)
    BY <2>2, <2>3, <2>4, PipeTyped, OrderedAppend, WholeAppend
  <2>6. OrderInv' /\ WholeInv' /\ EndInv'
    BY <2>1, <2>5 DEF OrderInv, WholeInv, EndInv, serverVars
  <2>7. FramesInOrder' /\ UtterancesWhole'
    BY <2>1, ReceivedMore DEF PipeInv, serverVars
  <2>. QED
    BY <2>6, <2>7 DEF PipeInv
<1>15. CASE Server
  BY <1>15, ServerPipe
<1>16. CASE UNCHANGED vars
  <2>1. UNCHANGED <<mic, callbacks, linkVars, serverVars, lost_ends>>
    BY <1>16 DEF vars, clientVars
  <2>2. Pipe' = Pipe
    BY <2>1 DEF Pipe, linkVars
  <2>. QED
    BY <2>1, <2>2, PipeStays DEF linkVars, sessionVars, serverVars
<1>. QED
  BY <1>1, <1>2, <1>3, <1>4, <1>5, <1>6, <1>7, <1>8, <1>9, <1>10, <1>11, <1>12, <1>13, <1>14,
     <1>15, <1>16 DEF Next, Controller

------------------------------------------------------------------------------

Inv == TypeOK /\ Quiet /\ PipeInv

LEMMA InitInv == Init => Inv
<1>. SUFFICES ASSUME Init PROVE Inv
  OBVIOUS
<1>1. TypeOK
  <2>1. /\ QueueSize \in Nat /\ Reserve \in Nat /\ WireSize \in Nat /\ MaxUtterance \in Nat
        /\ MaxPresses \in Nat /\ MaxChunks \in Nat /\ MaxResets \in Nat /\ MaxSessions \in Nat
    BY PttLinkAssumption DEF PttLinkAssumption
  <2>2. /\ tasks \in Seq([kind: {"press", "release", "reset", "quit"}, press: 0..MaxPresses])
        /\ callbacks \in Seq(Chunks) /\ outbound \in Seq(Frames) /\ wire \in Seq(Frames)
        /\ audio_buffer \in Seq(Chunks)
        /\ Len(outbound) = 0 /\ Len(wire) = 0 /\ Len(audio_buffer) = 0
    BY EmptySeq DEF Init
  <2>3. mic \in [press: 0..MaxPresses, generation: 0..MaxSessions, captured: 0..MaxChunks]
    BY <2>1 DEF Init, MicOff
  <2>. QED
    <3>1. /\ Len(outbound) <= QueueSize + Reserve /\ Len(wire) <= WireSize
          /\ Len(audio_buffer) <= MaxUtterance
      BY <2>1, <2>2
    <3>2. /\ presses \in 0..MaxPresses /\ resets \in 0..MaxResets
          /\ session_generation \in 0..MaxSessions /\ generation \in 0..MaxSessions
      BY <2>1 DEF Init
    <3>3. utterances \subseteq Seq(Chunks) /\ rejected \subseteq Frames /\ lost_ends \subseteq Presses
      BY DEF Init
    <3>4. /\ device \in {"keyboard", "joystick"} /\ held \in {"up", "down", "gone"}
          /\ runtime \in {"on", "stopping", "off"} /\ pressed \in BOOLEAN /\ active \in BOOLEAN
          /\ step \in {"ready", "interrupt", "open", "close", "drop", "silence"}
          /\ ready \in BOOLEAN /\ handshaking \in BOOLEAN /\ ~(ready /\ handshaking)
          /\ ptt_active \in BOOLEAN /\ overflowed \in BOOLEAN
      BY DEF Init
    <3>. QED
      BY <2>2, <2>3, <3>1, <3>2, <3>3, <3>4 DEF TypeOK
<1>2. CaptureInv /\ HolderInv
  BY DEF Init, CaptureInv, HolderInv, On, MicOff
<1>3. PressInv
  BY DEF Init, PressInv, On, MicOff
<1>4. LinkInv
  BY DEF Init, LinkInv, OfSession
<1>5. Len(Pipe) = 0 /\ Len(audio_buffer) = 0
  BY DEF Init, Pipe
<1>6. PipeInv
  BY <1>5 DEF Init, PipeInv, OrderInv, WholeInv, EndInv, Ordered, Whole, FramesInOrder, UtterancesWhole
<1>. QED
  BY <1>1, <1>2, <1>3, <1>4, <1>6 DEF Inv, Quiet

LEMMA NextInv == Inv /\ [Next]_vars => Inv'
  BY TypeStep, CaptureStep, PressStep, HolderStep, LinkStep, PipeStep DEF Inv, Quiet

\* The inductive invariant: where the lock's holder is, which turn the pipe leaves
\* open at its end, and whose audio is in it.
THEOREM LinkInvariance == Spec => []Inv
  BY InitInv, NextInv, PTL DEF Spec

\* Every variable keeps its type, the queue its size and reserve, and an utterance
\* its limit, for any of them.
THEOREM LinkTyped == Spec => []TypeOK
<1>1. Inv => TypeOK
  BY DEF Inv
<1>. QED
  BY <1>1, LinkInvariance, PTL

\* The backend never gets audio outside a turn, nor a ptt.start within one but after
\* a press whose ptt.end was lost.
THEOREM FramesAlwaysInOrder == Spec => []FramesInOrder
<1>1. Inv => FramesInOrder
  BY DEF Inv, PipeInv
<1>. QED
  BY <1>1, LinkInvariance, PTL

\* An utterance is chunks of one press in the order they were captured, except for
\* the audio of earlier presses whose ptt.end was lost.
THEOREM UtterancesAlwaysWhole == Spec => []UtterancesWhole
<1>1. Inv => UtterancesWhole
  BY DEF Inv, PipeInv
<1>. QED
  BY <1>1, LinkInvariance, PTL

\* Audio captured for one session never reaches another.
THEOREM AudioAlwaysStays == Spec => []AudioStaysInSession
<1>1. Inv => AudioStaysInSession
  <2>1. SUFFICES ASSUME Inv PROVE AudioStaysInSession
    OBVIOUS
  <2>2. /\ wire \in Seq(Frames) /\ outbound \in Seq(Frames) /\ audio_buffer \in Seq(Chunks)
        /\ OfSession(wire, generation) /\ OfSession(outbound, generation)
        /\ \A i \in 1..Len(audio_buffer) : audio_buffer[i].generation = generation
    BY <2>1 DEF Inv, TypeOK, Quiet, LinkInv
  <2>3. /\ Range(wire) = {wire[i] : i \in 1..Len(wire)}
        /\ Range(outbound) = {outbound[i] : i \in 1..Len(outbound)}
        /\ Range(audio_buffer) = {audio_buffer[i] : i \in 1..Len(audio_buffer)}
    BY <2>2 DEF Range
  <2>. QED
    BY <2>2, <2>3 DEF AudioStaysInSession, OfSession
<1>. QED
  BY <1>1, LinkInvariance, PTL

================================================================================

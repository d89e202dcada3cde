------------------------------ MODULE BiosClient ------------------------------
(***************************************************************************)
(* DcsBiosClient with its parser and address space: how the client learns  *)
(* from the export stream of DCS-BIOS which aircraft is flown and what its *)
(* controls show.                                                          *)
(*                                                                         *)
(* A frame is a run of writes closed by the next sync marker.  A write     *)
(* changes the address space at once; who is flying and which controls     *)
(* changed is looked at when the frame is complete.  A malformed frame     *)
(* keeps the writes it made and forgets that it made them.  The address    *)
(* space is a partial function: the controls whose bytes are available.    *)
(* Aircraft share addresses, hence controls.                               *)
(***************************************************************************)
EXTENDS Naturals, FiniteSets, Functions

CONSTANTS
    Controls,       \* addresses of control outputs
    Aircraft,
    NoAircraft,     \* what NONE, an empty and an unavailable name decode to
    Definitions,    \* the controls the modules of each aircraft define
    Values,         \* what a control can show
    MaxWrites       \* bound on the writes DCS-BIOS exports

ASSUME BiosAssumption ==
    /\ NoAircraft \notin Aircraft
    /\ Definitions \in [Aircraft -> SUBSET Controls]
    /\ MaxWrites \in Nat

VARIABLES
    bytes,              \* the available controls and what they show
    name,               \* the bytes of _ACFT_NAME
    frame,              \* what the frame under way has written
    dirty,              \* _pending_definitions
    connected,
    current_aircraft,
    decoded,            \* _decoded_values
    exported,           \* the last name DCS-BIOS exported
    writes

biosVars == <<bytes, name, frame, dirty, connected, current_aircraft, decoded,
              exported, writes>>

Slots == Aircraft \cup {NoAircraft}
Empty == <<>>
NewFrame == [controls |-> {}, named |-> FALSE]
Shown == UNION {[S -> Values] : S \in SUBSET Controls}

BiosTypeOK ==
    /\ bytes \in Shown /\ decoded \in Shown
    /\ name \in Slots /\ current_aircraft \in Slots /\ exported \in Slots
    /\ frame \in [controls : SUBSET Controls, named : BOOLEAN]
    /\ dirty \subseteq Controls
    /\ connected \in BOOLEAN
    /\ current_aircraft # NoAircraft => connected
    /\ writes \in 0..MaxWrites

BiosInit ==
    /\ bytes = Empty /\ name = NoAircraft /\ frame = NewFrame /\ dirty = {}
    /\ connected = FALSE /\ current_aircraft = NoAircraft /\ decoded = Empty
    /\ exported = NoAircraft /\ writes = 0

------------------------------------------------------------------------------

\* f with the entries of g in place of its own.
Put(f, g) ==
    [c \in DOMAIN f \cup DOMAIN g |-> IF c \in DOMAIN g THEN g[c] ELSE f[c]]

\* decoded_snapshot: what the available controls of an aircraft show.
Active(b, a) ==
    IF a = NoAircraft THEN Empty ELSE Restrict(b, DOMAIN b \cap Definitions[a])

ExportValue(c, v) ==
    /\ writes < MaxWrites
    /\ writes' = writes + 1
    /\ dirty' = IF c \in DOMAIN bytes /\ bytes[c] = v THEN dirty ELSE dirty \cup {c}
    /\ bytes' = Put(bytes, [d \in {c} |-> v])
    /\ frame' = [frame EXCEPT !.controls = @ \cup {c}]
    /\ UNCHANGED <<name, connected, current_aircraft, decoded, exported>>

ExportName(a) ==
    /\ writes < MaxWrites
    /\ writes' = writes + 1
    /\ name' = a
    /\ exported' = a
    /\ frame' = [frame EXCEPT !.named = TRUE]
    /\ UNCHANGED <<bytes, dirty, connected, current_aircraft, decoded>>

\* _update_aircraft keeps of a new aircraft what this frame has written, its
\* name included.  `asked`: one of the aircraft callbacks took a snapshot.
FrameResult(asked) ==
    LET news == name # current_aircraft
        now  == IF news THEN Restrict(bytes, DOMAIN bytes \cap frame.controls)
                        ELSE bytes
        seen == CASE ~news -> decoded
                  [] news /\ asked -> Active(now, name)
                  [] OTHER -> Empty
        told == {c \in dirty \cap DOMAIN Active(now, name) :
                    ~(c \in DOMAIN seen /\ seen[c] = now[c])}
    IN  [news |-> news, bytes |-> now,
         changes |-> Restrict(now, told), decoded |-> Put(seen, Restrict(now, told))]

FrameComplete(asked) ==
    LET result == FrameResult(asked)
    IN  /\ connected' = TRUE
        /\ current_aircraft' = name
        /\ name' = IF result.news /\ ~frame.named THEN NoAircraft ELSE name
        /\ bytes' = result.bytes
        /\ decoded' = result.decoded
        /\ dirty' = {}
        /\ frame' = NewFrame
        /\ UNCHANGED <<exported, writes>>

\* A bad header, or a sync marker inside a write.
FrameMalformed ==
    /\ frame' = NewFrame
    /\ UNCHANGED <<bytes, name, dirty, connected, current_aircraft, decoded,
                   exported, writes>>

\* No frame within the stale timeout; the parser may still be inside one.
Expire ==
    /\ connected /\ connected' = FALSE
    /\ bytes' = Empty /\ name' = NoAircraft
    /\ current_aircraft' = NoAircraft
    /\ dirty' = {} /\ decoded' = Empty
    /\ UNCHANGED <<frame, exported, writes>>

\* Somebody asks for decoded_snapshot.
TakeSnapshot ==
    /\ decoded' = Put(decoded, Active(bytes, current_aircraft))
    /\ UNCHANGED <<bytes, name, frame, dirty, connected, current_aircraft,
                   exported, writes>>

BiosNext ==
    \/ \E c \in Controls, v \in Values : ExportValue(c, v)
    \/ \E a \in Slots : ExportName(a)
    \/ \E asked \in BOOLEAN : FrameComplete(asked)
    \/ FrameMalformed
    \/ Expire
    \/ TakeSnapshot

BiosSpec == BiosInit /\ [][BiosNext]_biosVars

------------------------------------------------------------------------------

\* docs/dcs-bios.md: frames that stop disconnect, a name NONE or empty leaves
\* no aircraft, and a malformed header only suspends parsing until the next
\* sync marker.  So an aircraft is given up only if DCS-BIOS exported NONE or
\* its frames stopped.
SlotsEndForCause ==
    [][current_aircraft # NoAircraft /\ current_aircraft' = NoAircraft
           => exported = NoAircraft \/ ~connected']_biosVars
==============================================================================

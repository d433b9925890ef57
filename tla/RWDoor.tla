------------------------------- MODULE RWDoor -------------------------------
(***************************************************************************)
(* What a read-write lock with a writer's latch promises, as its users see *)
(* it: the door of the module comment of broker/spinlock.rs.  Readers      *)
(* enter while the door is open, one writer at a time may latch it, and    *)
(* the latching writer enters when the last reader has left.               *)
(***************************************************************************)
CONSTANT Threads

VARIABLES inside,   \* the readers in the room
          latched,  \* the writer that has latched the door, as a set
          locked    \* the writer in the room, as a set

doorVars == <<inside, latched, locked>>

Init ==
  /\ inside = {}
  /\ latched = {}
  /\ locked = {}

EnterRead(t) ==
  /\ latched = {}
  /\ t \notin inside
  /\ inside' = inside \cup {t}
  /\ UNCHANGED <<latched, locked>>

LeaveRead(t) ==
  /\ t \in inside
  /\ inside' = inside \ {t}
  /\ UNCHANGED <<latched, locked>>

Latch(t) ==
  /\ latched = {}
  /\ latched' = {t}
  /\ UNCHANGED <<inside, locked>>

EnterWrite(t) ==
  /\ latched = {t}
  /\ locked = {}
  /\ inside = {}
  /\ locked' = {t}
  /\ UNCHANGED <<inside, latched>>

LeaveWrite(t) ==
  /\ locked = {t}
  /\ latched' = {}
  /\ locked' = {}
  /\ UNCHANGED inside

Next ==
  \E t \in Threads :
    \/ EnterRead(t)
    \/ LeaveRead(t)
    \/ Latch(t)
    \/ EnterWrite(t)
    \/ LeaveWrite(t)

Spec == Init /\ [][Next]_doorVars
=============================================================================

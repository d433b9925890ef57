----------------------------- MODULE RetainedTimer -----------------------------
(***************************************************************************)
(* The cluster thread's book of retained messages with the differential    *)
(* timer in the place of a set from which any part may be due.  The        *)
(* entries of the timer are the handles of module Retained, and deleting a *)
(* handle is what the timer sees as a deleted value.  Timer::gc is not     *)
(* here: the documentation of Timer asks for it, the cluster never calls   *)
(* it.                                                                     *)
(***************************************************************************)
EXTENDS Retained

CONSTANTS Lives,    \* message_expiry_interval of a message that has one
          MaxTime   \* the model ends then

VARIABLES now, instant, list, dueAt, fired   \* as in module Timer

ASSUME RetainedTimerAssumption == MaxTime \in Nat /\ Lives \subseteq Nat

timer == <<now, instant, list, dueAt, fired>>
allVars == <<vars, timer>>

Handles == [topic : Topics, n : 1 .. MaxSets]

T == INSTANCE Timer WITH Values <- Handles

TimedInit == Init /\ T!Init

(* Mutant of SetExpiring: the timer gets a handle the book has not timed.  *)
SetExpiringUnbooked(t, secs) ==
  /\ HandleSetRetainTopic(t, FALSE)
  /\ T!Insert([topic |-> t, n |-> sets + 1], secs)
  /\ UNCHANGED <<now, instant, fired>>

(* handle_set_retain_topic of a message with an expiry, and without.       *)
SetExpiring(t, secs) ==
  /\ HandleSetRetainTopic(t, TRUE)
  /\ T!Insert([topic |-> t, n |-> sets + 1], secs)
  /\ UNCHANGED <<now, instant, fired>>

SetForGood(t) == HandleSetRetainTopic(t, FALSE) /\ UNCHANGED timer

Reset(t) == HandleResetRetainTopic(t) /\ UNCHANGED timer

(* retain_expires: the call of Timer::expired, then each handle it found.  *)
CollectExpired ==
  /\ Ready
  /\ T!Collect
  /\ LET gone == {list[i].value : i \in 1 .. T!Ripe(T!Elapsed)}
     IN IF gone = {} THEN UNCHANGED vars ELSE Expired(gone)
  /\ UNCHANGED <<now, dueAt>>

Expire == \E r \in due : RetainExpires(r) /\ UNCHANGED timer

Tick == T!Tick /\ UNCHANGED vars

TimedNext ==
  \/ \E t \in Topics, secs \in Lives : SetExpiring(t, secs)
  \/ \E t \in Topics : SetForGood(t) \/ Reset(t)
  \/ CollectExpired \/ Expire \/ Tick

TimedSpec == TimedInit /\ [][TimedNext]_allVars

(* Time passes, and the ticker wakes the cluster's loop, which ends with   *)
(* retain_expires.                                                         *)
FairSpec ==
  TimedSpec /\ WF_allVars(Tick) /\ WF_allVars(CollectExpired) /\ WF_allVars(Expire)
-----------------------------------------------------------------------------
(* The book with its timer behaves as the book with a set of handles: what *)
(* RetainedProofs proves of Retained holds with the differential timer.    *)
ImplementsBook == Spec

(* Nothing is lost or returned twice: a handle that was given an expiry    *)
(* and not deleted is in the timer exactly once until it is returned.      *)
NothingLost == T!NothingLost

(* Never late: the list has no entry to come later than it should, so a    *)
(* wake-up leaves no message that is overdue, whatever was set, reset and  *)
(* collected in between.                                                   *)
NeverLate == T!NeverLate

(* Every message with an expiry goes in the end: it expires, or another    *)
(* one or a reset takes its place, unless a reset has panicked the thread. *)
Expires ==
  \A v \in Handles : v \in T!Added ~> v \in fired \cup deleted \/ panicked
=============================================================================

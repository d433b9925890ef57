-------------------------------- MODULE Timer --------------------------------
(***************************************************************************)
(* The differential timer: a list in which each entry holds the time that  *)
(* is to pass after the entry before it.  Time is counted in one unit for  *)
(* the seconds of the interface and the microseconds of the code.          *)
(***************************************************************************)
EXTENDS Naturals, Sequences, FiniteSets, FiniteSetsExt

CONSTANTS Values,   \* what is timed; each value is added once
          MaxTime   \* the model ends then

VARIABLES
  now,       \* the clock
  instant,   \* Timer.instant
  list,      \* the entries, without Head and Sentinel
  deleted,   \* values with TimeoutValue::is_deleted
  dueAt,     \* when a value should expire; MaxTime + 1 before it is added
  fired      \* values returned by expired

vars == <<now, instant, list, deleted, dueAt, fired>>

Never == MaxTime + 1

Added == {v \in Values : dueAt[v] # Never}

Init ==
  /\ now = 0 /\ instant = 0
  /\ list = <<>>
  /\ deleted = {} /\ fired = {}
  /\ dueAt = [v \in Values |-> Never]

Elapsed == now - instant

(* The sum of the first i deltas.                                          *)
Until(i) ==
  LET sum[k \in 0 .. i] == IF k = 0 THEN 0 ELSE sum[k - 1] + list[k].delta
  IN sum[i]

(* Mutant of Place: the new entry goes behind the first longer one.        *)
PlaceBehind(delta) ==
  LET later == {i \in 1 .. Len(list) : delta < Until(i)}
  IN IF later = {} THEN Len(list) + 1 ELSE Min(later) + 1

(* Where add_timeout stops: in front of the first entry that comes later.  *)
Place(delta) ==
  LET later == {i \in 1 .. Len(list) : delta < Until(i)}
  IN IF later = {} THEN Len(list) + 1 ELSE Min(later)

(* add_timeout: the time since instant is taken off, saturating at 0; the  *)
(* entry holds what is left after those in front of it, and the entry      *)
(* behind it that much less.                                               *)
Insert(v, secs) ==
  /\ v \notin Added
  /\ now + secs <= MaxTime
  /\ LET ndelta == IF secs < Elapsed THEN 0 ELSE secs - Elapsed
         p == Place(ndelta)
         delta == ndelta - Until(p - 1)
         rest == SubSeq(list, p, Len(list))
         front == SubSeq(list, 1, p - 1)
     IN list' = Append(front, [delta |-> delta, value |-> v]) \o
                  IF rest = <<>> THEN <<>> ELSE [rest EXCEPT ![1].delta = @ - delta]
  /\ dueAt' = [dueAt EXCEPT ![v] = now + secs]

AddTimeout(v, secs) == Insert(v, secs) /\ UNCHANGED <<now, instant, deleted, fired>>

(* The values at the front of the list with deltas of at most micros; each *)
(* is compared with all of micros.                                         *)
Ripe(micros) ==
  LET unripe == {i \in 1 .. Len(list) : micros < list[i].delta}
  IN IF unripe = {} THEN Len(list) ELSE Min(unripe) - 1

(* Mutant of Collect: the entry at which it stops is lost.                 *)
CollectLoses ==
  /\ LET n == Ripe(Elapsed)
     IN /\ list' = SubSeq(list, n + 2, Len(list))
        /\ fired' = fired \cup ({list[i].value : i \in 1 .. n} \ deleted)
  /\ instant' = now

(* expired(None): what is ripe leaves the list and is returned unless it   *)
(* is deleted.                                                             *)
Collect ==
  /\ LET n == Ripe(Elapsed)
         rest == SubSeq(list, n + 1, Len(list))
     IN /\ list' = IF rest = <<>> THEN <<>> ELSE [rest EXCEPT ![1].delta = @ - Elapsed]
        /\ fired' = fired \cup ({list[i].value : i \in 1 .. n} \ deleted)
  /\ instant' = now

Expired == Collect /\ UNCHANGED <<now, deleted, dueAt>>

(* gc: deleted entries leave the list, the other deltas stay.              *)
Sweep ==
  /\ \E i \in DOMAIN list : list[i].value \in deleted
  /\ list' = SelectSeq(list, LAMBDA e : e.value \notin deleted)

Gc == Sweep /\ UNCHANGED <<now, instant, deleted, dueAt, fired>>

Delete(v) ==
  /\ v \in Added \ (deleted \cup fired)
  /\ deleted' = deleted \cup {v}
  /\ UNCHANGED <<now, instant, list, dueAt, fired>>

Tick ==
  /\ now < MaxTime
  /\ now' = now + 1
  /\ UNCHANGED <<instant, list, deleted, dueAt, fired>>

Next ==
  \/ \E v \in Values, secs \in 0 .. MaxTime : AddTimeout(v, secs)
  \/ Expired \/ Gc \/ Tick
  \/ \E v \in Values : Delete(v)

Spec == Init /\ [][Next]_vars

-----------------------------------------------------------------------------
(* Nothing is lost or returned twice: a value that was added and not       *)
(* deleted is in the list exactly once until expired returns it.           *)
NothingLost ==
  \A v \in Added \ deleted :
    Cardinality({i \in DOMAIN list : list[i].value = v}) = IF v \in fired THEN 0 ELSE 1

(* Never late: the list has no entry to come later than it should, so a    *)
(* call of expired leaves nothing that is overdue, whatever was added,     *)
(* deleted and collected in between.                                       *)
NeverLate ==
  \A i \in DOMAIN list : instant + Until(i) <= dueAt[list[i].value]

(* A value expires no earlier than it should.                              *)
NeverEarly == \A v \in fired : dueAt[v] <= now
=============================================================================

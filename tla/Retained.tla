------------------------------- MODULE Retained -------------------------------
(***************************************************************************)
(* The cluster thread's book of retained messages: the index retain_topics *)
(* of Retain handles, the expiry timer that shares them, and the trie of   *)
(* messages.  Deleting a handle marks it, and the timer later drops it in  *)
(* silence.                                                                *)
(*                                                                         *)
(* Shards post SetRetainTopic and ResetRetainTopic; the thread handles     *)
(* requests one at a time, so an action picks any request.  The timer is a *)
(* set from which any part may be due: when it fires is the business of    *)
(* module Timer.  The trie is a function from topics to messages, and      *)
(* removing a topic which is only an inner node panics.                    *)
(***************************************************************************)
EXTENDS Naturals, Sequences

CONSTANTS Topics,     \* topic names: non-empty sequences of levels
          MaxSets,    \* bound on the number of SetRetainTopic requests
          NoRetain    \* no entry

ASSUME RetainedAssumption ==
  /\ MaxSets \in Nat
  /\ NoRetain \notin [topic : Topics, n : Nat]

VARIABLES
  sets,           \* messages retained so far; the n-th message is n
  retain_topics,  \* topic -> Retain, or NoRetain
  retain_timer,   \* Retains that have an expiry
  deleted,        \* Retains marked as deleted
  due,            \* Retains collected by retain_expires, still to be handled
  messages,       \* retained_messages: topic -> message, 0 for none
  panicked        \* the cluster thread has panicked

vars == <<sets, retain_topics, retain_timer, deleted, due, messages, panicked>>

(* struct Retain: the topic and, as the identity of the Arc, the message.  *)
Retains == [topic : Topics, n : Nat]

Init ==
  /\ sets = 0
  /\ retain_topics = [t \in Topics |-> NoRetain]
  /\ retain_timer = {}
  /\ deleted = {}
  /\ due = {}
  /\ messages = [t \in Topics |-> 0]
  /\ panicked = FALSE

(* t is an inner node of the trie: a proper prefix of a retained topic.    *)
InnerNode(t) ==
  \E u \in Topics :
    messages[u] # 0 /\ Len(t) < Len(u) /\ SubSeq(u, 1, Len(t)) = t

(* Mutant of TrieRemove: the message stays.                                *)
TrieKeep(t) ==
  /\ UNCHANGED messages
  /\ panicked' = FALSE

(* RetainedTrie::remove.                                                   *)
TrieRemove(t) ==
  /\ messages' = [messages EXCEPT ![t] = 0]
  /\ panicked' = (messages[t] = 0 /\ InnerNode(t))

Ready == due = {} /\ ~panicked

(* Mutant of DeleteOld: the timer keeps the old handle.                    *)
KeepOld(t) == UNCHANGED deleted

(* Retain::delete on the handle that the index held for a topic, if any.   *)
DeleteOld(t) ==
  deleted' = IF retain_topics[t] = NoRetain THEN deleted ELSE deleted \cup {retain_topics[t]}

HandleSetRetainTopic(t, expires) ==
  /\ Ready
  /\ sets < MaxSets
  /\ sets' = sets + 1
  /\ LET retain == [topic |-> t, n |-> sets + 1]
     IN /\ retain_topics' = [retain_topics EXCEPT ![t] = retain]
        /\ retain_timer' = IF expires THEN retain_timer \cup {retain} ELSE retain_timer
  /\ DeleteOld(t)
  /\ messages' = [messages EXCEPT ![t] = sets + 1]
  /\ UNCHANGED <<due, panicked>>

HandleResetRetainTopic(t) ==
  /\ Ready
  /\ DeleteOld(t)
  /\ retain_topics' = [retain_topics EXCEPT ![t] = NoRetain]
  /\ TrieRemove(t)
  /\ UNCHANGED <<sets, retain_timer, due>>

(* Timer::expired: the entries of fired leave the timer, the deleted ones  *)
(* for good.                                                               *)
Expired(fired) ==
  /\ Ready
  /\ fired # {}
  /\ retain_timer' = retain_timer \ fired
  /\ due' = fired \ deleted
  /\ UNCHANGED <<sets, retain_topics, deleted, messages, panicked>>

(* The body of the loop of retain_expires.                                 *)
RetainExpires(r) ==
  /\ ~panicked
  /\ due' = due \ {r}
  /\ retain_topics' = [retain_topics EXCEPT ![r.topic] = NoRetain]
  /\ messages' = [messages EXCEPT ![r.topic] = 0]
  /\ panicked' = \/ r \in deleted
                 \/ messages[r.topic] = 0 /\ InnerNode(r.topic)
                 \/ retain_topics[r.topic] = NoRetain
  /\ UNCHANGED <<sets, retain_timer, deleted>>

Next ==
  \/ \E t \in Topics, expires \in BOOLEAN : HandleSetRetainTopic(t, expires)
  \/ \E t \in Topics : HandleResetRetainTopic(t)
  \/ \E fired \in SUBSET retain_timer : Expired(fired)
  \/ \E r \in due : RetainExpires(r)

Spec == Init /\ [][Next]_vars
-----------------------------------------------------------------------------
TypeOK ==
  /\ sets \in 0 .. MaxSets
  /\ retain_topics \in [Topics -> Retains \cup {NoRetain}]
  /\ retain_timer \subseteq Retains
  /\ deleted \subseteq Retains
  /\ due \subseteq Retains
  /\ messages \in [Topics -> Nat]
  /\ panicked \in BOOLEAN

(* A handle that the timer would still report is the one the index holds   *)
(* for its topic, so expiry removes the message it was set for and never a *)
(* newer one, and the "unexpected, missing topic_name" of retain_expires   *)
(* cannot happen.                                                          *)
ExpiryIsCurrent ==
  \A r \in (retain_timer \ deleted) \cup due : retain_topics[r.topic] = r

(* The index and the trie hold the same topics and messages.               *)
IndexMatchesTrie ==
  \A t \in Topics :
    messages[t] = IF retain_topics[t] = NoRetain THEN 0 ELSE retain_topics[t].n

(* A handle marked as deleted stays out of the index: what a later message *)
(* replaced or a reset removed does not come back.                         *)
DeletedStaysOut ==
  \A t \in Topics : retain_topics[t] \notin deleted

(* retain_expires never panics; only a reset may.                          *)
ExpiryNeverPanics ==
  [][\A r \in due : RetainExpires(r) => ~panicked']_vars

(* The inductive invariant.  Handles are numbered in the order they are    *)
(* made, which keeps a new handle from being one that is already deleted.  *)
IInv ==
  /\ TypeOK
  /\ ExpiryIsCurrent
  /\ IndexMatchesTrie
  /\ DeletedStaysOut
  /\ \A t \in Topics : retain_topics[t] # NoRetain =>
       retain_topics[t].topic = t /\ retain_topics[t].n \in 1 .. sets
  /\ \A r \in retain_timer \cup deleted \cup due : r.n \in 1 .. sets
  /\ due \cap (deleted \cup retain_timer) = {}
=============================================================================

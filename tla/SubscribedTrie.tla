---------------------------- MODULE SubscribedTrie ----------------------------
(***************************************************************************)
(* The trie of subscriptions as the shards share it.  Every call reads a   *)
(* version of the trie under the read lock, computes the next one with no  *)
(* lock held, and stores it under the write lock; match_topic_name too     *)
(* stores the version it has read.  Sessions subscribe, and when they end  *)
(* remove their filters one by one.                                        *)
(***************************************************************************)
EXTENDS TopicTrie

CONSTANTS
  Clients,     \* clients with a session
  Shards,      \* the threads that call
  ShardOf,     \* the shard of each client's session
  Filters,     \* the topic filters in use
  Topics,      \* the topic names in use
  Opts,        \* subscription identifiers and options
  MaxCalls,    \* calls in a behaviour
  Idle         \* no call is in progress

ASSUME TrieAssumption == ShardOf \in [Clients -> Shards] /\ <<>> \notin Filters /\ MaxCalls \in Nat

VARIABLES
  inner,        \* SubscribedTrie.inner: the root and stats.count
  subscriptions,\* what each session has subscribed, a function of its filters
  closing,      \* the clients whose session is being removed
  call,         \* the call each shard is in, with the version it has read
  calls,        \* calls made
  overlapped,   \* a call has replaced a version other than the one it read
  panicked

vars == <<inner, subscriptions, closing, call, calls, overlapped, panicked>>

Init ==
  /\ inner = [root |-> NewNode, count |-> 0]
  /\ subscriptions = [c \in Clients |-> Empty]
  /\ closing = {}
  /\ call = [s \in Shards |-> Idle]
  /\ calls = 0 /\ overlapped = FALSE /\ panicked = FALSE

(* The first half of a call: its arguments, and the version it reads.      *)
Read(s, op, c, f, opt) ==
  /\ ~panicked
  /\ call[s] = Idle
  /\ calls < MaxCalls /\ calls' = calls + 1
  /\ call' = [call EXCEPT ![s] = [op |-> op, client |-> c, filter |-> f, opt |-> opt, inner |-> inner]]
  /\ UNCHANGED <<inner, subscriptions, overlapped, panicked>>

(* A shard that removes a session does nothing else until that is done.    *)
Busy(s) == \E c \in closing : ShardOf[c] = s

(* rx_subscribe, for one of its filters.                                   *)
Subscribe(c, f, opt) ==
  /\ ~Busy(ShardOf[c])
  /\ Read(ShardOf[c], "sub", c, f, opt)
  /\ UNCHANGED closing

(* remove_topic_filters, for one of the filters.                           *)
Unsubscribe(c, f) ==
  /\ c \in closing \/ ~Busy(ShardOf[c])
  /\ f \in DOMAIN subscriptions[c]
  /\ Read(ShardOf[c], "unsub", c, f, subscriptions[c][f])
  /\ closing' = closing \cup {c}

(* match_topic_name; the topic name makes no difference to the trie.       *)
Match(s) ==
  /\ ~Busy(s)
  /\ Read(s, "match", Idle, Idle, Idle)
  /\ UNCHANGED closing

(* Mutant of Store: the count is taken from the version that is replaced.  *)
StoreLateCount(s, root, count) ==
  /\ inner' = [root |-> root, count |-> inner.count + count - call[s].inner.count]
  /\ overlapped' = (overlapped \/ inner # call[s].inner)
  /\ call' = [call EXCEPT ![s] = Idle]

(* The second half of every call: the new version replaces whatever is     *)
(* there.                                                                  *)
Store(s, root, count) ==
  /\ inner' = [root |-> root, count |-> count]
  /\ overlapped' = (overlapped \/ inner # call[s].inner)
  /\ call' = [call EXCEPT ![s] = Idle]

(* do_subscribe, and rx_subscribe's own record.                            *)
StoreSubscribe(s) ==
  /\ call[s] # Idle /\ call[s].op = "sub" /\ ~panicked
  /\ LET cl == call[s]
         root == Sub(cl.inner.root, cl.filter, cl.client, cl.opt)
         first == \A e \in Entries(cl.inner.root, <<>>) : e.filter # cl.filter
     IN /\ Store(s, root, cl.inner.count + IF first THEN 1 ELSE 0)
        /\ subscriptions' = [subscriptions EXCEPT ![cl.client] = (cl.filter :> cl.opt) @@ @]
  /\ UNCHANGED <<closing, calls, panicked>>

(* do_unsubscribe: stats.count saturates at 0.  The session is gone with   *)
(* its last filter.                                                        *)
StoreUnsubscribe(s) ==
  /\ call[s] # Idle /\ call[s].op = "unsub" /\ ~panicked
  /\ LET cl == call[s]
         res == Unsub(cl.inner.root, cl.filter, cl.client, cl.opt)
         left == DOMAIN subscriptions[cl.client] \ {cl.filter}
     IN IF res.panics
        THEN panicked' = TRUE /\ UNCHANGED <<inner, subscriptions, closing, call, overlapped>>
        ELSE /\ Store(s, res.node, IF res.last /\ cl.inner.count > 0
                                    THEN cl.inner.count - 1 ELSE cl.inner.count)
             /\ subscriptions' = [subscriptions EXCEPT ![cl.client] = Restrict(@, left)]
             /\ closing' = IF left = {} THEN closing \ {cl.client} ELSE closing
             /\ UNCHANGED panicked
  /\ UNCHANGED calls

(* match_topic_name stores the root it has read.                           *)
StoreMatch(s) ==
  /\ call[s] # Idle /\ call[s].op = "match" /\ ~panicked
  /\ Store(s, call[s].inner.root, call[s].inner.count)
  /\ UNCHANGED <<subscriptions, closing, calls, panicked>>

Next ==
  \/ \E c \in Clients, f \in Filters :
       Unsubscribe(c, f) \/ \E opt \in Opts : Subscribe(c, f, opt)
  \/ \E s \in Shards :
       Match(s) \/ StoreSubscribe(s) \/ StoreUnsubscribe(s) \/ StoreMatch(s)

Spec == Init /\ [][Next]_vars
-----------------------------------------------------------------------------
(* Unsubscribing leaves no dead branches: every node below the root has    *)
(* values or children, so that a trie of no subscriptions is empty again.  *)
(* Root and statistics are read and stored together: even when calls       *)
(* overlap and updates are lost, stats.count is the number of topic        *)
(* filters in the trie it is stored with.                                  *)
WellFormed ==
  /\ \A node \in Below(inner.root) : ~IsEmpty(node)
  /\ inner.count = Cardinality({e.filter : e \in Entries(inner.root, <<>>)})

(* match_topic_name finds exactly the subscriptions whose filter matches,  *)
(* in every trie that any calls can build.                                 *)
MatchesReference ==
  \A topic \in Topics :
    MatchTopic(inner.root, <<>>, topic) = {e \in Entries(inner.root, <<>>) : Matches(e.filter, topic)}

(* The index of the subscriptions covers the sessions: every filter of     *)
(* a session's subscriptions has an entry of its client in the trie.       *)
SessionsAreIndexed ==
  \A c \in Clients : \A f \in DOMAIN subscriptions[c] :
    \E e \in Entries(inner.root, <<>>) : e.filter = f /\ e.client = c

(* As long as no call replaces a version other than the one it has read,   *)
(* the trie covers the sessions and remove_value finds a value to remove,  *)
(* also when a client subscribes again with other options.                 *)
ExactWithoutOverlap == ~overlapped => SessionsAreIndexed /\ ~panicked
=============================================================================

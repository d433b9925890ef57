---------------------------- MODULE RetainedProofs ----------------------------
(***************************************************************************)
(* Proofs about the retained messages.  First the book of module Retained: *)
(* index, timer and trie agree.  Then the book with the differential       *)
(* timer: it implements the first, the timer loses no handle and none of   *)
(* its entries comes too late.                                             *)
(***************************************************************************)
EXTENDS RetainedTimer, SequenceLemmas, FiniteSetTheorems

USE RetainedAssumption

(* An empty book.                                                          *)
LEMMA Initially == Init => IInv
<1> SUFFICES ASSUME Init PROVE IInv
  OBVIOUS
<1>1. TypeOK
  <2>1. sets \in 0 .. MaxSets /\ messages \in [Topics -> Nat]
    BY DEF Init
  <2>2. retain_topics \in [Topics -> Retains \cup {NoRetain}]
    BY DEF Init
  <2>3. panicked \in BOOLEAN
    BY DEF Init
  <2>4. retain_timer \subseteq Retains /\ deleted \subseteq Retains /\ due \subseteq Retains
    BY DEF Init
  <2> QED BY <2>1, <2>2, <2>3, <2>4 DEF TypeOK
<1>2. ExpiryIsCurrent /\ IndexMatchesTrie /\ DeletedStaysOut
  BY DEF Init, ExpiryIsCurrent, IndexMatchesTrie, DeletedStaysOut
<1>3. \A t \in Topics : retain_topics[t] = NoRetain
  BY DEF Init
<1>4. retain_timer \cup deleted \cup due = {}
  BY DEF Init
<1> QED BY <1>1, <1>2, <1>3, <1>4 DEF IInv

(* A topic gets a message: the handle it had, if any, is marked deleted,   *)
(* so only the new one is reported for the topic.                          *)
LEMMA SetPreserves ==
  ASSUME IInv, NEW t \in Topics, NEW expires \in BOOLEAN, HandleSetRetainTopic(t, expires)
  PROVE  IInv'
<1> DEFINE retain == [topic |-> t, n |-> sets + 1]
<1>1. retain \in Retains /\ retain.topic = t /\ retain.n = sets + 1 /\ retain # NoRetain
  BY DEF IInv, TypeOK, Retains
<1>2. /\ retain_topics' = [retain_topics EXCEPT ![t] = retain]
      /\ retain_timer' = IF expires THEN retain_timer \cup {retain} ELSE retain_timer
      /\ messages' = [messages EXCEPT ![t] = sets + 1]
      /\ sets' = sets + 1 /\ sets < MaxSets
      /\ due = {} /\ due' = {} /\ panicked' = panicked
      /\ deleted' = IF retain_topics[t] = NoRetain THEN deleted
                    ELSE deleted \cup {retain_topics[t]}
  BY DEF HandleSetRetainTopic, DeleteOld, Ready
<1> HIDE DEF retain
<1>3. TypeOK'
  BY <1>1, <1>2 DEF IInv, TypeOK, Retains
<1>4. IndexMatchesTrie'
  BY <1>1, <1>2 DEF IInv, TypeOK, IndexMatchesTrie
<1>5. retain \notin retain_timer \cup deleted' \cup due
  <2>1. \A r \in retain_timer \cup deleted \cup due : r.n # sets + 1
    BY DEF IInv, TypeOK, Retains
  <2>2. retain_topics[t] # NoRetain => retain_topics[t].n # sets + 1
    BY DEF IInv, TypeOK
  <2> QED BY <1>1, <1>2, <2>1, <2>2
<1>6. ExpiryIsCurrent'
  <2> SUFFICES ASSUME NEW r \in (retain_timer' \ deleted') \cup due'
               PROVE  retain_topics'[r.topic] = r
    BY DEF ExpiryIsCurrent
  <2>1. CASE r = retain
    BY <1>1, <1>2, <2>1 DEF IInv, TypeOK
  <2>2. CASE r # retain
    <3>1. r \in retain_timer \ deleted /\ r \in Retains
      BY <1>2, <2>2 DEF IInv, TypeOK
    <3>2. retain_topics[r.topic] = r
      BY <3>1 DEF IInv, ExpiryIsCurrent
    <3>3. r.topic # t
      <4>1. r # NoRetain /\ r \notin deleted'
        BY <1>2, <3>1 DEF Retains
      <4> QED BY <1>2, <3>2, <4>1
    <3> QED BY <1>2, <3>1, <3>2, <3>3 DEF IInv, TypeOK, Retains
  <2> QED BY <2>1, <2>2
<1>7. DeletedStaysOut'
  <2> SUFFICES ASSUME NEW u \in Topics PROVE retain_topics'[u] \notin deleted'
    BY DEF DeletedStaysOut
  <2>1. CASE u = t
    BY <1>2, <1>5, <2>1 DEF IInv, TypeOK
  <2>2. CASE u # t
    <3>1. retain_topics'[u] = retain_topics[u]
      BY <1>2, <2>2 DEF IInv, TypeOK
    <3>2. retain_topics[u] \notin deleted
      BY DEF IInv, DeletedStaysOut
    <3>3. retain_topics[u] # retain_topics[t] \/ retain_topics[t] = NoRetain
      BY <2>2 DEF IInv, TypeOK
    <3> QED BY <1>2, <3>1, <3>2, <3>3
  <2> QED BY <2>1, <2>2
<1>8. \A u \in Topics : retain_topics'[u] # NoRetain =>
        retain_topics'[u].topic = u /\ retain_topics'[u].n \in 1 .. sets'
  BY <1>1, <1>2 DEF IInv, TypeOK
<1>9. \A r \in retain_timer' \cup deleted' \cup due' : r.n \in 1 .. sets'
  BY <1>1, <1>2 DEF IInv, TypeOK
<1>10. due' \cap (deleted' \cup retain_timer') = {}
  BY <1>2
<1> QED BY <1>3, <1>4, <1>6, <1>7, <1>8, <1>9, <1>10 DEF IInv

(* A topic loses its message, in the index and in the trie.                *)
LEMMA ResetPreserves ==
  ASSUME IInv, NEW t \in Topics, HandleResetRetainTopic(t)
  PROVE  IInv'
<1>1. /\ retain_topics' = [retain_topics EXCEPT ![t] = NoRetain]
      /\ messages' = [messages EXCEPT ![t] = 0]
      /\ panicked' \in BOOLEAN
      /\ sets' = sets /\ retain_timer' = retain_timer
      /\ due = {} /\ due' = {}
      /\ deleted' = IF retain_topics[t] = NoRetain THEN deleted
                    ELSE deleted \cup {retain_topics[t]}
  BY DEF HandleResetRetainTopic, DeleteOld, Ready, TrieRemove
<1>2. TypeOK'
  BY <1>1 DEF IInv, TypeOK
<1>3. IndexMatchesTrie'
  BY <1>1 DEF IInv, TypeOK, IndexMatchesTrie
<1>4. ExpiryIsCurrent'
  <2> SUFFICES ASSUME NEW r \in retain_timer, r \notin deleted'
               PROVE  retain_topics'[r.topic] = r
    BY <1>1 DEF ExpiryIsCurrent
  <2>1. r \in Retains /\ r # NoRetain /\ r \notin deleted
    BY <1>1 DEF IInv, TypeOK, Retains
  <2>2. retain_topics[r.topic] = r
    BY <2>1 DEF IInv, ExpiryIsCurrent
  <2>3. r.topic # t
    BY <1>1, <2>1, <2>2
  <2> QED BY <1>1, <2>1, <2>2, <2>3 DEF IInv, TypeOK, Retains
<1>5. DeletedStaysOut'
  <2> SUFFICES ASSUME NEW u \in Topics PROVE retain_topics'[u] \notin deleted'
    BY DEF DeletedStaysOut
  <2>1. CASE u = t
    <3>1. retain_topics'[u] = NoRetain
      BY <1>1, <2>1 DEF IInv, TypeOK
    <3>2. NoRetain \notin deleted'
      BY <1>2 DEF TypeOK, Retains
    <3> QED BY <3>1, <3>2
  <2>2. CASE u # t
    <3>1. retain_topics'[u] = retain_topics[u]
      BY <1>1, <2>2 DEF IInv, TypeOK
    <3>2. retain_topics[u] \notin deleted
      BY DEF IInv, DeletedStaysOut
    <3>3. retain_topics[u] # retain_topics[t] \/ retain_topics[t] = NoRetain
      BY <2>2 DEF IInv, TypeOK
    <3> QED BY <1>1, <3>1, <3>2, <3>3
  <2> QED BY <2>1, <2>2
<1>6. \A u \in Topics : retain_topics'[u] # NoRetain =>
        retain_topics'[u].topic = u /\ retain_topics'[u].n \in 1 .. sets'
  BY <1>1 DEF IInv, TypeOK
<1>7. \A r \in retain_timer' \cup deleted' \cup due' : r.n \in 1 .. sets'
  BY <1>1 DEF IInv, TypeOK
<1> QED BY <1>1, <1>2, <1>3, <1>4, <1>5, <1>6, <1>7 DEF IInv

(* The timer hands over what has expired, without what was deleted.        *)
LEMMA ExpiredPreserves ==
  ASSUME IInv, NEW ripe \in SUBSET retain_timer, Expired(ripe)
  PROVE  IInv'
<1>1. /\ retain_timer' = retain_timer \ ripe /\ due' = ripe \ deleted
      /\ UNCHANGED <<sets, retain_topics, deleted, messages, panicked>>
  BY DEF Expired
<1>2. TypeOK' /\ IndexMatchesTrie' /\ DeletedStaysOut'
  BY <1>1 DEF IInv, TypeOK, IndexMatchesTrie, DeletedStaysOut
<1>3. (retain_timer' \ deleted') \cup due' \subseteq retain_timer \ deleted
  BY <1>1
<1>4. ExpiryIsCurrent'
  BY <1>1, <1>3 DEF IInv, ExpiryIsCurrent
<1> QED BY <1>1, <1>2, <1>4 DEF IInv

(* The loop of retain_expires: the handle it takes is in the index, and    *)
(* the others that are due or in the timer are of other topics.            *)
LEMMA ExpiryStep ==
  ASSUME IInv, NEW r \in due, RetainExpires(r)
  PROVE  IInv' /\ ~panicked'
<1>1. /\ due' = due \ {r}
      /\ retain_topics' = [retain_topics EXCEPT ![r.topic] = NoRetain]
      /\ messages' = [messages EXCEPT ![r.topic] = 0]
      /\ UNCHANGED <<sets, retain_timer, deleted>>
  BY DEF RetainExpires
<1>2. /\ r \in Retains /\ r.topic \in Topics /\ r # NoRetain /\ r.n \in 1 .. sets
      /\ retain_topics[r.topic] = r /\ r \notin deleted
  BY DEF IInv, TypeOK, ExpiryIsCurrent, Retains
<1>3. messages[r.topic] # 0
  BY <1>2 DEF IInv, TypeOK, IndexMatchesTrie
<1>4. panicked' = FALSE
  BY <1>2, <1>3 DEF RetainExpires
<1>5. TypeOK' /\ IndexMatchesTrie'
  BY <1>1, <1>2, <1>4 DEF IInv, TypeOK, IndexMatchesTrie
<1>6. \A q \in (retain_timer \ deleted) \cup due : q.topic = r.topic => q = r
  BY <1>2 DEF IInv, ExpiryIsCurrent
<1>7. r \notin retain_timer
  BY DEF IInv
<1>8. ExpiryIsCurrent'
  BY <1>1, <1>2, <1>6, <1>7 DEF IInv, TypeOK, ExpiryIsCurrent, Retains
<1>9. DeletedStaysOut'
  <2>1. NoRetain \notin deleted
    BY DEF IInv, TypeOK, Retains
  <2> QED BY <1>1, <2>1 DEF IInv, TypeOK, DeletedStaysOut
<1>10. \A u \in Topics : retain_topics'[u] # NoRetain =>
        retain_topics'[u].topic = u /\ retain_topics'[u].n \in 1 .. sets'
  BY <1>1, <1>2 DEF IInv, TypeOK
<1>11. \A q \in retain_timer' \cup deleted' \cup due' : q.n \in 1 .. sets'
  BY <1>1 DEF IInv
<1>12. due' \cap (deleted' \cup retain_timer') = {}
  BY <1>1 DEF IInv
<1> QED BY <1>4, <1>5, <1>8, <1>9, <1>10, <1>11, <1>12 DEF IInv

(* Every step of the cluster thread keeps the invariant.                   *)
LEMMA Inductive == IInv /\ [Next]_vars => IInv'
<1> SUFFICES ASSUME IInv, [Next]_vars PROVE IInv'
  OBVIOUS
<1>1. ASSUME NEW t \in Topics, NEW expires \in BOOLEAN, HandleSetRetainTopic(t, expires)
      PROVE  IInv'
  BY <1>1, SetPreserves
<1>2. ASSUME NEW t \in Topics, HandleResetRetainTopic(t) PROVE IInv'
  BY <1>2, ResetPreserves
<1>3. ASSUME NEW ripe \in SUBSET retain_timer, Expired(ripe) PROVE IInv'
  BY <1>3, ExpiredPreserves
<1>4. ASSUME NEW r \in due, RetainExpires(r) PROVE IInv'
  BY <1>4, ExpiryStep
<1>5. CASE UNCHANGED vars
  BY <1>5 DEF vars, IInv, TypeOK, ExpiryIsCurrent, IndexMatchesTrie, DeletedStaysOut
<1> QED BY <1>1, <1>2, <1>3, <1>4, <1>5 DEF Next

(* The inductive invariant holds in every reachable state of the cluster's *)
(* book of retained messages.                                              *)
THEOREM Invariance == Spec => []IInv
BY Initially, Inductive, PTL DEF Spec

(* Whatever is set, reset and expired, in any order and number, a handle   *)
(* the timer still reports is the current one of its topic.                *)
THEOREM Currency == Spec => []ExpiryIsCurrent
<1>1. IInv => ExpiryIsCurrent
  BY DEF IInv
<1> QED BY <1>1, Invariance, PTL

(* The index of handles and the trie of messages agree in every state.     *)
THEOREM Agreement == Spec => []IndexMatchesTrie
<1>1. IInv => IndexMatchesTrie
  BY DEF IInv
<1> QED BY <1>1, Invariance, PTL

(* retain_expires reaches neither its assertion nor its unreachable!, nor  *)
(* the one in the trie's remove.                                           *)
THEOREM ExpiryIsSafe == Spec => ExpiryNeverPanics
<1>1. IInv => [\A r \in due : RetainExpires(r) => ~panicked']_vars
  BY ExpiryStep
<1> QED BY <1>1, Invariance, PTL DEF ExpiryNeverPanics

HIDE RetainedAssumption
-----------------------------------------------------------------------------
(* The book with the differential timer.                                   *)

(* The entries of the list.                                                *)
Entries == [delta : Nat, value : Handles]
-----------------------------------------------------------------------------
(* Sums of deltas.                                                         *)

(* Until, for any list.                                                    *)
Sum(s, i) ==
  LET sum[k \in 0 .. i] == IF k = 0 THEN 0 ELSE sum[k - 1] + s[k].delta
  IN sum[i]

(* The function by which Sum is defined.                                   *)
SumsTo(f, s, n) == f = [k \in 0 .. n |-> IF k = 0 THEN 0 ELSE f[k - 1] + s[k].delta]

(* There is one for every place.                                           *)
LEMMA SumsExist ==
  ASSUME NEW s
  PROVE  \A n \in Nat : \E f : SumsTo(f, s, n)
<1> DEFINE S == {n \in Nat : \E f : SumsTo(f, s, n)}
<1>1. 0 \in S
  <2> DEFINE f == [k \in 0 .. 0 |-> 0]
  <2>1. f = [k \in 0 .. 0 |-> IF k = 0 THEN 0 ELSE f[k - 1] + s[k].delta]  OBVIOUS
  <2> HIDE DEF f
  <2>2. SumsTo(f, s, 0)  BY <2>1 DEF SumsTo
  <2> QED  BY <2>2
<1>2. ASSUME NEW n \in Nat, n \in S  PROVE n + 1 \in S
  <2>1. PICK g : SumsTo(g, s, n)  BY <1>2
  <2>2. \A k \in 0 .. n : g[k] = IF k = 0 THEN 0 ELSE g[k - 1] + s[k].delta
    BY <2>1 DEF SumsTo
  <2> DEFINE f == [k \in 0 .. n + 1 |-> IF k =< n THEN g[k] ELSE g[n] + s[k].delta]
  <2>3. ASSUME NEW k \in 0 .. n + 1
        PROVE  f[k] = IF k = 0 THEN 0 ELSE f[k - 1] + s[k].delta
    <3>1. CASE k \in 0 .. n
      <4>1. g[k] = IF k = 0 THEN 0 ELSE g[k - 1] + s[k].delta  BY <2>2, <3>1
      <4>2. f[k] = g[k] /\ (k # 0 => f[k - 1] = g[k - 1])  BY <3>1
      <4> QED  BY <4>1, <4>2
    <3>2. CASE k = n + 1
      <4>1. f[k] = g[n] + s[k].delta /\ f[k - 1] = g[n] /\ k # 0  BY <3>2
      <4> QED  BY Zenon, <4>1
    <3> QED  BY <3>1, <3>2
  <2>4. f = [k \in 0 .. n + 1 |-> f[k]]  OBVIOUS
  <2> HIDE DEF f
  <2>5. SumsTo(f, s, n + 1)  BY <2>3, <2>4 DEF SumsTo
  <2> QED  BY <2>5
<1> HIDE DEF S
<1>3. \A n \in Nat : n \in S  BY Zenon, <1>1, <1>2, Induction
<1> QED  BY <1>3 DEF S

(* Two of them agree where both are defined.                               *)
LEMMA SumsAgree ==
  ASSUME NEW s, NEW m \in Nat, NEW n \in Nat, NEW f, NEW g, SumsTo(f, s, m), SumsTo(g, s, n)
  PROVE  \A k \in Nat : k =< m /\ k =< n => f[k] = g[k]
<1> DEFINE S == {k \in Nat : k =< m /\ k =< n => f[k] = g[k]}
<1>1. \A k \in 0 .. m : f[k] = IF k = 0 THEN 0 ELSE f[k - 1] + s[k].delta  BY DEF SumsTo
<1>2. \A k \in 0 .. n : g[k] = IF k = 0 THEN 0 ELSE g[k - 1] + s[k].delta  BY DEF SumsTo
<1>3. 0 \in S
  <2>1. f[0] = 0 /\ g[0] = 0  BY <1>1, <1>2
  <2> QED  BY <2>1
<1>4. ASSUME NEW k \in Nat, k \in S  PROVE k + 1 \in S
  <2> SUFFICES ASSUME k + 1 =< m, k + 1 =< n  PROVE f[k + 1] = g[k + 1]  OBVIOUS
  <2>1. k + 1 \in 0 .. m /\ k + 1 \in 0 .. n /\ k + 1 # 0 /\ (k + 1) - 1 = k  OBVIOUS
  <2>2. f[k + 1] = f[k] + s[k + 1].delta /\ g[k + 1] = g[k] + s[k + 1].delta
    BY <1>1, <1>2, <2>1
  <2>3. f[k] = g[k]  BY <1>4
  <2> QED  BY <2>2, <2>3
<1> HIDE DEF S
<1>5. \A k \in Nat : k \in S  BY Zenon, <1>3, <1>4, Induction
<1> QED  BY <1>5 DEF S

(* Sum, entry by entry.                                                    *)
LEMMA SumSteps ==
  ASSUME NEW s
  PROVE  Sum(s, 0) = 0 /\ \A n \in Nat : Sum(s, n + 1) = Sum(s, n) + s[n + 1].delta
<1> DEFINE F(n) == CHOOSE f : SumsTo(f, s, n)
<1>1. ASSUME NEW n \in Nat  PROVE SumsTo(F(n), s, n) /\ Sum(s, n) = F(n)[n]
  <2>1. SumsTo(F(n), s, n)  BY SumsExist
  <2>2. Sum(s, n) = F(n)[n]  BY DEF Sum, SumsTo
  <2> QED  BY <2>1, <2>2
<1> HIDE DEF F
<1>2. Sum(s, 0) = 0
  <2>1. SumsTo(F(0), s, 0) /\ Sum(s, 0) = F(0)[0]  BY <1>1
  <2> QED  BY <2>1 DEF SumsTo
<1>3. ASSUME NEW n \in Nat  PROVE Sum(s, n + 1) = Sum(s, n) + s[n + 1].delta
  <2> DEFINE f == F(n + 1)
             g == F(n)
  <2>1. /\ SumsTo(f, s, n + 1) /\ Sum(s, n + 1) = f[n + 1]
        /\ SumsTo(g, s, n) /\ Sum(s, n) = g[n]
    BY <1>1
  <2> HIDE DEF f, g
  <2>2. f[n] = g[n]
    <3>1. n + 1 \in Nat /\ n =< n + 1 /\ n =< n  OBVIOUS
    <3> QED  BY <2>1, <3>1, SumsAgree
  <2>3. f[n + 1] = f[n] + s[n + 1].delta
    <3>1. n + 1 \in 0 .. n + 1 /\ n + 1 # 0 /\ (n + 1) - 1 = n  OBVIOUS
    <3>2. f[n + 1] = IF n + 1 = 0 THEN 0 ELSE f[(n + 1) - 1] + s[n + 1].delta
      BY <2>1, <3>1 DEF SumsTo
    <3> QED  BY <3>1, <3>2
  <2> QED  BY Zenon, <2>1, <2>2, <2>3
<1> QED  BY <1>2, <1>3

(* Deltas are natural numbers, and so are their sums.                      *)
LEMMA SumTyped ==
  ASSUME NEW s \in Seq(Entries)
  PROVE  \A n \in 0 .. Len(s) : Sum(s, n) \in Nat
<1> DEFINE S == {n \in Nat : n =< Len(s) => Sum(s, n) \in Nat}
<1>1. 0 \in S  BY SumSteps
<1>2. ASSUME NEW n \in Nat, n \in S  PROVE n + 1 \in S
  <2> SUFFICES ASSUME n + 1 =< Len(s)  PROVE Sum(s, n + 1) \in Nat  OBVIOUS
  <2>1. Len(s) \in Nat /\ n + 1 \in 1 .. Len(s)  BY LenProperties
  <2>2. s[n + 1] \in Entries  BY <2>1, ElementOfSeq
  <2>3. s[n + 1].delta \in Nat  BY <2>2 DEF Entries
  <2>4. Sum(s, n) \in Nat  BY <1>2, <2>1
  <2>5. Sum(s, n + 1) = Sum(s, n) + s[n + 1].delta  BY SumSteps
  <2> QED  BY <2>3, <2>4, <2>5
<1> HIDE DEF S
<1>3. \A n \in Nat : n \in S  BY Zenon, <1>1, <1>2, Induction
<1>4. ASSUME NEW n \in 0 .. Len(s)  PROVE Sum(s, n) \in Nat
  <2>1. n \in Nat /\ n =< Len(s)  BY LenProperties
  <2>2. n \in S  BY <1>3, <2>1
  <2> QED  BY <2>1, <2>2 DEF S
<1> QED  BY <1>4

(* The m deltas behind a in s are those behind b in t.                     *)
SameDeltas(s, a, t, b, m) ==
  a + m =< Len(s) /\ b + m =< Len(t) /\ \A i \in 1 .. m : t[b + i].delta = s[a + i].delta

(* The sums differ by c from there on.                                     *)
Apart(s, a, t, b, m, c) == \A i \in 0 .. m : Sum(t, b + i) = Sum(s, a + i) + c

(* Where the same deltas follow, the sums keep their distance.             *)
LEMMA SumsFollow ==
  ASSUME NEW s \in Seq(Entries), NEW t \in Seq(Entries),
         NEW a \in Nat, NEW b \in Nat, NEW m \in Nat, SameDeltas(s, a, t, b, m),
         NEW c \in Int, Sum(t, b) = Sum(s, a) + c
  PROVE  Apart(s, a, t, b, m, c)
<1>a. a + m =< Len(s) /\ b + m =< Len(t) /\ \A i \in 1 .. m : t[b + i].delta = s[a + i].delta
  BY DEF SameDeltas
<1> DEFINE S == {i \in Nat : i =< m => Sum(t, b + i) = Sum(s, a + i) + c}
<1>1. 0 \in S
  <2>1. b + 0 = b /\ a + 0 = a  OBVIOUS
  <2> QED  BY <2>1
<1>2. ASSUME NEW i \in Nat, i \in S  PROVE i + 1 \in S
  <2> SUFFICES ASSUME i + 1 =< m  PROVE Sum(t, b + (i + 1)) = Sum(s, a + (i + 1)) + c  OBVIOUS
  <2>1. /\ Len(s) \in Nat /\ Len(t) \in Nat
        /\ (b + i) + 1 = b + (i + 1) /\ (a + i) + 1 = a + (i + 1)
        /\ a + (i + 1) \in 1 .. Len(s) /\ a + i \in 0 .. Len(s) /\ i + 1 \in 1 .. m
        /\ b + i \in Nat /\ a + i \in Nat /\ i =< m
    BY <1>a, LenProperties
  <2>2. s[a + (i + 1)] \in Entries  BY <2>1, ElementOfSeq
  <2> DEFINE d == s[a + (i + 1)].delta
             u == Sum(s, a + i)
  <2>3. d \in Nat  BY <2>2 DEF Entries
  <2>4. u \in Nat  BY <2>1, SumTyped
  <2>5. Sum(t, (b + i) + 1) = Sum(t, b + i) + t[(b + i) + 1].delta  BY <2>1, SumSteps
  <2>6. Sum(s, (a + i) + 1) = u + s[(a + i) + 1].delta  BY <2>1, SumSteps
  <2>7. Sum(t, b + i) = u + c  BY <1>2, <2>1
  <2>8. t[b + (i + 1)].delta = d  BY <1>a, <2>1
  <2> HIDE DEF d, u
  <2>9. Sum(t, b + (i + 1)) = (u + c) + d  BY Zenon, <2>1, <2>5, <2>7, <2>8
  <2>10. Sum(s, a + (i + 1)) = u + d  BY Zenon, <2>1, <2>6 DEF d
  <2> QED  BY <2>3, <2>4, <2>9, <2>10
<1> HIDE DEF S
<1>3. \A i \in Nat : i \in S  BY Zenon, <1>1, <1>2, Induction
<1>4. ASSUME NEW i \in 0 .. m  PROVE Sum(t, b + i) = Sum(s, a + i) + c
  <2>1. i \in Nat /\ i =< m  OBVIOUS
  <2>2. i \in S  BY <1>3, <2>1
  <2> QED  BY <2>1, <2>2 DEF S
<1> QED  BY <1>4 DEF Apart

(* What the timer calls Until.                                             *)
LEMMA UntilIsSum == \A i : T!Until(i) = Sum(list, i) /\ T!Until(i)' = Sum(list', i)
BY DEF T!Until, Sum
-----------------------------------------------------------------------------
(* What add_timeout and expired make of the list.                         *)

(* Place stops in front of the first entry that comes later.               *)
LEMMA PlaceInList ==
  ASSUME list \in Seq(Entries), NEW delta \in Nat, NEW p, p = T!Place(delta)
  PROVE  /\ p \in 1 .. Len(list) + 1
         /\ Sum(list, p - 1) =< delta
         /\ p =< Len(list) => delta < Sum(list, p)
<1> DEFINE later == {i \in 1 .. Len(list) : delta < Sum(list, i)}
<1>1. Len(list) \in Nat  BY LenProperties
<1>2. later \in SUBSET Nat  BY <1>1
<1>3. p = IF later = {} THEN Len(list) + 1 ELSE T!Min(later)
  <2>1. \A i : T!Until(i) = Sum(list, i)  BY Zenon, UntilIsSum
  <2> QED  BY <2>1 DEF T!Place
<1>4. /\ p \in 1 .. Len(list) + 1
      /\ p =< Len(list) => delta < Sum(list, p)
      /\ \A i \in 1 .. Len(list) : i < p => ~ (delta < Sum(list, i))
  <2>1. CASE later = {}
    <3>1. p = Len(list) + 1  BY <1>3, <2>1
    <3> QED  BY <1>1, <2>1, <3>1
  <2>2. CASE later # {}
    <3>1. \E x \in later : \A y \in later : x =< y  BY <1>2, <2>2, LeastExists
    <3>2. T!Min(later) \in later /\ \A y \in later : T!Min(later) =< y  BY <3>1 DEF T!Min
    <3>3. p \in later /\ \A y \in later : p =< y  BY <1>3, <2>2, <3>2
    <3> QED  BY <1>1, <3>3
  <2> QED  BY <2>1, <2>2
<1>5. Sum(list, p - 1) =< delta
  <2>1. CASE p = 1
    <3>1. p - 1 = 0 /\ Sum(list, 0) = 0  BY <2>1, SumSteps
    <3> QED  BY <3>1
  <2>2. CASE p # 1
    <3>1. p - 1 \in 1 .. Len(list) /\ p - 1 < p /\ p - 1 \in 0 .. Len(list)  BY <1>1, <1>4, <2>2
    <3>2. ~ (delta < Sum(list, p - 1))  BY <1>4, <3>1
    <3>3. Sum(list, p - 1) \in Nat  BY <3>1, SumTyped
    <3> QED  BY <3>2, <3>3
  <2> QED  BY <2>1, <2>2
<1> QED  BY <1>4, <1>5

(* Ripe counts entries at the front of the list; the one behind them has   *)
(* more than micros left.                                                  *)
LEMMA RipeInList ==
  ASSUME list \in Seq(Entries), NEW micros \in Nat, NEW k, k = T!Ripe(micros)
  PROVE  k \in 0 .. Len(list) /\ (k < Len(list) => micros < list[k + 1].delta)
<1> DEFINE I == {i \in 1 .. Len(list) : micros < list[i].delta}
<1>1. Len(list) \in Nat  BY LenProperties
<1>2. I \in SUBSET Nat  BY <1>1
<1>3. k = IF I = {} THEN Len(list) ELSE T!Min(I) - 1  BY DEF T!Ripe
<1>4. CASE I = {}  BY <1>1, <1>3, <1>4
<1>5. CASE I # {}
  <2>1. \E x \in I : \A y \in I : x =< y  BY <1>2, <1>5, LeastExists
  <2>2. T!Min(I) \in I  BY <2>1 DEF T!Min
  <2>3. k = T!Min(I) - 1  BY <1>3, <1>5
  <2> DEFINE x == T!Min(I)
  <2>4. x \in 1 .. Len(list) /\ micros < list[x].delta /\ k = x - 1  BY <2>2, <2>3
  <2> HIDE DEF x, I
  <2>5. k + 1 = x  BY <1>1, <2>4
  <2> QED  BY <1>1, <2>4, <2>5
<1> QED  BY <1>4, <1>5

(* A list, or an empty one, with time taken off its first entry.           *)
Shortened(s, d) == IF s = <<>> THEN <<>> ELSE [s EXCEPT ![1].delta = @ - d]

(* It keeps its values, and the other deltas.                              *)
LEMMA ShortenedEntries ==
  ASSUME NEW s \in Seq(Entries), NEW d \in Nat, s # <<>> => d =< s[1].delta
  PROVE  /\ Shortened(s, d) \in Seq(Entries)
         /\ Len(Shortened(s, d)) = Len(s)
         /\ \A i \in 1 .. Len(s) :
              /\ Shortened(s, d)[i].value = s[i].value
              /\ Shortened(s, d)[i].delta = IF i = 1 THEN s[i].delta - d ELSE s[i].delta
<1>1. CASE s = <<>>
  <2>1. Shortened(s, d) = s /\ 1 .. Len(s) = {}  BY <1>1 DEF Shortened
  <2> QED  BY Zenon, <2>1
<1>2. CASE s # <<>>
  <2> DEFINE e == [delta |-> s[1].delta - d, value |-> s[1].value]
             t == [s EXCEPT ![1] = e]
  <2>1. 1 \in 1 .. Len(s)  BY <1>2, EmptySeq
  <2>2. s[1] \in Entries  BY <2>1, ElementOfSeq
  <2>3. e \in Entries  BY <1>2, <2>2 DEF Entries
  <2>4. [s[1] EXCEPT !.delta = @ - d] = e  BY <2>2 DEF Entries
  <2>5. Shortened(s, d) = t  BY <1>2, <2>4, Zenon DEF Shortened
  <2>6. e.value = s[1].value /\ e.delta = s[1].delta - d  OBVIOUS
  <2> HIDE DEF e
  <2>7. /\ t \in Seq(Entries)
        /\ Len(t) = Len(s)
        /\ \A j \in 1 .. Len(s) : t[j] = IF j = 1 THEN e ELSE s[j]
    BY <2>1, <2>3, ExceptSeq
  <2> HIDE DEF t
  <2>8. ASSUME NEW i \in 1 .. Len(s)
        PROVE  t[i].value = s[i].value /\ t[i].delta = IF i = 1 THEN s[i].delta - d ELSE s[i].delta
    BY <2>6, <2>7, Zenon
  <2> QED  BY Zenon, <2>5, <2>7, <2>8
<1> QED  BY <1>1, <1>2

(* What Insert makes of a list: the new value at position p, the others in *)
(* their order.                                                            *)
Spliced(s, p, v, d) ==
  Append(SubSeq(s, 1, p - 1), [delta |-> d, value |-> v])
    \o Shortened(SubSeq(s, p, Len(s)), d)

(* The new entry is at p, and those behind it have moved by one.           *)
LEMMA SplicedEntries ==
  ASSUME NEW s \in Seq(Entries), NEW p \in 1 .. Len(s) + 1, NEW v \in Handles, NEW d \in Nat,
         p =< Len(s) => d =< s[p].delta
  PROVE  /\ Spliced(s, p, v, d) \in Seq(Entries)
         /\ Len(Spliced(s, p, v, d)) = Len(s) + 1
         /\ \A i \in 1 .. Len(s) + 1 :
              LET e == Spliced(s, p, v, d)[i]
              IN /\ i < p => e = s[i]
                 /\ i = p => e.value = v /\ e.delta = d
                 /\ i > p => e.value = s[i - 1].value
                 /\ i = p + 1 => e.delta = s[p].delta - d
                 /\ i > p + 1 => e.delta = s[i - 1].delta
<1> DEFINE front == SubSeq(s, 1, p - 1)
           rest == SubSeq(s, p, Len(s))
           e == [delta |-> d, value |-> v]
           a == Append(front, e)
           b == Shortened(rest, d)
<1>1. Len(s) \in Nat /\ p \in Nat  BY LenProperties
<1>2. /\ front \in Seq(Entries) /\ Len(front) = p - 1
      /\ \A i \in 1 .. p - 1 : front[i] = s[i]
  BY <1>1
<1>3. /\ rest \in Seq(Entries) /\ Len(rest) = Len(s) + 1 - p
      /\ \A i \in 1 .. Len(s) + 1 - p : rest[i] = s[(p + i) - 1]
  BY <1>1
<1> HIDE DEF front, rest
<1>4. e \in Entries /\ e.value = v /\ e.delta = d  BY DEF Entries
<1> HIDE DEF e
<1>5. /\ a \in Seq(Entries) /\ Len(a) = p
      /\ \A i \in 1 .. p - 1 : a[i] = s[i]
      /\ a[p] = e
  <2>1. /\ a \in Seq(Entries) /\ Len(a) = Len(front) + 1
        /\ \A i \in 1 .. Len(front) : a[i] = front[i]
        /\ a[Len(front) + 1] = e
    BY <1>2, <1>4, AppendProperties
  <2> HIDE DEF a
  <2>2. (p - 1) + 1 = p  BY <1>1
  <2> QED  BY Zenon, <1>2, <2>1, <2>2
<1>6. rest # <<>> => d =< rest[1].delta
  <2> SUFFICES ASSUME rest # <<>>  PROVE d =< rest[1].delta  OBVIOUS
  <2>1. Len(rest) # 0 /\ Len(rest) \in Nat  BY <1>3, EmptySeq
  <2>2. p =< Len(s) /\ 1 \in 1 .. Len(s) + 1 - p /\ (p + 1) - 1 = p  BY <1>1, <1>3, <2>1
  <2>3. rest[1] = s[p]  BY <1>3, <2>2
  <2> QED  BY <2>2, <2>3
<1>7. /\ b \in Seq(Entries) /\ Len(b) = Len(s) + 1 - p
      /\ \A i \in 1 .. Len(s) + 1 - p :
           /\ b[i].value = s[(p + i) - 1].value
           /\ b[i].delta = IF i = 1 THEN s[(p + i) - 1].delta - d ELSE s[(p + i) - 1].delta
  <2>1. /\ b \in Seq(Entries) /\ Len(b) = Len(rest)
        /\ \A i \in 1 .. Len(rest) :
              /\ b[i].value = rest[i].value
              /\ b[i].delta = IF i = 1 THEN rest[i].delta - d ELSE rest[i].delta
    BY <1>3, <1>6, ShortenedEntries
  <2> HIDE DEF b
  <2> QED  BY Zenon, <1>3, <2>1
<1>8. Spliced(s, p, v, d) = a \o b  BY Zenon DEF Spliced, front, rest, e
<1> HIDE DEF a, b
<1>9. /\ a \o b \in Seq(Entries)
      /\ Len(a \o b) = Len(a) + Len(b)
      /\ \A i \in 1 .. Len(a) + Len(b) : (a \o b)[i] = IF i <= Len(a) THEN a[i] ELSE b[i - Len(a)]
  <2>1. a \in Seq(Entries) /\ b \in Seq(Entries)  BY <1>5, <1>7
  <2> QED  BY <2>1, ConcatProperties
<1>10. Len(a \o b) = Len(s) + 1  BY <1>1, <1>5, <1>7, <1>9
<1>11. ASSUME NEW i \in 1 .. Len(s) + 1
       PROVE  /\ i < p => (a \o b)[i] = s[i]
              /\ i = p => (a \o b)[i].value = v /\ (a \o b)[i].delta = d
              /\ i > p => (a \o b)[i].value = s[i - 1].value
              /\ i = p + 1 => (a \o b)[i].delta = s[p].delta - d
              /\ i > p + 1 => (a \o b)[i].delta = s[i - 1].delta
  <2>1. (a \o b)[i] = IF i <= p THEN a[i] ELSE b[i - p]
    <3>1. i \in 1 .. Len(a) + Len(b)  BY <1>1, <1>5, <1>7
    <3> QED  BY <1>5, <1>9, <3>1
  <2>2. CASE i =< p
    <3>1. (a \o b)[i] = a[i]  BY <2>1, <2>2
    <3>2. (i < p => i \in 1 .. p - 1) /\ ~ (i > p) /\ i # p + 1 /\ ~ (i > p + 1)  BY <1>1, <2>2
    <3> QED  BY <1>4, <1>5, <3>1, <3>2
  <2>3. CASE i > p
    <3>1. /\ i - p \in 1 .. Len(s) + 1 - p /\ (p + (i - p)) - 1 = i - 1 /\ ~ (i < p) /\ i # p
          /\ ~ (i =< p) /\ (i = p + 1 => i - p = 1 /\ i - 1 = p) /\ (i > p + 1 => i - p # 1)
      BY <1>1, <2>3
    <3>2. (a \o b)[i] = b[i - p]  BY <2>1, <3>1
    <3>3. /\ b[i - p].value = s[i - 1].value
          /\ b[i - p].delta = IF i - p = 1 THEN s[i - 1].delta - d ELSE s[i - 1].delta
      BY <1>7, <3>1
    <3> QED  BY Zenon, <3>1, <3>2, <3>3
  <2>4. i =< p \/ i > p  BY <1>1
  <2> QED  BY Zenon, <2>2, <2>3, <2>4
<1> QED  BY Zenon, <1>8, <1>9, <1>10, <1>11

(* The sums behind the new entry are those of before: what the new entry   *)
(* takes is taken off the next one.                                        *)
LEMMA SplicedSums ==
  ASSUME NEW s \in Seq(Entries), NEW p \in 1 .. Len(s) + 1, NEW v \in Handles, NEW d \in Nat,
         p =< Len(s) => d =< s[p].delta, NEW t, t = Spliced(s, p, v, d)
  PROVE  /\ \A i \in 1 .. p - 1 : Sum(t, i) = Sum(s, i)
         /\ Sum(t, p) = Sum(s, p - 1) + d
         /\ \A i \in p + 1 .. Len(s) + 1 : Sum(t, i) = Sum(s, i - 1)
<1>1. /\ t \in Seq(Entries) /\ Len(t) = Len(s) + 1
      /\ \A i \in 1 .. Len(s) + 1 : /\ i < p => t[i] = s[i]
                                    /\ i = p => t[i].delta = d
                                    /\ i = p + 1 => t[i].delta = s[p].delta - d
                                    /\ i > p + 1 => t[i].delta = s[i - 1].delta
  <2>1. /\ t \in Seq(Entries) /\ Len(t) = Len(s) + 1
        /\ \A i \in 1 .. Len(s) + 1 :
             LET e == t[i]
             IN /\ i < p => e = s[i]
                /\ i = p => e.value = v /\ e.delta = d
                /\ i > p => e.value = s[i - 1].value
                /\ i = p + 1 => e.delta = s[p].delta - d
                /\ i > p + 1 => e.delta = s[i - 1].delta
    BY SplicedEntries
  <2> QED  BY Zenon, <2>1
<1>2. Len(s) \in Nat /\ p \in Nat /\ p - 1 \in Nat /\ p - 1 \in 0 .. Len(s)  BY LenProperties
<1>3. \A i \in 0 .. p - 1 : Sum(t, 0 + i) = Sum(s, 0 + i) + 0
  <2>1. Sum(t, 0) = 0 /\ Sum(s, 0) = 0  BY SumSteps
  <2>2. 0 + (p - 1) =< Len(s) /\ 0 + (p - 1) =< Len(t) /\ Sum(t, 0) = Sum(s, 0) + 0
    BY <1>1, <1>2, <2>1
  <2>3. ASSUME NEW i \in 1 .. p - 1  PROVE t[0 + i].delta = s[0 + i].delta
    <3>1. i \in 1 .. Len(s) + 1 /\ i < p /\ 0 + i = i  BY <1>2
    <3> QED  BY <1>1, <3>1
  <2>4. 0 \in Nat /\ 0 \in Int  OBVIOUS
  <2>5. SameDeltas(s, 0, t, 0, p - 1)  BY Zenon, <2>2, <2>3 DEF SameDeltas
  <2>6. Apart(s, 0, t, 0, p - 1, 0)  BY Zenon, <1>1, <1>2, <2>2, <2>4, <2>5, SumsFollow
  <2> QED  BY Zenon, <2>6 DEF Apart
<1>4. \A i \in 0 .. p - 1 : Sum(t, i) = Sum(s, i)
  <2> TAKE i \in 0 .. p - 1
  <2>1. Sum(t, 0 + i) = Sum(s, 0 + i) + 0  BY <1>3
  <2>2. 0 + i = i /\ i \in 0 .. Len(s)  BY <1>2
  <2>3. Sum(s, i) \in Nat  BY <2>2, SumTyped
  <2> QED  BY <2>1, <2>2, <2>3
<1>5. Sum(t, p) = Sum(s, p - 1) + d
  <2>1. Sum(t, (p - 1) + 1) = Sum(t, p - 1) + t[(p - 1) + 1].delta  BY <1>2, SumSteps
  <2>2. (p - 1) + 1 = p /\ p - 1 \in 0 .. p - 1 /\ p \in 1 .. Len(s) + 1  BY <1>2
  <2>3. t[p].delta = d  BY <1>1, <2>2
  <2> QED  BY Zenon, <1>4, <2>1, <2>2, <2>3
<1>6. ASSUME p =< Len(s)
      PROVE  \A i \in p + 1 .. Len(s) + 1 : Sum(t, i) = Sum(s, i - 1)
  <2> DEFINE m == Len(s) - p
  <2>1. /\ m \in Nat /\ p + m =< Len(s) /\ (p + 1) + m =< Len(t) /\ p + 1 \in Nat
        /\ p \in 1 .. Len(s) /\ p + 1 \in 1 .. Len(s) + 1
    BY <1>1, <1>2, <1>6
  <2>2. Sum(s, p) = Sum(s, p - 1) + s[p].delta
    <3>1. Sum(s, (p - 1) + 1) = Sum(s, p - 1) + s[(p - 1) + 1].delta  BY <1>2, SumSteps
    <3>2. (p - 1) + 1 = p  BY <1>2
    <3> QED  BY Zenon, <3>1, <3>2
  <2>3. Sum(t, p + 1) = Sum(t, p) + t[p + 1].delta  BY <1>2, SumSteps
  <2>4. t[p + 1].delta = s[p].delta - d  BY <1>1, <2>1
  <2>5. Sum(t, p + 1) = Sum(s, p) + 0
    <3>1. s[p] \in Entries  BY <2>1, ElementOfSeq
    <3>2. s[p].delta \in Nat  BY <3>1 DEF Entries
    <3>3. Sum(s, p - 1) \in Nat  BY <1>2, SumTyped
    <3> QED  BY <1>5, <2>2, <2>3, <2>4, <3>2, <3>3
  <2>6. ASSUME NEW i \in 1 .. m  PROVE t[(p + 1) + i].delta = s[p + i].delta
    <3>1. (p + 1) + i \in 1 .. Len(s) + 1 /\ (p + 1) + i > p + 1 /\ ((p + 1) + i) - 1 = p + i
      BY <1>2, <2>1
    <3> QED  BY Zenon, <1>1, <3>1
  <2> HIDE DEF m
  <2>7. 0 \in Int  OBVIOUS
  <2>8. \A i \in 0 .. m : Sum(t, (p + 1) + i) = Sum(s, p + i) + 0
    <3>1. SameDeltas(s, p, t, p + 1, m)  BY Zenon, <2>1, <2>6 DEF SameDeltas
    <3>2. Apart(s, p, t, p + 1, m, 0)
      BY Zenon, <1>1, <1>2, <2>1, <2>5, <2>7, <3>1, SumsFollow
    <3> QED  BY Zenon, <3>2 DEF Apart
  <2> TAKE i \in p + 1 .. Len(s) + 1
  <2> DEFINE j == i - (p + 1)
  <2>9. j \in 0 .. m /\ (p + 1) + j = i /\ p + j = i - 1 /\ i - 1 \in 0 .. Len(s)
    BY <1>2, <2>1 DEF m
  <2>10. Sum(s, i - 1) \in Nat  BY <2>9, SumTyped
  <2> HIDE DEF j
  <2>11. Sum(t, i) = Sum(s, i - 1) + 0  BY <2>8, <2>9
  <2> QED  BY <2>10, <2>11
<1>7. p > Len(s) => p + 1 .. Len(s) + 1 = {}  BY <1>2
<1>8. p =< Len(s) \/ p > Len(s)  BY <1>2
<1>9. \A i \in 1 .. p - 1 : Sum(t, i) = Sum(s, i)
  <2>1. \A i \in 1 .. p - 1 : i \in 0 .. p - 1  BY <1>2
  <2> QED  BY Zenon, <1>4, <2>1
<1>10. \A i \in p + 1 .. Len(s) + 1 : Sum(t, i) = Sum(s, i - 1)
  BY Zenon, <1>6, <1>7, <1>8
<1> QED  BY <1>5, <1>9, <1>10

(* With the first k entries and the time d off the next one, the sums are  *)
(* less by what the k entries had and by d.                                *)
Collects(s, k, d, t) ==
  /\ t \in Seq(Entries) /\ Len(t) = Len(s) - k
  /\ \A i \in 1 .. Len(t) : /\ k + i \in 1 .. Len(s)
                            /\ t[i].value = s[k + i].value
                            /\ Sum(t, i) = Sum(s, k + i) - Sum(s, k) - d

LEMMA CollectedSums ==
  ASSUME NEW s \in Seq(Entries), NEW k \in 0 .. Len(s), NEW d \in Nat,
         k < Len(s) => d =< s[k + 1].delta,
         NEW t, t = Shortened(SubSeq(s, k + 1, Len(s)), d)
  PROVE  Collects(s, k, d, t)
<1> DEFINE rest == SubSeq(s, k + 1, Len(s))
<1>1. Len(s) \in Nat /\ k \in Nat  BY LenProperties
<1>2. /\ rest \in Seq(Entries) /\ Len(rest) = Len(s) - k
      /\ \A i \in 1 .. Len(s) - k : rest[i] = s[k + i]
  <2>1. /\ rest \in Seq(Entries) /\ Len(rest) = Len(s) - k
        /\ \A i \in 1 .. Len(s) - k : rest[i] = s[((k + 1) + i) - 1]
    BY <1>1
  <2>2. \A i \in 1 .. Len(s) - k : ((k + 1) + i) - 1 = k + i  BY <1>1
  <2> HIDE DEF rest
  <2> QED  BY Zenon, <2>1, <2>2
<1> HIDE DEF rest
<1>3. rest # <<>> => d =< rest[1].delta
  <2> SUFFICES ASSUME rest # <<>>  PROVE d =< rest[1].delta  OBVIOUS
  <2>1. Len(rest) # 0 /\ Len(rest) \in Nat  BY <1>2, EmptySeq
  <2>2. k < Len(s) /\ 1 \in 1 .. Len(s) - k  BY <1>1, <1>2, <2>1
  <2> QED  BY <1>2, <2>2
<1>4. /\ t \in Seq(Entries) /\ Len(t) = Len(s) - k
      /\ \A i \in 1 .. Len(s) - k :
            /\ t[i].value = s[k + i].value
            /\ t[i].delta = IF i = 1 THEN s[k + i].delta - d ELSE s[k + i].delta
  <2>1. t = Shortened(rest, d)  BY DEF rest
  <2>2. /\ t \in Seq(Entries) /\ Len(t) = Len(rest)
        /\ \A i \in 1 .. Len(rest) :
              /\ t[i].value = rest[i].value
              /\ t[i].delta = IF i = 1 THEN rest[i].delta - d ELSE rest[i].delta
    <3>1. rest \in Seq(Entries)  BY <1>2
    <3>2. /\ Shortened(rest, d) \in Seq(Entries) /\ Len(Shortened(rest, d)) = Len(rest)
          /\ \A i \in 1 .. Len(rest) :
               /\ Shortened(rest, d)[i].value = rest[i].value
               /\ Shortened(rest, d)[i].delta = IF i = 1 THEN rest[i].delta - d ELSE rest[i].delta
      BY <1>3, <3>1, ShortenedEntries
    <3> QED  BY Zenon, <2>1, <3>2
  <2> QED  BY Zenon, <1>2, <2>2
<1>5. \A i \in 1 .. Len(t) : k + i \in 1 .. Len(s)  BY <1>1, <1>4
<1>6. ASSUME k < Len(s), NEW i \in 1 .. Len(t)
      PROVE  Sum(t, i) = Sum(s, k + i) - Sum(s, k) - d
  <2> DEFINE m == Len(s) - (k + 1)
             c == 0 - Sum(s, k) - d
  <2>1. /\ m \in Nat /\ (k + 1) + m =< Len(s) /\ 1 + m =< Len(t) /\ k + 1 \in Nat /\ 1 \in Nat
        /\ k + 1 \in 1 .. Len(s) /\ 1 \in 1 .. Len(s) - k
    BY <1>1, <1>4, <1>6
  <2>2. Sum(s, k) \in Nat  BY SumTyped
  <2>3. c \in Int  BY <2>2
  <2>4. Sum(t, 1) = Sum(s, k + 1) + c
    <3>1. Sum(t, 0 + 1) = Sum(t, 0) + t[0 + 1].delta /\ Sum(t, 0) = 0  BY SumSteps
    <3>2. t[1].delta = s[k + 1].delta - d  BY <1>4, <2>1
    <3>3. Sum(s, k + 1) = Sum(s, k) + s[k + 1].delta  BY <1>1, SumSteps
    <3>4. s[k + 1] \in Entries  BY <2>1, ElementOfSeq
    <3>5. s[k + 1].delta \in Nat  BY <3>4 DEF Entries
    <3>6. 0 + 1 = 1  OBVIOUS
    <3>7. Sum(t, 1) = 0 + t[1].delta  BY Zenon, <3>1, <3>6
    <3> QED  BY <2>2, <3>2, <3>3, <3>5, <3>7
  <2>5. ASSUME NEW j \in 1 .. m  PROVE t[1 + j].delta = s[(k + 1) + j].delta
    <3>1. 1 + j \in 1 .. Len(s) - k /\ 1 + j # 1 /\ k + (1 + j) = (k + 1) + j
      BY <1>1, <2>1
    <3> QED  BY Zenon, <1>4, <3>1
  <2> HIDE DEF m, c
  <2>6. \A j \in 0 .. m : Sum(t, 1 + j) = Sum(s, (k + 1) + j) + c
    <3>1. SameDeltas(s, k + 1, t, 1, m)  BY Zenon, <2>1, <2>5 DEF SameDeltas
    <3>2. Apart(s, k + 1, t, 1, m, c)
      BY Zenon, <1>4, <2>1, <2>3, <2>4, <3>1, SumsFollow
    <3> QED  BY Zenon, <3>2 DEF Apart
  <2> DEFINE j == i - 1
  <2>7. /\ j \in 0 .. m /\ 1 + j = i /\ (k + 1) + j = k + i /\ k + i \in 0 .. Len(s)
    BY <1>1, <1>4, <2>1 DEF m
  <2> HIDE DEF j
  <2>8. Sum(t, i) = Sum(s, k + i) + c  BY <2>6, <2>7
  <2>9. Sum(s, k + i) \in Nat  BY <2>7, SumTyped
  <2> QED  BY <2>2, <2>8, <2>9 DEF c
<1>7. k < Len(s) \/ 1 .. Len(t) = {}  BY <1>1, <1>4
<1>8. \A i \in 1 .. Len(t) : Sum(t, i) = Sum(s, k + i) - Sum(s, k) - d  BY Zenon, <1>6, <1>7
<1> QED  BY Zenon, <1>4, <1>5, <1>8 DEF Collects
-----------------------------------------------------------------------------
(* The invariant and the steps.                                            *)

(* What the timer shares with the book: each entry holds a handle the book *)
(* has timed, no two hold the same, and the next handle to be made is a    *)
(* new one.                                                                *)
Shared ==
  /\ sets \in Nat
  /\ \A r \in retain_timer : r.n \in 0 .. sets
  /\ list \in Seq(Entries)
  /\ \A i \in 1 .. Len(list) : list[i].value \in retain_timer
  /\ \A i, j \in 1 .. Len(list) : list[i].value = list[j].value => i = j

(* The timer has looked at the clock, now or before.                       *)
Clocked ==
  /\ now \in Nat /\ instant \in Nat /\ instant =< now
  /\ dueAt \in [Handles -> Nat]

(* The list holds what was added and has not been returned, all of it but  *)
(* for deleted handles.                                                    *)
Held ==
  /\ fired \subseteq T!Added
  /\ \A i \in 1 .. Len(list) : list[i].value \in T!Added \ fired
  /\ \A v \in T!Added \ (deleted \cup fired) : \E i \in 1 .. Len(list) : list[i].value = v

(* NeverLate, in terms of Sum.                                             *)
InTime == \A i \in 1 .. Len(list) : instant + Sum(list, i) =< dueAt[list[i].value]

(* The inductive invariant.                                                *)
TimerInv == Shared /\ Clocked /\ Held /\ InTime

(* An empty list, before any handle is made.                               *)
LEMMA TimedInitially == TimedInit => TimerInv
<1> SUFFICES ASSUME TimedInit PROVE TimerInv
  OBVIOUS
<1>1. /\ sets = 0 /\ retain_timer = {} /\ list = <<>> /\ now = 0 /\ instant = 0
      /\ fired = {} /\ dueAt = [v \in Handles |-> T!Never]
  BY Zenon DEF TimedInit, Init, T!Init
<1>2. list \in Seq(Entries) /\ Len(list) = 0 /\ 1 .. Len(list) = {}
  BY <1>1, EmptySeq
<1>3. T!Never \in Nat  BY RetainedTimerAssumption DEF T!Never
<1>4. T!Added = {}  BY <1>1 DEF T!Added
<1>5. Shared  BY <1>1, <1>2 DEF Shared
<1>6. Clocked  BY <1>1, <1>3 DEF Clocked
<1>7. Held  BY Zenon, <1>1, <1>2, <1>4 DEF Held
<1>8. InTime  BY Zenon, <1>2 DEF InTime
<1> QED  BY Zenon, <1>5, <1>6, <1>7, <1>8 DEF TimerInv

(* A step that leaves the list and makes no handle with an expiry.         *)
LEMMA ListKept ==
  ASSUME TimerInv, sets' \in Nat, sets =< sets', retain_timer' = retain_timer, list' = list,
         now' \in Nat, now =< now', instant' = instant, dueAt' = dueAt, fired' = fired,
         deleted \subseteq deleted'
  PROVE  TimerInv'
<1>1. \A r \in retain_timer : r.n \in 0 .. sets'  BY SMT DEF TimerInv, Shared
<1>2. Shared'  BY Zenon, <1>1 DEF TimerInv, Shared
<1>3. Clocked'  BY SMT DEF TimerInv, Clocked
<1>4. T!Added' = T!Added  BY Zenon DEF T!Added, T!Never
<1>5. Held'  BY Zenon, <1>4 DEF TimerInv, Held
<1>6. InTime'  BY Zenon DEF TimerInv, InTime
<1> QED  BY Zenon, <1>2, <1>3, <1>5, <1>6 DEF TimerInv

(* A new handle with an expiry: add_timeout puts it in its place.          *)
LEMMA SetExpiringKeeps ==
  ASSUME TimerInv, NEW t \in Topics, NEW secs \in Nat, SetExpiring(t, secs)
  PROVE  TimerInv'
<1> DEFINE r == [topic |-> t, n |-> sets + 1]
           ndelta == IF secs < T!Elapsed THEN 0 ELSE secs - T!Elapsed
           p == T!Place(ndelta)
           d == ndelta - Sum(list, p - 1)
<1>1. /\ sets \in Nat /\ list \in Seq(Entries) /\ now \in Nat /\ instant \in Nat
      /\ instant =< now /\ dueAt \in [Handles -> Nat]
  BY Zenon DEF TimerInv, Shared, Clocked
<1>2. /\ sets' = sets + 1 /\ sets < MaxSets /\ retain_timer' = retain_timer \cup {r}
      /\ now' = now /\ instant' = instant /\ fired' = fired /\ deleted \subseteq deleted'
  BY DEF SetExpiring, HandleSetRetainTopic, DeleteOld
<1>3. r \in Handles /\ r.n = sets + 1
  BY <1>1, <1>2, RetainedAssumption DEF Handles
<1>4. /\ r \notin T!Added /\ now + secs <= MaxTime
      /\ list' = Spliced(list, p, r, d)
      /\ dueAt' = [dueAt EXCEPT ![r] = now + secs]
  <2>1. T!Insert(r, secs)  BY Zenon DEF SetExpiring
  <2> HIDE DEF r
  <2>2. T!Until(p - 1) = Sum(list, p - 1)  BY Zenon, UntilIsSum
  <2>3. list' = Spliced(list, p, r, ndelta - T!Until(p - 1))
    BY <2>1, ZenonT(60) DEF T!Insert, Spliced, Shortened
  <2>4. /\ r \notin T!Added /\ now + secs <= MaxTime
        /\ dueAt' = [dueAt EXCEPT ![r] = now + secs]
    BY Zenon, <2>1 DEF T!Insert
  <2> QED  BY Zenon, <2>2, <2>3, <2>4
<1>5. ndelta \in Nat /\ instant + ndelta =< now + secs
  BY <1>1 DEF T!Elapsed
<1> HIDE DEF ndelta
<1>6. /\ p \in 1 .. Len(list) + 1
      /\ Sum(list, p - 1) =< ndelta
      /\ p =< Len(list) => ndelta < Sum(list, p)
  BY <1>1, <1>5, PlaceInList
<1> HIDE DEF p, r
<1>7. Len(list) \in Nat /\ p \in Nat /\ p - 1 \in 0 .. Len(list) /\ p - 1 \in Nat
  BY <1>1, <1>6, LenProperties
<1>8. d \in Nat /\ Sum(list, p - 1) + d = ndelta
  <2>1. Sum(list, p - 1) \in Nat  BY <1>1, <1>7, SumTyped
  <2> QED  BY <1>5, <1>6, <2>1
<1>9. p =< Len(list) => d =< list[p].delta
  <2> SUFFICES ASSUME p =< Len(list)  PROVE d =< list[p].delta  OBVIOUS
  <2>1. Sum(list, (p - 1) + 1) = Sum(list, p - 1) + list[(p - 1) + 1].delta  BY <1>7, SumSteps
  <2>2. (p - 1) + 1 = p /\ p \in 1 .. Len(list)  BY <1>6, <1>7
  <2>3. list[p] \in Entries  BY <1>1, <2>2, ElementOfSeq
  <2>4. list[p].delta \in Nat  BY <2>3 DEF Entries
  <2>5. Sum(list, p) = Sum(list, p - 1) + list[p].delta  BY Zenon, <2>1, <2>2
  <2>6. Sum(list, p - 1) \in Nat  BY <1>1, <1>7, SumTyped
  <2> QED  BY <1>5, <1>6, <1>8, <2>4, <2>5, <2>6
<1> HIDE DEF d
<1>10. /\ list' \in Seq(Entries)
       /\ Len(list') = Len(list) + 1
       /\ \A i \in 1 .. Len(list) + 1 :
            /\ i < p => list'[i].value = list[i].value
            /\ i = p => list'[i].value = r
            /\ i > p => list'[i].value = list[i - 1].value
  <2> DEFINE l == Spliced(list, p, r, d)
  <2>1. /\ list \in Seq(Entries) /\ p \in 1 .. Len(list) + 1 /\ r \in Handles /\ d \in Nat
        /\ p =< Len(list) => d =< list[p].delta
    BY Zenon, <1>1, <1>3, <1>6, <1>8, <1>9
  <2>2. /\ l \in Seq(Entries)
        /\ Len(l) = Len(list) + 1
        /\ \A i \in 1 .. Len(list) + 1 :
             LET e == l[i]
             IN /\ i < p => e = list[i]
                /\ i = p => e.value = r /\ e.delta = d
                /\ i > p => e.value = list[i - 1].value
                /\ i = p + 1 => e.delta = list[p].delta - d
                /\ i > p + 1 => e.delta = list[i - 1].delta
    BY <2>1, SplicedEntries
  <2> HIDE DEF l
  <2>3. list' = l  BY <1>4 DEF l
  <2> QED  BY Zenon, <2>2, <2>3
<1>11. /\ \A i \in 1 .. p - 1 : Sum(list', i) = Sum(list, i)
       /\ Sum(list', p) = ndelta
       /\ \A i \in p + 1 .. Len(list) + 1 : Sum(list', i) = Sum(list, i - 1)
  <2> DEFINE l == list'
  <2>1. l = Spliced(list, p, r, d)  BY <1>4
  <2> HIDE DEF l
  <2>2. /\ list \in Seq(Entries) /\ p \in 1 .. Len(list) + 1 /\ r \in Handles /\ d \in Nat
        /\ p =< Len(list) => d =< list[p].delta
    BY Zenon, <1>1, <1>3, <1>6, <1>8, <1>9
  <2>3. /\ \A i \in 1 .. p - 1 : Sum(l, i) = Sum(list, i)
        /\ Sum(l, p) = Sum(list, p - 1) + d
        /\ \A i \in p + 1 .. Len(list) + 1 : Sum(l, i) = Sum(list, i - 1)
    BY <2>1, <2>2, SplicedSums
  <2> QED  BY Zenon, <1>8, <2>3 DEF l
(* Where an entry of the new list was before.                              *)
<1> DEFINE old(i) == IF i < p THEN i ELSE i - 1
<1>12. ASSUME NEW i \in 1 .. Len(list) + 1, i # p
       PROVE  /\ old(i) \in 1 .. Len(list)
              /\ list'[i].value = list[old(i)].value
              /\ Sum(list', i) = Sum(list, old(i))
  <2>1. CASE i < p
    <3>1. i \in 1 .. Len(list) /\ i \in 1 .. p - 1 /\ old(i) = i  BY <1>6, <1>7, <2>1
    <3> QED  BY Zenon, <1>10, <1>11, <2>1, <3>1
  <2>2. CASE i > p
    <3>1. i - 1 \in 1 .. Len(list) /\ i \in p + 1 .. Len(list) + 1 /\ old(i) = i - 1
      BY <1>6, <1>7, <2>2
    <3> QED  BY Zenon, <1>10, <1>11, <2>2, <3>1
  <2>3. i < p \/ i > p  BY <1>6, <1>7, <1>12
  <2> QED  BY Zenon, <2>1, <2>2, <2>3
<1>13. p \in 1 .. Len(list) + 1 /\ list'[p].value = r  BY Zenon, <1>6, <1>10
<1>14. \A i, j \in 1 .. Len(list) + 1 : i # p /\ j # p /\ old(i) = old(j) => i = j
  BY <1>6, <1>7
<1> HIDE DEF old
<1>15. Shared'
  <2>1. r \notin retain_timer  BY <1>1, <1>3, SMT DEF TimerInv, Shared
  <2>2. ASSUME NEW i \in 1 .. Len(list) + 1, i # p
        PROVE  list'[i].value \in retain_timer /\ list'[i].value # r
    <3>1. old(i) \in 1 .. Len(list) /\ list'[i].value = list[old(i)].value
      BY Zenon, <1>12, <2>2
    <3>2. list[old(i)].value \in retain_timer  BY Zenon, <3>1 DEF TimerInv, Shared
    <3> QED  BY Zenon, <2>1, <3>1, <3>2
  <2>3. \A i \in 1 .. Len(list') : list'[i].value \in retain_timer'
    BY Zenon, <1>2, <1>10, <1>13, <2>2
  <2>4. ASSUME NEW i \in 1 .. Len(list) + 1, NEW j \in 1 .. Len(list) + 1,
               list'[i].value = list'[j].value
        PROVE  i = j
    <3>1. CASE i = p \/ j = p  BY Zenon, <1>13, <2>2, <2>4, <3>1
    <3>2. CASE i # p /\ j # p
      <4>1. /\ old(i) \in 1 .. Len(list) /\ old(j) \in 1 .. Len(list)
            /\ list[old(i)].value = list[old(j)].value
        BY Zenon, <1>12, <2>4, <3>2
      <4>2. old(i) = old(j)  BY Zenon, <4>1 DEF TimerInv, Shared
      <4> QED  BY Zenon, <1>14, <3>2, <4>2
    <3> QED  BY Zenon, <3>1, <3>2
  <2>5. \A i, j \in 1 .. Len(list') : list'[i].value = list'[j].value => i = j
    BY Zenon, <1>10, <2>4
  <2>6. sets' \in Nat /\ \A x \in retain_timer' : x.n \in 0 .. sets'
    BY <1>1, <1>2, <1>3 DEF TimerInv, Shared
  <2> QED  BY Zenon, <1>10, <2>3, <2>5, <2>6 DEF Shared
<1>16. now + secs \in Nat /\ now + secs # T!Never
  BY <1>1, <1>4, RetainedTimerAssumption DEF T!Never
<1>17. /\ dueAt' \in [Handles -> Nat] /\ dueAt'[r] = now + secs
       /\ \A v \in Handles : v # r => dueAt'[v] = dueAt[v]
  BY <1>1, <1>3, <1>4, <1>16
<1>18. Clocked'  BY Zenon, <1>1, <1>2, <1>17 DEF Clocked
<1>19. T!Added' = T!Added \cup {r}
  <2>1. \A v : v \in T!Added <=> v \in Handles /\ dueAt[v] # T!Never  BY Zenon DEF T!Added
  <2>2. \A v : v \in T!Added' <=> v \in Handles /\ dueAt'[v] # T!Never
    BY Zenon DEF T!Added, T!Never
  <2> QED  BY <1>3, <1>16, <1>17, <2>1, <2>2
<1>20. Held'
  <2>1. fired' \subseteq T!Added'  BY Zenon, <1>2, <1>19 DEF TimerInv, Held
  <2>2. ASSUME NEW i \in 1 .. Len(list) + 1
        PROVE  list'[i].value \in T!Added' \ fired'
    <3>1. CASE i = p
      <4>1. r \notin fired  BY Zenon, <1>4 DEF TimerInv, Held
      <4> QED  BY Zenon, <1>2, <1>13, <1>19, <3>1, <4>1
    <3>2. CASE i # p
      BY Zenon, <1>2, <1>12, <1>19, <3>2 DEF TimerInv, Held
    <3> QED  BY Zenon, <3>1, <3>2
  <2>3. ASSUME NEW v \in T!Added' \ (deleted' \cup fired')
        PROVE  \E i \in 1 .. Len(list) + 1 : list'[i].value = v
    <3>1. CASE v = r  BY Zenon, <1>13, <3>1
    <3>2. CASE v # r
      <4>1. v \in T!Added \ (deleted \cup fired)  BY Zenon, <1>2, <1>19, <3>2
      <4>2. PICK j \in 1 .. Len(list) : list[j].value = v
        BY Zenon, <4>1 DEF TimerInv, Held
      <4> DEFINE i == IF j < p THEN j ELSE j + 1
      <4>3. i \in 1 .. Len(list) + 1 /\ i # p /\ old(i) = j  BY <1>6, <1>7 DEF old
      <4> HIDE DEF i
      <4>4. list'[i].value = v  BY Zenon, <1>12, <4>2, <4>3
      <4> QED  BY Zenon, <4>3, <4>4
    <3> QED  BY Zenon, <3>1, <3>2
  <2> QED  BY Zenon, <1>10, <2>1, <2>2, <2>3 DEF Held
<1>21. InTime'
  <2>1. ASSUME NEW i \in 1 .. Len(list) + 1
        PROVE  instant + Sum(list', i) =< dueAt'[list'[i].value]
    <3>1. CASE i = p  BY Zenon, <1>5, <1>11, <1>13, <1>17, <3>1
    <3>2. CASE i # p
      <4>1. /\ old(i) \in 1 .. Len(list) /\ list'[i].value = list[old(i)].value
            /\ Sum(list', i) = Sum(list, old(i))
        BY Zenon, <1>12, <3>2
      <4>2. instant + Sum(list, old(i)) =< dueAt[list[old(i)].value]
        BY Zenon, <4>1 DEF TimerInv, InTime
      <4>3. list[old(i)].value \in T!Added  BY Zenon, <4>1 DEF TimerInv, Held
      <4>4. list[old(i)].value # r /\ list[old(i)].value \in Handles
        BY Zenon, <1>4, <4>3 DEF T!Added
      <4>5. dueAt'[list[old(i)].value] = dueAt[list[old(i)].value]  BY Zenon, <1>17, <4>4
      <4> QED  BY Zenon, <4>1, <4>2, <4>5
    <3> QED  BY Zenon, <3>1, <3>2
  <2> QED  BY Zenon, <1>2, <1>10, <2>1 DEF InTime
<1> QED  BY Zenon, <1>15, <1>18, <1>20, <1>21 DEF TimerInv

(* What is collected leaves the list and the book's timed handles; what    *)
(* stays comes no later than before.                                       *)
LEMMA CollectExpiredKeeps ==
  ASSUME TimerInv, CollectExpired
  PROVE  /\ TimerInv'
         /\ {list[i].value : i \in 1 .. T!Ripe(T!Elapsed)} \subseteq retain_timer
<1> DEFINE d == T!Elapsed
           k == T!Ripe(d)
           gone == {list[i].value : i \in 1 .. k}
<1>1. /\ sets \in Nat /\ list \in Seq(Entries) /\ now \in Nat /\ instant \in Nat
      /\ instant =< now /\ dueAt \in [Handles -> Nat]
  BY Zenon DEF TimerInv, Shared, Clocked
<1>2. d \in Nat /\ now = instant + d  BY <1>1 DEF T!Elapsed
<1>3. /\ list' = Shortened(SubSeq(list, k + 1, Len(list)), d)
      /\ fired' = fired \cup (gone \ deleted)
      /\ instant' = now /\ now' = now /\ dueAt' = dueAt
  BY Zenon DEF CollectExpired, T!Collect, Shortened
<1>4. sets' = sets /\ retain_timer' = retain_timer \ gone /\ deleted' = deleted
  <2>1. CASE gone = {}  BY <2>1 DEF CollectExpired, vars
  <2>2. CASE gone # {}  BY <2>2 DEF CollectExpired, Expired
  <2> QED  BY <2>1, <2>2
<1> HIDE DEF d
<1>5. k \in 0 .. Len(list) /\ (k < Len(list) => d < list[k + 1].delta)
  BY <1>1, <1>2, RipeInList
<1>6. gone \subseteq retain_timer
  <2>1. \A i \in 1 .. k : i \in 1 .. Len(list)  BY <1>1, <1>5, LenProperties
  <2> HIDE DEF k
  <2> QED  BY Zenon, <2>1 DEF TimerInv, Shared
<1> HIDE DEF k
<1>7. Len(list) \in Nat /\ k \in Nat /\ k =< Len(list)  BY <1>1, <1>5, LenProperties
<1>8. k < Len(list) => d =< list[k + 1].delta
  <2> SUFFICES ASSUME k < Len(list)  PROVE d =< list[k + 1].delta  OBVIOUS
  <2>1. k + 1 \in 1 .. Len(list)  BY <1>7
  <2>2. list[k + 1] \in Entries  BY <1>1, <2>1, ElementOfSeq
  <2>3. list[k + 1].delta \in Nat  BY <2>2 DEF Entries
  <2> QED  BY <1>2, <1>5, <2>3
<1>9. /\ list' \in Seq(Entries) /\ Len(list') = Len(list) - k
      /\ \A i \in 1 .. Len(list') : /\ k + i \in 1 .. Len(list)
                                    /\ list'[i].value = list[k + i].value
                                    /\ Sum(list', i) = Sum(list, k + i) - Sum(list, k) - d
  <2> DEFINE l == list'
  <2>1. l = Shortened(SubSeq(list, k + 1, Len(list)), d)  BY <1>3
  <2> HIDE DEF l
  <2>2. Collects(list, k, d, l)
    <3>1. list \in Seq(Entries) /\ k \in 0 .. Len(list) /\ d \in Nat
      BY Zenon, <1>1, <1>2, <1>5
    <3> QED  BY ZenonT(60), <3>1, <1>8, <2>1, CollectedSums
  <2> QED  BY Zenon, <2>2 DEF l, Collects
<1>10. ASSUME NEW i \in 1 .. Len(list')  PROVE list[k + i].value \notin gone
  <2>1. k + i \in 1 .. Len(list)  BY Zenon, <1>9
  <2>2. ASSUME NEW j \in 1 .. k  PROVE list[j].value # list[k + i].value
    <3>1. j \in 1 .. Len(list) /\ j # k + i  BY <1>7, <1>9
    <3> QED  BY Zenon, <2>1, <3>1 DEF TimerInv, Shared
  <2> QED  BY Zenon, <2>2
<1>11. Shared'
  <2>1. \A i \in 1 .. Len(list') : list'[i].value \in retain_timer'
    BY Zenon, <1>4, <1>9, <1>10 DEF TimerInv, Shared
  <2>2. ASSUME NEW i \in 1 .. Len(list'), NEW j \in 1 .. Len(list'),
               list'[i].value = list'[j].value
        PROVE  i = j
    <3>1. /\ k + i \in 1 .. Len(list) /\ k + j \in 1 .. Len(list)
          /\ list[k + i].value = list[k + j].value
      BY Zenon, <1>9, <2>2
    <3>2. k + i = k + j  BY Zenon, <3>1 DEF TimerInv, Shared
    <3> QED  BY <1>7, <1>9, <3>2
  <2>3. sets' \in Nat /\ \A r \in retain_timer' : r.n \in 0 .. sets'
    BY <1>4 DEF TimerInv, Shared
  <2> QED  BY Zenon, <1>9, <2>1, <2>2, <2>3 DEF Shared
<1>12. Clocked'
  <2>1. now =< now  BY <1>1
  <2> QED  BY Zenon, <1>1, <1>3, <2>1 DEF Clocked
<1>13. T!Added' = T!Added  BY Zenon, <1>3 DEF T!Added, T!Never
<1>14. Held'
  <2>1. fired' \subseteq T!Added'
    <3>1. \A i \in 1 .. k : i \in 1 .. Len(list)  BY <1>7
    <3>2. gone \subseteq T!Added  BY Zenon, <3>1 DEF TimerInv, Held
    <3> QED  BY Zenon, <1>3, <1>13, <3>2 DEF TimerInv, Held
  <2>2. ASSUME NEW i \in 1 .. Len(list')  PROVE list'[i].value \in T!Added' \ fired'
    <3>1. list[k + i].value \in T!Added \ fired  BY Zenon, <1>9 DEF TimerInv, Held
    <3>2. list[k + i].value \notin gone  BY Zenon, <1>10
    <3>3. list'[i].value = list[k + i].value  BY Zenon, <1>9
    <3> QED  BY Zenon, <1>3, <1>13, <3>1, <3>2, <3>3
  <2>3. ASSUME NEW v \in T!Added' \ (deleted' \cup fired')
        PROVE  \E i \in 1 .. Len(list') : list'[i].value = v
    <3>1. v \in T!Added \ (deleted \cup fired) /\ v \notin gone
      BY Zenon, <1>3, <1>4, <1>13
    <3>2. PICK j \in 1 .. Len(list) : list[j].value = v  BY Zenon, <3>1 DEF TimerInv, Held
    <3>3. j \notin 1 .. k  BY Zenon, <3>1, <3>2
    <3>4. j - k \in 1 .. Len(list') /\ k + (j - k) = j  BY <1>7, <1>9, <3>3
    <3> QED  BY Zenon, <1>9, <3>2, <3>4
  <2> QED  BY Zenon, <2>1, <2>2, <2>3 DEF Held
<1>15. InTime'
  <2>1. ASSUME NEW i \in 1 .. Len(list')
        PROVE  now + Sum(list', i) =< dueAt[list'[i].value]
    <3> DEFINE j == k + i
               v == list[j].value
    <3>1. /\ j \in 1 .. Len(list) /\ list'[i].value = v
          /\ Sum(list', i) = Sum(list, j) - Sum(list, k) - d
      BY Zenon, <1>9
    <3>2. j \in 0 .. Len(list)  BY <1>7, <3>1
    <3> HIDE DEF j
    <3>3. Sum(list, j) \in Nat /\ Sum(list, k) \in Nat  BY Zenon, <1>1, <1>5, <3>2, SumTyped
    <3>4. instant + Sum(list, j) =< dueAt[v]  BY Zenon, <3>1 DEF TimerInv, InTime
    <3>5. v \in Handles  BY Zenon, <3>1 DEF TimerInv, Held, T!Added
    <3>6. dueAt[v] \in Nat  BY Zenon, <1>1, <3>5
    <3> HIDE DEF v
    <3>7. now + (Sum(list, j) - Sum(list, k) - d) =< dueAt[v]
      BY <1>1, <1>2, <3>3, <3>4, <3>6
    <3> QED  BY Zenon, <3>1, <3>7
  <2> QED  BY Zenon, <1>3, <2>1 DEF InTime
<1>16. TimerInv'  BY Zenon, <1>11, <1>12, <1>14, <1>15 DEF TimerInv
<1> QED  BY Zenon, <1>6, <1>16 DEF k, d

(* One step: the invariant is kept, and the book takes a step of its own   *)
(* or none.                                                                *)
LEMMA TimedStep ==
  ASSUME TimerInv, [TimedNext]_allVars
  PROVE  TimerInv' /\ [Next]_vars
<1>0. sets \in Nat /\ now \in Nat  BY Zenon DEF TimerInv, Shared, Clocked
<1>1. ASSUME NEW t \in Topics, NEW secs \in Lives, SetExpiring(t, secs)
      PROVE  TimerInv' /\ [Next]_vars
  <2>1. secs \in Nat  BY Zenon, RetainedTimerAssumption
  <2>2. TimerInv'  BY Zenon, <1>1, <2>1, SetExpiringKeeps
  <2>3. HandleSetRetainTopic(t, TRUE)  BY Zenon, <1>1 DEF SetExpiring
  <2> QED  BY Zenon, <2>2, <2>3 DEF Next
<1>2. ASSUME NEW t \in Topics, SetForGood(t)
      PROVE  TimerInv' /\ [Next]_vars
  <2>1. HandleSetRetainTopic(t, FALSE)  BY Zenon, <1>2 DEF SetForGood
  <2>2. sets' = sets + 1 /\ retain_timer' = retain_timer /\ deleted \subseteq deleted'
    BY <2>1 DEF HandleSetRetainTopic, DeleteOld
  <2>3. list' = list /\ now' = now /\ instant' = instant /\ dueAt' = dueAt /\ fired' = fired
    BY <1>2 DEF SetForGood, timer
  <2>4. sets' \in Nat /\ sets =< sets' /\ now' \in Nat /\ now =< now'
    BY <1>0, <2>2, <2>3
  <2>5. TimerInv'  BY <2>2, <2>3, <2>4, ListKept
  <2> QED  BY Zenon, <2>1, <2>5 DEF Next
<1>3. ASSUME NEW t \in Topics, Reset(t)
      PROVE  TimerInv' /\ [Next]_vars
  <2>1. HandleResetRetainTopic(t)  BY Zenon, <1>3 DEF Reset
  <2>2. sets' = sets /\ retain_timer' = retain_timer /\ deleted \subseteq deleted'
    BY <2>1 DEF HandleResetRetainTopic, DeleteOld
  <2>3. list' = list /\ now' = now /\ instant' = instant /\ dueAt' = dueAt /\ fired' = fired
    BY <1>3 DEF Reset, timer
  <2>4. sets' \in Nat /\ sets =< sets' /\ now' \in Nat /\ now =< now'
    BY <1>0, <2>2, <2>3
  <2>5. TimerInv'  BY <2>2, <2>3, <2>4, ListKept
  <2> QED  BY Zenon, <2>1, <2>5 DEF Next
<1>4. ASSUME CollectExpired
      PROVE  TimerInv' /\ [Next]_vars
  <2> DEFINE gone == {list[i].value : i \in 1 .. T!Ripe(T!Elapsed)}
  <2>1. TimerInv' /\ gone \in SUBSET retain_timer  BY <1>4, CollectExpiredKeeps
  <2>2. UNCHANGED vars \/ Expired(gone)  BY Zenon, <1>4 DEF CollectExpired
  <2> QED  BY Zenon, <2>1, <2>2 DEF Next
<1>5. ASSUME NEW r \in due, RetainExpires(r), UNCHANGED timer
      PROVE  TimerInv' /\ [Next]_vars
  <2>1. sets' = sets /\ retain_timer' = retain_timer /\ deleted \subseteq deleted'
    BY <1>5 DEF RetainExpires
  <2>2. list' = list /\ now' = now /\ instant' = instant /\ dueAt' = dueAt /\ fired' = fired
    BY <1>5 DEF timer
  <2>3. sets' \in Nat /\ sets =< sets' /\ now' \in Nat /\ now =< now'
    BY <1>0, <2>1, <2>2
  <2>4. TimerInv'  BY <2>1, <2>2, <2>3, ListKept
  <2> QED  BY Zenon, <1>5, <2>4 DEF Next
<1>6. ASSUME Tick \/ UNCHANGED allVars
      PROVE  TimerInv' /\ [Next]_vars
  <2>1. UNCHANGED vars /\ (now' = now \/ now' = now + 1)
    BY <1>6 DEF Tick, T!Tick, allVars, timer
  <2>2. list' = list /\ instant' = instant /\ dueAt' = dueAt /\ fired' = fired
    BY <1>6 DEF Tick, T!Tick, allVars, timer
  <2>3. sets' = sets /\ retain_timer' = retain_timer /\ deleted' = deleted
    BY <2>1 DEF vars
  <2>4. sets' \in Nat /\ sets =< sets' /\ now' \in Nat /\ now =< now'
    BY <1>0, <2>1, <2>3
  <2>5. TimerInv'  BY <2>2, <2>3, <2>4, ListKept
  <2> QED  BY Zenon, <2>1, <2>5
<1> QED  BY Zenon, <1>1, <1>2, <1>3, <1>4, <1>5, <1>6 DEF TimedNext, Expire

(* The cluster thread with the differential timer implements the book of   *)
(* retained messages: whatever is added, deleted and collected, and        *)
(* however the deltas come out, Timer::expired hands retain_expires only   *)
(* handles that the book has timed, and each of them once.                 *)
THEOREM TimerImplementsBook == TimedSpec => ImplementsBook
<1>1. TimedInit => Init  BY DEF TimedInit
<1>2. TimedSpec => []TimerInv /\ [][TimedNext]_allVars
  BY TimedInitially, TimedStep, PTL DEF TimedSpec
<1>3. TimerInv /\ [TimedNext]_allVars => [Next]_vars  BY Zenon, TimedStep
<1> QED  BY <1>1, <1>2, <1>3, PTL DEF TimedSpec, ImplementsBook, Spec

(* With the timer in its place, what it reports is still the current       *)
(* message of its topic, and retain_expires still never panics.            *)
THEOREM TimedExpiryIsCurrent == TimedSpec => []ExpiryIsCurrent /\ ExpiryNeverPanics
BY TimerImplementsBook, Currency, ExpiryIsSafe, PTL DEF ImplementsBook

(* The timer's invariant is kept by every step of the cluster thread.      *)
THEOREM TimerInvariance == TimedSpec => []TimerInv
BY TimedInitially, TimedStep, PTL DEF TimedSpec

(* add_timeout and expired lose no handle and return none twice: a message *)
(* that was given an expiry and not replaced or reset is in the timer's    *)
(* list exactly once until retain_expires has it.                          *)
THEOREM TimerLosesNothing == TimedSpec => []NothingLost
<1>1. TimerInv => NothingLost
  <2> SUFFICES ASSUME TimerInv, NEW v \in T!Added \ deleted
               PROVE  Cardinality({i \in DOMAIN list : list[i].value = v})
                        = IF v \in fired THEN 0 ELSE 1
    <3>1. \A S : T!Cardinality(S) = Cardinality(S)  BY Zenon DEF T!Cardinality, Cardinality
    <3> QED  BY Zenon, <3>1 DEF NothingLost, T!NothingLost
  <2> DEFINE at == {i \in DOMAIN list : list[i].value = v}
  <2>1. DOMAIN list = 1 .. Len(list)
    <3>1. list \in Seq(Entries)  BY Zenon DEF TimerInv, Shared
    <3> QED  BY <3>1, LenProperties
  <2>2. CASE v \in fired
    <3>1. at = {}  BY Zenon, <2>1, <2>2 DEF TimerInv, Held
    <3>2. Cardinality(at) = 0  BY Zenon, <3>1, FS_EmptySet
    <3> QED  BY Zenon, <2>2, <3>2
  <2>3. CASE v \notin fired
    <3>1. PICK j \in 1 .. Len(list) : list[j].value = v  BY Zenon, <2>3 DEF TimerInv, Held
    <3>2. at = {j}  BY Zenon, <2>1, <3>1 DEF TimerInv, Shared
    <3>3. Cardinality(at) = 1  BY Zenon, <3>2, FS_Singleton
    <3> QED  BY Zenon, <2>3, <3>3
  <2> QED  BY Zenon, <2>2, <2>3
<1> QED  BY <1>1, TimerInvariance, PTL

(* The deltas never add up to more than the time that is left: however     *)
(* add_timeout splits a delta and expired takes the time that has passed   *)
(* off the first one, no entry comes later than the message's expiry.      *)
THEOREM TimerIsNeverLate == TimedSpec => []NeverLate
<1>1. TimerInv => NeverLate
  <2> SUFFICES ASSUME TimerInv, NEW i \in DOMAIN list
               PROVE  instant + T!Until(i) <= dueAt[list[i].value]
    BY Zenon DEF NeverLate, T!NeverLate
  <2>1. i \in 1 .. Len(list)
    <3>1. list \in Seq(Entries)  BY Zenon DEF TimerInv, Shared
    <3> QED  BY <3>1, LenProperties
  <2>2. T!Until(i) = Sum(list, i)  BY Zenon, UntilIsSum
  <2> QED  BY Zenon, <2>1, <2>2 DEF TimerInv, InTime
<1> QED  BY <1>1, TimerInvariance, PTL
=============================================================================

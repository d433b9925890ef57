--------------------------- MODULE DeliveryLemmas ---------------------------
(***************************************************************************)
(* What the steps of Delivery do to the messages on their way: what is     *)
(* routed for a PUBLISH, how queues are numbered and cut, what a turn of   *)
(* the shard leaves in a session, and what a drop leaves of the way of a   *)
(* source's messages.                                                      *)
(***************************************************************************)
EXTENDS Delivery, SequenceLemmas, FiniteSetTheorems

(* What the variables hold.                                                *)
TypeOK ==
  /\ setup \in Setups
  /\ inp_seqno \in [Sources -> Nat] /\ acked \in [Sources -> Nat]
  /\ shard_back_log \in [Sources -> Seq(Messages)] /\ received \in [Sources -> Seq(Messages)]
  /\ msg_rx \in Seq(Messages) /\ miot_rx \in Seq(Messages)
  /\ qos0_back_log \in Seq(Messages) /\ back_log \in Seq(Messages)
  /\ next_packet_id \in 0 .. IdSpace - 1
  /\ qos12_unacks \in SUBSET Messages /\ IsFiniteSet(qos12_unacks)
  /\ lost \in SUBSET Messages
  /\ {connected, live, panicked} \subseteq BOOLEAN

(* A source has its own messages, and each back log those of its level.    *)
Placed ==
  /\ \A s \in Sources : Range(shard_back_log[s]) \subseteq Of(s, QoS)
  /\ Range(qos0_back_log) \subseteq AtQoS(QoS0) /\ Range(back_log) \subseteq AtQoS(QoS12)

(***************************************************************************)
(* What a PUBLISH becomes.                                                 *)
(***************************************************************************)
(* A source may skip messages of the client itself.                        *)
Skips(s) ==
  /\ \A i \in DOMAIN setup.matches[s] : setup.matches[s][i].no_local
  /\ \E p \in setup.publishes[s] : p.own

(* RoutedAsDocumented, of one message and of what one source has to send.  *)
AsPublished(s, config, m) ==
  LET subs == Range(config.matches[s])
  IN  \E p \in config.publishes[s] :
        /\ m.ack_needed <=> p.qos > 0
        /\ m.qos =< MaxQoS /\ m.qos =< p.qos /\ \E x \in subs : m.qos =< x.qos
        /\ m.qos \in {MaxQoS, p.qos} \/ \A x \in subs : m.qos >= x.qos
        /\ m.retain <=> p.retain /\ \E x \in subs : x.rap
        /\ p.own => \E x \in subs : ~x.no_local
Documented(s, config, msgs) == \A m \in Range(msgs) : AsPublished(s, config, m)

(* What match_subscribers has merged of the first subscriptions.           *)
MergedUpTo(f, w) ==
  f = [i \in DOMAIN w |-> IF i = 1 THEN w[1] ELSE Merged(f[i - 1], w[i])]

(* What the comment on match_subscribers says of the merged subscription.  *)
Sums(r, w, n) ==
  /\ r \in Subscriptions
  /\ (\E i \in 1 .. n : r.qos = w[i].qos) /\ \A i \in 1 .. n : w[i].qos =< r.qos
  /\ r.no_local <=> \A i \in 1 .. n : w[i].no_local
  /\ r.rap <=> \E i \in 1 .. n : w[i].rap

(* What rx_publish does to its source: it skips the message or puts it     *)
(* last, with the next number.                                             *)
Published(o) ==
  /\ inp_seqno'[o] = inp_seqno[o] + 1 /\ inp_seqno' \in [Sources -> Nat]
  /\ \A s \in Sources : s # o => inp_seqno'[s] = inp_seqno[s]
  /\ \/ Skips(o) /\ shard_back_log' = shard_back_log
     \/ \E m \in Of(o, QoS) :
          /\ m.n = inp_seqno'[o] /\ Documented(o, setup, <<m>>)
          /\ shard_back_log' = [shard_back_log EXCEPT ![o] = Append(@, m)]

(* So does every PUBLISH that rx_publish is given.                         *)
LEMMA PublishDoes ==
  TypeOK => \A o \in Sources : \A p \in setup.publishes[o] : RxPublish(o, p) => Published(o)
(* There is such a function for all subscriptions of a client.             *)
<1>MergedExists. \A w \in Seq(Subscriptions) : \E f : MergedUpTo(f, w)
  <2> DEFINE M == Subscriptions
             Good(n) == \A w \in Seq(M) : Len(w) = n => \E f : MergedUpTo(f, w)
             S == {n \in Nat : Good(n)}
  <2> HIDE DEF M
  <2>1. Good(0)
    <3> SUFFICES ASSUME NEW w \in Seq(M), Len(w) = 0  PROVE \E f : MergedUpTo(f, w)
      OBVIOUS
    <3> DEFINE f == [i \in DOMAIN w |-> w]
    <3>1. \A i \in DOMAIN w : FALSE  OBVIOUS
    <3>2. f = [i \in DOMAIN w |-> IF i = 1 THEN w[1] ELSE Merged(f[i - 1], w[i])]  BY <3>1
    <3> QED  BY <3>2 DEF MergedUpTo
  <2>2. ASSUME NEW n \in Nat, Good(n)  PROVE Good(n + 1)
    <3> SUFFICES ASSUME NEW w \in Seq(M), Len(w) = n + 1  PROVE \E f : MergedUpTo(f, w)
      OBVIOUS
    <3> DEFINE t == SubSeq(w, 1, n)
    <3>1. /\ t \in Seq(M) /\ Len(t) = n /\ \A i \in 1 .. n : t[i] = w[i]
          /\ DOMAIN t = 1 .. n /\ DOMAIN w = 1 .. n + 1
      OBVIOUS
    <3>2. PICK g : MergedUpTo(g, t)  BY <2>2, <3>1
    <3> HIDE DEF t
    <3>3. \A i \in 1 .. n : g[i] = IF i = 1 THEN t[1] ELSE Merged(g[i - 1], t[i])
      BY <3>1, <3>2 DEF MergedUpTo
    <3> DEFINE f == [i \in 1 .. n + 1 |->
                       IF i =< n THEN g[i] ELSE IF i = 1 THEN w[1] ELSE Merged(g[n], w[i])]
    <3>4. ASSUME NEW i \in 1 .. n + 1
          PROVE  f[i] = IF i = 1 THEN w[1] ELSE Merged(f[i - 1], w[i])
      <4>1. CASE i \in 1 .. n
        <5>1. g[i] = IF i = 1 THEN t[1] ELSE Merged(g[i - 1], t[i])  BY <3>3, <4>1
        <5>2. f[i] = g[i] /\ (i # 1 => f[i - 1] = g[i - 1])  BY <4>1
        <5>3. t[i] = w[i]  BY <3>1, <4>1
        <5> HIDE DEF f
        <5> QED  BY Zenon, <5>1, <5>2, <5>3
      <4>2. CASE i = n + 1
        <5>1. f[i] = IF i = 1 THEN w[1] ELSE Merged(g[n], w[i])  BY <4>2
        <5>2. i # 1 => f[i - 1] = g[n]  BY <4>2
        <5> HIDE DEF f
        <5> QED  BY Zenon, <5>1, <5>2
      <4> QED  BY <4>1, <4>2
    <3>5. f = [i \in DOMAIN w |-> f[i]]  BY <3>1
    <3> HIDE DEF f
    <3>6. [i \in DOMAIN w |-> f[i]]
            = [i \in DOMAIN w |-> IF i = 1 THEN w[1] ELSE Merged(f[i - 1], w[i])]
      BY Zenon, <3>1, <3>4
    <3>7. MergedUpTo(f, w)  BY Zenon, <3>5, <3>6 DEF MergedUpTo
    <3> QED  BY Zenon, <3>7
  <2> HIDE DEF Good
  <2>3. 0 \in S /\ \A n \in Nat : n \in S => n + 1 \in S  BY <2>1, <2>2
  <2> HIDE DEF S
  <2>4. \A n \in Nat : n \in S  BY Zenon, <2>3, Induction
  <2>5. \A n \in Nat : Good(n)  BY <2>4 DEF S
  <2>6. ASSUME NEW w \in Seq(M) PROVE \E f : MergedUpTo(f, w)
    <3>1. Len(w) \in Nat  BY LenProperties
    <3> QED  BY Zenon, <2>5, <3>1 DEF Good
  <2> QED  BY Zenon, <2>6 DEF M

(* One more subscription.                                                  *)
<1>OneMore.
    ASSUME NEW w \in Seq(Subscriptions), NEW n \in Nat, n + 1 \in 1 .. Len(w), NEW r, Sums(r, w, n)
    PROVE  Sums(Merged(r, w[n + 1]), w, n + 1)
  <2> USE <1>OneMore
  <2> DEFINE x == w[n + 1]
             z == Merged(r, x)
             N == 1 .. n
             L == 1 .. n + 1
  <2>1. x \in Subscriptions /\ r \in Subscriptions
    <3> DEFINE M == Subscriptions
    <3> HIDE DEF M
    <3>1. w \in Seq(M)  BY Zenon DEF M
    <3>2. x \in M  BY <3>1
    <3> QED  BY Zenon, <3>2 DEF M, Sums
  <2>2. r.qos \in Nat /\ x.qos \in Nat /\ r.qos \in QoS /\ x.qos \in QoS
    BY <2>1 DEF Subscriptions, QoS
  <2>3. L = N \cup {n + 1}  OBVIOUS
  <2>4. Max({r.qos, x.qos}) = IF r.qos =< x.qos THEN x.qos ELSE r.qos
    <3> DEFINE a == r.qos
               b == x.qos
    <3> HIDE DEF a, b
    <3>1. a \in Nat /\ b \in Nat  BY <2>2 DEF a, b
    <3>2. \E i \in {a, b} : \A j \in {a, b} : i >= j  BY <3>1
    <3>3. Max({a, b}) \in {a, b} /\ \A j \in {a, b} : Max({a, b}) >= j  BY Zenon, <3>2 DEF Max
    <3>4. Max({a, b}) = IF a =< b THEN b ELSE a  BY <3>1, <3>3
    <3> QED  BY Zenon, <3>4 DEF a, b
  <2>5. /\ z.no_local = (r.no_local /\ x.no_local) /\ z.rap = (r.rap \/ x.rap)
        /\ z.qos = IF r.qos =< x.qos THEN x.qos ELSE r.qos
    BY Zenon, <2>4 DEF Merged
  <2>6. z \in Subscriptions
    <3>1. (r.no_local /\ x.no_local) \in BOOLEAN /\ (r.rap \/ x.rap) \in BOOLEAN  BY Zenon
    <3>2. Max({r.qos, x.qos}) \in QoS  BY Zenon, <2>2, <2>4
    <3> QED  BY Zenon, <3>1, <3>2 DEF Merged, Subscriptions
  <2> HIDE DEF x, z, N, L
  <2>7. (\E i \in N : r.qos = w[i].qos) /\ \A i \in N : w[i].qos =< r.qos  BY Zenon DEF Sums, N
  <2>8. ASSUME NEW i \in N PROVE w[i].qos =< z.qos
    <3>1. w[i].qos \in Nat
      <4> DEFINE M == Subscriptions
      <4>1. w[i] \in M
        <5> HIDE DEF M
        <5>1. w \in Seq(M)  BY Zenon DEF M
        <5> QED  BY <5>1 DEF N
      <4> QED  BY <4>1 DEF Subscriptions, QoS
    <3>2. w[i].qos =< r.qos  BY Zenon, <2>7
    <3> QED  BY <2>2, <2>5, <3>1, <3>2
  <2>9. x.qos =< z.qos  BY <2>2, <2>5
  <2>10. \A i \in L : w[i].qos =< z.qos  BY Zenon, <2>3, <2>8, <2>9 DEF x
  <2>11. \E i \in L : z.qos = w[i].qos  BY Zenon, <2>3, <2>5, <2>7 DEF x
  <2>12. z.no_local <=> \A i \in L : w[i].no_local
    <3>1. r.no_local <=> \A i \in N : w[i].no_local  BY Zenon DEF Sums, N
    <3> QED  BY Zenon, <2>3, <2>5, <3>1 DEF x
  <2>13. z.rap <=> \E i \in L : w[i].rap
    <3>1. r.rap <=> \E i \in N : w[i].rap  BY Zenon DEF Sums, N
    <3> QED  BY Zenon, <2>3, <2>5, <3>1 DEF x
  <2> QED  BY Zenon, <2>6, <2>10, <2>11, <2>12, <2>13 DEF Sums, x, z, L

(* Shard::match_subscribers.                                               *)
<1>MatchIs. ASSUME NEW w \in Seq(Subscriptions), w # <<>>
            PROVE  Sums(MatchSubscribers(w), w, Len(w))
  <2> USE <1>MatchIs
  <2> DEFINE f == CHOOSE g : MergedUpTo(g, w)
             M == Subscriptions
             S == {n \in Nat : n < Len(w) => Sums(f[n + 1], w, n + 1)}
  <2>1. MergedUpTo(f, w)  BY Zenon, <1>MergedExists
  <2>2. MatchSubscribers(w) = f[Len(w)]  BY Zenon DEF MatchSubscribers, MergedUpTo
  <2> HIDE DEF f, M
  <2>3. w \in Seq(M)  BY Zenon DEF M
  <2>4. Len(w) \in Nat \ {0} /\ DOMAIN w = 1 .. Len(w) /\ w[1] \in M  BY <2>3
  <2>5. \A i \in DOMAIN w : f[i] = IF i = 1 THEN w[1] ELSE Merged(f[i - 1], w[i])
    BY Zenon, <2>1 DEF MergedUpTo
  <2>6. 0 \in S
    <3>1. f[1] = w[1]  BY <2>4, <2>5
    <3>2. Sums(w[1], w, 1)
      <4>1. 1 .. 1 = {1}  OBVIOUS
      <4>2. w[1] \in Subscriptions  BY Zenon, <2>4 DEF M
      <4>3. w[1].qos =< w[1].qos  BY <4>2 DEF Subscriptions, QoS
      <4> QED  BY Zenon, <4>1, <4>2, <4>3 DEF Sums
    <3>3. 0 + 1 = 1 /\ 0 \in Nat  OBVIOUS
    <3> QED  BY Zenon, <3>1, <3>2, <3>3
  <2>7. ASSUME NEW n \in Nat, n \in S PROVE n + 1 \in S
    <3> SUFFICES ASSUME n + 1 < Len(w) PROVE Sums(f[n + 1 + 1], w, n + 1 + 1)
      OBVIOUS
    <3> DEFINE k == n + 1
    <3>1. k \in Nat /\ k + 1 \in 1 .. Len(w) /\ k + 1 # 1 /\ (k + 1) - 1 = k /\ n < Len(w)
      BY <2>4
    <3>2. Sums(f[k], w, k)  BY Zenon, <2>7, <3>1
    <3> HIDE DEF k
    <3>3. f[k + 1] = Merged(f[k], w[k + 1])  BY Zenon, <2>4, <2>5, <3>1
    <3>4. Sums(Merged(f[k], w[k + 1]), w, k + 1)  BY <3>1, <3>2, <1>OneMore
    <3> QED  BY Zenon, <3>3, <3>4 DEF k
  <2> HIDE DEF S
  <2>8. \A n \in Nat : n \in S  BY Zenon, <2>6, <2>7, Induction
  <2>9. Len(w) - 1 \in Nat /\ Len(w) - 1 < Len(w) /\ (Len(w) - 1) + 1 = Len(w)  BY <2>4
  <2>10. Sums(f[Len(w)], w, Len(w))  BY Zenon, <2>8, <2>9 DEF S
  <2> QED  BY Zenon, <2>2, <2>10

(* The smallest of three numbers.                                          *)
<1>MinOfThree. ASSUME NEW a \in Nat, NEW b \in Nat, NEW c \in Nat
               PROVE  /\ Min({a, b, c}) \in {a, b, c}
                      /\ Min({a, b, c}) =< a /\ Min({a, b, c}) =< b /\ Min({a, b, c}) =< c
  <2> USE <1>MinOfThree
  <2>1. \E x \in {a, b, c} : \A y \in {a, b, c} : x =< y  BY SMT
  <2>2. Min({a, b, c}) \in {a, b, c} /\ \A y \in {a, b, c} : Min({a, b, c}) =< y
    BY Zenon, <2>1 DEF Min
  <2> QED  BY Zenon, <2>2

(* A message that a source routes.                                         *)
<1>RoutedIs.
    ASSUME TypeOK, NEW o \in Sources, NEW p \in setup.publishes[o], NEW n \in Nat,
           NEW r, r = MatchSubscribers(setup.matches[o]), NEW m, m = Routed(o, n, r, p)
    PROVE  /\ m \in Messages /\ m \in Of(o, QoS) /\ m.n = n
           /\ ~(r.no_local /\ p.own) => Documented(o, setup, <<m>>)
           /\ r.no_local /\ p.own => Skips(o)
  <2> USE <1>RoutedIs
  <2> DEFINE w == setup.matches[o]
             subs == Range(w)
  <2>1. p \in Publishes /\ w \in Seq(Subscriptions) /\ w # <<>>
    <3>1. Setup(setup)  BY Zenon, DeliveryAssumption DEF TypeOK
    <3> QED  BY Zenon, <3>1 DEF Setup
  <2>2. Sums(r, w, Len(w))  BY <2>1, <1>MatchIs
  <2>3. DOMAIN w = 1 .. Len(w)
    <3> DEFINE M == Subscriptions
    <3> HIDE DEF M
    <3>1. w \in Seq(M)  BY Zenon, <2>1 DEF M
    <3> QED  BY <3>1
  <2>4. /\ MaxQoS \in QoS /\ p.qos \in QoS /\ r.qos \in QoS
        /\ {p.retain, p.own, r.rap, r.no_local} \subseteq BOOLEAN
    BY Zenon, <2>1, <2>2, DeliveryAssumption DEF Sums, Publishes, Subscriptions
  <2>5. MaxQoS \in Nat /\ p.qos \in Nat /\ r.qos \in Nat  BY <2>4 DEF QoS
  <2>6. /\ m.qos \in {MaxQoS, p.qos, r.qos}
        /\ m.qos =< MaxQoS /\ m.qos =< p.qos /\ m.qos =< r.qos
    <3>1. m.qos = Min({MaxQoS, p.qos, r.qos})  BY Zenon DEF Routed, RouteQoS
    <3> DEFINE q == p.qos
               t == r.qos
    <3> HIDE DEF q, t
    <3>2. q \in Nat /\ t \in Nat  BY <2>5 DEF q, t
    <3>3. /\ Min({MaxQoS, q, t}) \in {MaxQoS, q, t}
          /\ Min({MaxQoS, q, t}) =< MaxQoS /\ Min({MaxQoS, q, t}) =< q /\ Min({MaxQoS, q, t}) =< t
      BY <2>5, <3>2, <1>MinOfThree
    <3> QED  BY Zenon, <3>1, <3>3 DEF q, t
  <2>7. m.qos \in QoS  BY Zenon, <2>4, <2>6
  <2>8. /\ m.src = o /\ m.n = n /\ m.retain = (r.rap /\ p.retain)
        /\ m.ack_needed = (p.qos > 0) /\ m.packet_id = NoId
    BY Zenon DEF Routed
  <2>9. m \in Messages
    <3> DEFINE x == r.rap /\ p.retain
               y == p.qos > 0
               q == m.qos
    <3>1. x \in BOOLEAN /\ y \in BOOLEAN
      <4>1. x \in BOOLEAN  BY Zenon
      <4>2. y \in BOOLEAN  BY <2>5
      <4> QED  BY Zenon, <4>1, <4>2
    <3>2. NoId \in 0 .. NoId  BY DeliveryAssumption DEF NoId
    <3>3. m = [src |-> o, n |-> n, qos |-> q, retain |-> x, ack_needed |-> y,
               packet_id |-> NoId]
      BY Zenon DEF Routed
    <3>4. q \in QoS  BY <2>7
    <3> HIDE DEF x, y, q
    <3>5. [src |-> o, n |-> n, qos |-> q, retain |-> x, ack_needed |-> y, packet_id |-> NoId]
            \in Messages
      BY <3>1, <3>2, <3>4 DEF Messages
    <3> QED  BY Zenon, <3>3, <3>5
  <2>10. m \in Of(o, QoS)  BY Zenon, <2>7, <2>8, <2>9 DEF Of
  <2>11. \A x : x \in subs <=> \E i \in 1 .. Len(w) : x = w[i]  BY Zenon, <2>3 DEF Range
  <2>12. \A x \in subs : x.qos =< r.qos  BY Zenon, <2>2, <2>11 DEF Sums
  <2>13. \E x \in subs : m.qos =< x.qos
    <3>1. PICK i \in 1 .. Len(w) : r.qos = w[i].qos  BY Zenon, <2>2 DEF Sums
    <3> QED  BY Zenon, <2>6, <2>11, <3>1
  <2>14. m.qos \in {MaxQoS, p.qos} \/ \A x \in subs : m.qos >= x.qos
    <3>1. CASE m.qos = r.qos
      <4> SUFFICES ASSUME NEW x \in subs PROVE m.qos >= x.qos  BY Zenon
      <4>1. x.qos \in Nat
        <5>1. x \in Subscriptions
          <6> DEFINE M == Subscriptions
          <6> HIDE DEF M
          <6>1. w \in Seq(M)  BY Zenon, <2>1 DEF M
          <6>2. PICK i \in 1 .. Len(w) : x = w[i]  BY Zenon, <2>11
          <6>3. x \in M  BY <6>1, <6>2
          <6> QED  BY Zenon, <6>3 DEF M
        <5> QED  BY <5>1 DEF Subscriptions, QoS
      <4>2. x.qos =< r.qos  BY Zenon, <2>12
      <4> QED  BY <2>5, <3>1, <4>1, <4>2
    <3> QED  BY Zenon, <2>6, <3>1
  <2>15. m.retain <=> (p.retain /\ \E x \in subs : x.rap)
    <3>1. r.rap <=> \E i \in 1 .. Len(w) : w[i].rap  BY Zenon, <2>2 DEF Sums
    <3>2. (\E i \in 1 .. Len(w) : w[i].rap) <=> \E x \in subs : x.rap  BY Zenon, <2>11
    <3>3. m.retain <=> (r.rap /\ p.retain)  BY Zenon, <2>8
    <3> QED  BY Zenon, <3>1, <3>2, <3>3
  <2>16. r.no_local <=> \A x \in subs : x.no_local  BY Zenon, <2>2, <2>11 DEF Sums
  <2>17. ~(r.no_local /\ p.own) => Documented(o, setup, <<m>>)
    <3> SUFFICES ASSUME ~(r.no_local /\ p.own) PROVE Documented(o, setup, <<m>>)  BY Zenon
    <3>1. p.own => \E x \in subs : ~x.no_local  BY Zenon, <2>16
    <3>2. \A y \in Range(<<m>>) : y = m
      <4>1. DOMAIN <<m>> = {1} /\ <<m>>[1] = m  BY SMT
      <4> QED  BY Zenon, <4>1 DEF Range
    <3>3. m.ack_needed <=> p.qos > 0  BY Zenon, <2>8
    <3> HIDE DEF w
    <3> QED  BY Zenon, <2>6, <2>13, <2>14, <2>15, <3>1, <3>2, <3>3 DEF Documented, AsPublished, w
  <2>18. r.no_local /\ p.own => Skips(o)
    BY Zenon, <2>3, <2>11, <2>16 DEF Skips
  <2> QED  BY Zenon, <2>8, <2>9, <2>10, <2>17, <2>18

<1> SUFFICES ASSUME TypeOK, NEW o \in Sources, NEW p \in setup.publishes[o], RxPublish(o, p)
             PROVE  Published(o)
  OBVIOUS
<1> DEFINE n == inp_seqno[o] + 1
           r == MatchSubscribers(setup.matches[o])
           m == Routed(o, n, r, p)
<1>1. inp_seqno \in [Sources -> Nat]  BY Zenon DEF TypeOK
<1>2. inp_seqno' = [inp_seqno EXCEPT ![o] = n]  BY Zenon DEF RxPublish
<1>3. n \in Nat  BY <1>1
<1>4. /\ m \in Of(o, QoS) /\ m.n = n
      /\ ~(r.no_local /\ p.own) => Documented(o, setup, <<m>>)
      /\ r.no_local /\ p.own => Skips(o)
  BY <1>3, <1>RoutedIs
<1> HIDE DEF n
<1>5. inp_seqno'[o] = n  BY Zenon, <1>1, <1>2
<1>6. shard_back_log' = IF r.no_local /\ p.own THEN shard_back_log
                        ELSE [shard_back_log EXCEPT ![o] = Append(@, m)]
  <2>1. shard_back_log' =
          IF r.no_local /\ p.own THEN shard_back_log
          ELSE [shard_back_log EXCEPT ![o] = Append(@, Routed(o, inp_seqno'[o], r, p))]
    BY Zenon DEF RxPublish
  <2> QED  BY Zenon, <1>5, <2>1
<1>7. inp_seqno' \in [Sources -> Nat]  BY Zenon, <1>1, <1>2, <1>3
<1>8. \A s \in Sources : s # o => inp_seqno'[s] = inp_seqno[s]  BY Zenon, <1>1, <1>2
<1> HIDE DEF m, r
<1>9. CASE r.no_local /\ p.own  BY Zenon, <1>4, <1>5, <1>6, <1>7, <1>8, <1>9 DEF Published, n
<1>10. CASE ~(r.no_local /\ p.own)  BY Zenon, <1>4, <1>5, <1>6, <1>7, <1>8, <1>10 DEF Published, n
<1> QED  BY Zenon, <1>9, <1>10

(***************************************************************************)
(* The numbers of the messages of a queue.                                 *)
(***************************************************************************)
(* The number of a message that is in a set.                               *)
Num(S) == [m \in Messages |-> IF m \in S THEN <<m.n>> ELSE <<>>]

(* Numbers is FlatMap of that function.                                    *)
LEMMA NumbersIs ==
  ASSUME NEW S, NEW w \in Seq(Messages)
  PROVE  Numbers(w, S) = FlatMap(Num(S), w)
<1> DEFINE g == Num(S)
<1>1. ASSUME NEW i \in DOMAIN w
      PROVE  (IF w[i] \in S THEN <<w[i].n>> ELSE <<>>) = g[w[i]]
  <2>1. w[i] \in Messages
    <3> DEFINE M == Messages
    <3> HIDE DEF M
    <3>1. w \in Seq(M)  BY DEF M
    <3>2. w[i] \in M  BY <3>1, LenProperties
    <3> QED  BY <3>2 DEF M
  <2> QED  BY Zenon, <2>1 DEF Num
<1>2. [i \in DOMAIN w |-> IF w[i] \in S THEN <<w[i].n>> ELSE <<>>]
        = [i \in DOMAIN w |-> g[w[i]]]
  BY Zenon, <1>1
<1> QED  BY Zenon, <1>2 DEF Numbers, FlatMap

(* The number is natural.                                                  *)
LEMMA NumTyped == \A S : Num(S) \in [Messages -> Seq(Nat)]
<1> SUFFICES ASSUME NEW S  PROVE Num(S) \in [Messages -> Seq(Nat)]  OBVIOUS
<1>1. ASSUME NEW m \in Messages  PROVE (IF m \in S THEN <<m.n>> ELSE <<>>) \in Seq(Nat)
  <2>1. m.n \in Nat  BY DEF Messages
  <2>2. <<m.n>> \in Seq(Nat) /\ <<>> \in Seq(Nat)  BY <2>1
  <2> QED  BY Zenon, <2>2
<1> QED  BY Zenon, <1>1 DEF Num

(* The numbers of some messages are natural numbers.                       *)
LEMMA NumbersTyped == \A S : \A w \in Seq(Messages) : Numbers(w, S) \in Seq(Nat)
<1> SUFFICES ASSUME NEW S, NEW w \in Seq(Messages)  PROVE Numbers(w, S) \in Seq(Nat)
  OBVIOUS
<1>1. Num(S) \in [Messages -> Seq(Nat)]  BY Zenon, NumTyped
<1>2. FlatMap(Num(S), w) \in Seq(Nat)  BY <1>1, FlatMapTyped
<1>3. Numbers(w, S) = FlatMap(Num(S), w)  BY NumbersIs
<1> QED  BY Zenon, <1>2, <1>3

(* Of no message.                                                          *)
LEMMA NumbersEmpty == \A S : Numbers(<<>>, S) = <<>>
<1> SUFFICES ASSUME NEW S  PROVE Numbers(<<>>, S) = <<>>  OBVIOUS
<1>1. <<>> \in Seq(Messages)  BY SMT
<1>2. Numbers(<<>>, S) = FlatMap(Num(S), <<>>)  BY <1>1, NumbersIs
<1> QED  BY Zenon, <1>2, FlatMapEmpty

(* Of two queues, one behind the other.                                    *)
LEMMA NumbersConcat ==
  \A S : \A v, w \in Seq(Messages) : Numbers(v \o w, S) = Numbers(v, S) \o Numbers(w, S)
<1> SUFFICES ASSUME NEW S, NEW v \in Seq(Messages), NEW w \in Seq(Messages)
             PROVE  Numbers(v \o w, S) = Numbers(v, S) \o Numbers(w, S)
  OBVIOUS
<1>1. Num(S) \in [Messages -> Seq(Nat)]  BY Zenon, NumTyped
<1>2. FlatMap(Num(S), v \o w) = FlatMap(Num(S), v) \o FlatMap(Num(S), w)
  <2>1. Distributes(Num(S), Messages)  BY <1>1, FlatMapConcat
  <2> QED  BY Zenon, <2>1 DEF Distributes
<1>3. v \o w \in Seq(Messages)  BY SMT
<1>4. Numbers(v, S) = FlatMap(Num(S), v) /\ Numbers(w, S) = FlatMap(Num(S), w)
  BY NumbersIs
<1>5. Numbers(v \o w, S) = FlatMap(Num(S), v \o w)
  <2> DEFINE t == v \o w
  <2>1. t \in Seq(Messages)  BY <1>3
  <2> HIDE DEF t
  <2> QED  BY <2>1, NumbersIs DEF t
<1> QED  BY Zenon, <1>2, <1>4, <1>5

(* Of one message more.                                                    *)
LEMMA NumbersAppend ==
  \A S : \A w \in Seq(Messages), m \in Messages :
    Numbers(Append(w, m), S) = IF m \in S THEN Append(Numbers(w, S), m.n) ELSE Numbers(w, S)
<1> SUFFICES ASSUME NEW S, NEW w \in Seq(Messages), NEW m \in Messages
             PROVE  Numbers(Append(w, m), S)
                      = IF m \in S THEN Append(Numbers(w, S), m.n) ELSE Numbers(w, S)
  OBVIOUS
<1> DEFINE g == Num(S)
           t == Append(w, m)
<1>1. g \in [Messages -> Seq(Nat)]  BY Zenon, NumTyped
<1>2. g[m] = (IF m \in S THEN <<m.n>> ELSE <<>>)  BY Zenon DEF Num
<1>3. t \in Seq(Messages) /\ m.n \in Nat  BY SMT DEF Messages
<1> HIDE DEF g
<1>4. Numbers(t, S) = FlatMap(g, t)
  <2> HIDE DEF t
  <2> QED  BY <1>3, NumbersIs DEF g
<1>5. Numbers(w, S) = FlatMap(g, w)  BY NumbersIs DEF g
<1>6. CASE m \in S
  <2>1. g[m] = <<m.n>>  BY Zenon, <1>2, <1>6
  <2>2. FlatMap(g, Append(w, m)) = Append(FlatMap(g, w), m.n)
    <3> DEFINE b == m.n
    <3>1. b \in Nat /\ g[m] = <<b>>  BY Zenon, <1>3, <2>1
    <3> HIDE DEF b
    <3>2. FlatMap(g, w) \in Seq(Nat)  BY <1>1, FlatMapTyped
    <3>3. FlatMap(g, Append(w, m)) = FlatMap(g, w) \o g[m]  BY <1>1, FlatMapAppend
    <3>4. \A x \in Seq(Nat) : x \o <<b>> = Append(x, b)  BY <3>1, SMT
    <3> QED  BY Zenon, <3>1, <3>2, <3>3, <3>4 DEF b
  <2> QED  BY Zenon, <1>4, <1>5, <1>6, <2>2
<1>7. CASE m \notin S
  <2>1. g[m] = <<>>  BY Zenon, <1>2, <1>7
  <2>2. FlatMap(g, Append(w, m)) = FlatMap(g, w)  BY <1>1, <2>1, FlatMapNone
  <2> QED  BY Zenon, <1>4, <1>5, <1>7, <2>2
<1> QED  BY Zenon, <1>6, <1>7

(* Numbers are the numbers of the messages that are in the set.            *)
LEMMA NumbersRange ==
  \A S : \A w \in Seq(Messages) :
    Range(Numbers(w, S)) = {m.n : m \in Range(w) \cap S}
<1> SUFFICES ASSUME NEW S
             PROVE  \A w \in Seq(Messages) :
                      Range(Numbers(w, S)) = {m.n : m \in Range(w) \cap S}
  OBVIOUS
<1> DEFINE M == Messages
           P == {w \in Seq(M) : Range(Numbers(w, S)) = {m.n : m \in Range(w) \cap S}}
<1>1. <<>> \in P
  <2>1. <<>> \in Seq(M)  BY SMT
  <2> QED  BY Zenon, <2>1, NumbersEmpty, RangeEmpty
<1>2. ASSUME NEW w \in Seq(M), NEW m \in M, w \in P  PROVE Append(w, m) \in P
  <2> DEFINE t == Append(w, m)
             u == Numbers(w, S)
  <2>1. t \in Seq(M)  BY SMT
  <2>2. Range(t) = Range(w) \cup {m}  BY RangeAppend
  <2>3. Range(u) = {x.n : x \in Range(w) \cap S}  BY Zenon, <1>2
  <2>4. Numbers(t, S) = IF m \in S THEN Append(u, m.n) ELSE u  BY Zenon, NumbersAppend
  <2>5. u \in Seq(Nat) /\ m.n \in Nat  BY Zenon, NumbersTyped DEF Messages
  <2> HIDE DEF u, t
  <2>6. CASE m \in S
    <3>1. Range(Append(u, m.n)) = Range(u) \cup {m.n}  BY <2>5, RangeAppend
    <3>2. Range(Numbers(t, S)) = {x.n : x \in Range(w) \cap S} \cup {m.n}
      BY Zenon, <2>3, <2>4, <2>6, <3>1
    <3>3. {x.n : x \in Range(w) \cap S} \cup {m.n} = {x.n : x \in Range(t) \cap S}
      BY <2>2, <2>6
    <3> QED  BY Zenon, <2>1, <3>2, <3>3 DEF t
  <2>7. CASE m \notin S
    <3>1. Range(w) \cap S = Range(t) \cap S  BY Zenon, <2>2, <2>7
    <3> QED  BY Zenon, <2>1, <2>3, <2>4, <2>7, <3>1 DEF t
  <2> QED  BY Zenon, <2>6, <2>7
<1> HIDE DEF P
<1>3. \A w \in Seq(M) : w \in P
  <2> HIDE DEF M
  <2> QED  BY Zenon, <1>1, <1>2, SeqInduction
<1> QED  BY Zenon, <1>3 DEF P

(* Selecting messages keeps the numbers of those that are looked for, if   *)
(* they are among the selected ones.                                       *)
LEMMA NumbersSelect ==
  \A S, T : S \subseteq T => \A w \in Seq(Messages) : Numbers(Select(w, T), S) = Numbers(w, S)
<1> SUFFICES ASSUME NEW S, NEW T, S \subseteq T
             PROVE  \A w \in Seq(Messages) : Numbers(Select(w, T), S) = Numbers(w, S)
  OBVIOUS
<1> DEFINE M == Messages
           P == {w \in Seq(M) : Numbers(Select(w, T), S) = Numbers(w, S)}
<1>1. <<>> \in P
  <2>1. <<>> \in Seq(M)  BY SMT
  <2>2. Select(<<>>, T) = <<>>
    <3>1. FlatMap(Keep(M, T), <<>>) = <<>>  BY Zenon, FlatMapEmpty
    <3> QED  BY <2>1, <3>1, SelectIs
  <2> QED  BY Zenon, <2>1, <2>2
<1>2. ASSUME NEW w \in Seq(M), NEW m \in M, w \in P  PROVE Append(w, m) \in P
  <2> DEFINE t == Append(w, m)
             u == Select(w, T)
  <2>1. t \in Seq(M)  BY SMT
  <2>2. u \in Seq(M) /\ Select(t, T) = IF m \in T THEN Append(u, m) ELSE u
    BY SelectAppend
  <2>3. Numbers(u, S) = Numbers(w, S)  BY Zenon, <1>2
  <2>4. Numbers(t, S) = IF m \in S THEN Append(Numbers(w, S), m.n) ELSE Numbers(w, S)
    BY Zenon, NumbersAppend
  <2>5. Numbers(Append(u, m), S) = IF m \in S THEN Append(Numbers(u, S), m.n) ELSE Numbers(u, S)
    BY Zenon, <2>2, NumbersAppend
  <2>6. Numbers(Select(t, T), S) = Numbers(t, S)
    <3>1. m \in S => m \in T  BY Zenon
    <3> HIDE DEF t, u
    <3>2. CASE m \in T
      <4>1. Select(t, T) = Append(u, m)  BY Zenon, <2>2, <3>2
      <4> QED  BY <2>3, <2>4, <2>5, <4>1
    <3>3. CASE m \notin T
      <4>1. Select(t, T) = u /\ m \notin S  BY Zenon, <2>2, <3>1, <3>3
      <4> QED  BY Zenon, <2>3, <2>4, <4>1
    <3> QED  BY Zenon, <3>2, <3>3
  <2> QED  BY Zenon, <2>1, <2>6
<1> HIDE DEF P
<1>3. \A w \in Seq(M) : w \in P
  <2> HIDE DEF M
  <2> QED  BY Zenon, <1>1, <1>2, SeqInduction
<1> QED  BY Zenon, <1>3 DEF P

(* Of messages that are not in the set there are none.                     *)
LEMMA NumbersNone ==
  \A S : \A w \in Seq(Messages) : Range(w) \cap S = {} => Numbers(w, S) = <<>>
<1> SUFFICES ASSUME NEW S, NEW w \in Seq(Messages), Range(w) \cap S = {}
             PROVE  Numbers(w, S) = <<>>
  OBVIOUS
<1>1. Range(Numbers(w, S)) = {}
  <2>1. Range(Numbers(w, S)) = {m.n : m \in Range(w) \cap S}  BY Zenon, NumbersRange
  <2>2. {m.n : m \in Range(w) \cap S} = {}  BY SMT
  <2> QED  BY Zenon, <2>1, <2>2
<1> DEFINE u == Numbers(w, S)
<1>2. u \in Seq(Nat)  BY Zenon, NumbersTyped
<1> HIDE DEF u
<1>3. u = <<>>
  <2>1. ASSUME u # <<>>  PROVE u[1] \in Range(u)
    <3>1. 1 \in DOMAIN u  BY <1>2, <2>1, EmptySeq, SMT
    <3> QED  BY Zenon, <3>1 DEF Range
  <2> QED  BY Zenon, <1>1, <2>1 DEF u
<1> QED  BY <1>3 DEF u

(***************************************************************************)
(* What out_qos0 and out_qos_active do to a session.                       *)
(***************************************************************************)
(* The smaller of two numbers.                                             *)
LEMMA MinOfTwo == \A a, b \in Nat : Min({a, b}) = IF a =< b THEN a ELSE b
<1> SUFFICES ASSUME NEW a \in Nat, NEW b \in Nat
             PROVE  Min({a, b}) = IF a =< b THEN a ELSE b
  OBVIOUS
<1>1. \E x \in {a, b} : \A y \in {a, b} : x =< y  BY SMT
<1>2. Min({a, b}) \in {a, b} /\ \A y \in {a, b} : Min({a, b}) =< y  BY Zenon, <1>1 DEF Min
<1> QED  BY <1>2

(* The sizes of the channel, of a batch and of the back logs.              *)
LEMMA Sizes ==
  ASSUME TypeOK
  PROVE  /\ Batch \in Nat \ {0} /\ ChannelSize \in Nat /\ BackLogLimit \in Nat
         /\ setup.receive_max \in Nat \ {0}
<1>1. Setup(setup)  BY DeliveryAssumption DEF TypeOK
<1>2. Batch \in Nat \ {0} /\ setup.receive_max \in Nat \ {0}  BY <1>1 DEF Setup, Batch
<1>3. Cardinality(Sources) \in Nat  BY DeliveryAssumption, FS_CardinalityType
<1> QED  BY <1>2, <1>3 DEF ChannelSize, BackLogLimit

(* try_sends: what a queue takes and what it leaves are the items in their *)
(* order, and the queue is not overfilled.                                 *)
LEMMA Passed ==
  ASSUME NEW queue \in Seq(Messages), NEW size \in Nat, Len(queue) =< size,
         NEW items \in Seq(Messages)
  PROVE  /\ Sent(queue, size, items) \in Seq(Messages)
         /\ Left(queue, size, items) \in Seq(Messages)
         /\ Sent(queue, size, items) \o Left(queue, size, items) = items
         /\ queue \o Sent(queue, size, items) \in Seq(Messages)
         /\ Len(queue \o Sent(queue, size, items)) =< size
         /\ Len(Left(queue, size, items)) =< Len(items)
<1> DEFINE k == Fits(queue, size, items)
           M == Messages
           a == SubSeq(items, 1, k)
           b == SubSeq(items, k + 1, Len(items))
<1> HIDE DEF M
<1>0. items \in Seq(M) /\ queue \in Seq(M)  BY DEF M
<1>1. Len(queue) \in Nat /\ Len(items) \in Nat /\ size - Len(queue) \in Nat  BY <1>0
<1>2. k = IF size - Len(queue) =< Len(items) THEN size - Len(queue) ELSE Len(items)
  BY Zenon, <1>1, MinOfTwo DEF Fits
<1>3. k \in 0 .. Len(items) /\ k =< size - Len(queue)  BY <1>1, <1>2
<1> HIDE DEF k
<1>4. a \in Seq(M) /\ b \in Seq(M) /\ Len(a) = k /\ Len(b) = Len(items) - k
  BY <1>0, <1>1, <1>3
<1>5. a \o b = items
  <2>0. 1 \in 1 .. Len(items) + 1 /\ k \in 1 - 1 .. Len(items) /\ Len(items) \in k .. Len(items)
    BY <1>1, <1>3
  <2>1. a \o b = SubSeq(items, 1, Len(items))  BY <1>0, <2>0, ConcatAdjacentSubSeq
  <2>2. SubSeq(items, 1, Len(items)) = items  BY <1>0, SubSeqFull
  <2> QED  BY Zenon, <2>1, <2>2
<1> HIDE DEF a, b
<1>6. queue \o a \in Seq(M) /\ Len(queue \o a) =< size /\ Len(b) =< Len(items)
  BY <1>0, <1>1, <1>3, <1>4
<1>7. Sent(queue, size, items) = a /\ Left(queue, size, items) = b  BY DEF Sent, Left, a, b, k
<1> QED  BY Zenon, <1>4, <1>5, <1>6, <1>7 DEF M

(* What a queue took and left are the items.                               *)
LEMMA PassedRange ==
  ASSUME NEW queue \in Seq(Messages), NEW size \in Nat, Len(queue) =< size,
         NEW items \in Seq(Messages)
  PROVE  Range(Sent(queue, size, items)) \cup Range(Left(queue, size, items)) = Range(items)
<1> DEFINE a == Sent(queue, size, items)
           b == Left(queue, size, items)
<1>1. a \in Seq(Messages) /\ b \in Seq(Messages)  BY Passed
<1>2. a \o b = items  BY Passed
<1> HIDE DEF a, b
<1>3. Range(a \o b) = Range(a) \cup Range(b)  BY <1>1, RangeConcatenation
<1> QED  BY Zenon, <1>2, <1>3 DEF a, b
-----------------------------------------------------------------------------
(* What a turn changes of a session.                                       *)
States ==
  [next_packet_id : 0 .. IdSpace - 1, qos0_back_log : Seq(Messages),
   back_log : Seq(Messages), qos12_unacks : SUBSET Messages, lost : SUBSET Messages,
   miot_rx : Seq(Messages), connected : BOOLEAN, live : BOOLEAN]

(* What the session holds is within its limits.                            *)
Fit(st) ==
  /\ Len(st.miot_rx) =< Batch
  /\ IsFiniteSet(st.qos12_unacks)
  /\ Cardinality(st.qos12_unacks) =< setup.receive_max + Batch - 1
  /\ Len(st.qos0_back_log) =< BackLogLimit + ChannelSize
  /\ Len(st.back_log) =< BackLogLimit + ChannelSize

(* Each back log has messages of its level.                                *)
Sorted(st) ==
  Range(st.qos0_back_log) \subseteq AtQoS(QoS0) /\ Range(st.back_log) \subseteq AtQoS(QoS12)

(* AtLimit of a session.                                                   *)
Full(st) ==
  \/ Cardinality(st.qos12_unacks) >= setup.receive_max
  \/ Len(st.qos0_back_log) > BackLogLimit
  \/ Len(st.back_log) > BackLogLimit

(* The messages were dropped, at a limit, and the queues left as they are. *)
Dropped(st, t, msgs) ==
  /\ t.lost = st.lost \cup Range(msgs) /\ Full(t)
  /\ t.miot_rx = st.miot_rx /\ t.qos0_back_log = st.qos0_back_log /\ t.back_log = st.back_log

(* The messages joined those of QoS-0.                                     *)
Joined0(st, t, msgs) ==
  /\ t.lost = st.lost /\ t.back_log = st.back_log
  /\ t.miot_rx \o t.qos0_back_log = st.miot_rx \o (st.qos0_back_log \o msgs)

(* The messages joined those of the other levels.                          *)
Joined12(st, t, msgs) ==
  /\ t.lost = st.lost /\ t.qos0_back_log = st.qos0_back_log
  /\ t.miot_rx \o t.back_log = st.miot_rx \o (st.back_log \o msgs)

(***************************************************************************)
(* The way of messages to the client.                                      *)
(***************************************************************************)
(* Sequences of messages one behind the other.                             *)
LEMMA MessagesConcat == \A v, w \in Seq(Messages) : v \o w \in Seq(Messages)
BY ConcatProperties

(* The levels are apart.                                                   *)
LEMMA Apart ==
  \A s : /\ AtQoS(QoS12) \cap Of(s, QoS0) = {} /\ AtQoS(QoS0) \cap Of(s, QoS12) = {}
         /\ Of(s, QoS0) \cup Of(s, QoS12) = Of(s, QoS)
<1>1. QoS0 \cap QoS12 = {} /\ QoS0 \cup QoS12 = QoS  BY DEF QoS0, QoS12, QoS
<1> QED  BY Zenon, <1>1 DEF AtQoS, Of

(* Messages of another level have no numbers at this one.                  *)
LEMMA OtherLevel ==
  \A S, T : \A v, w \in Seq(Messages) :
    Range(w) \subseteq T /\ T \cap S = {} =>
      Numbers(v \o w, S) = Numbers(v, S) /\ Numbers(w, S) = <<>>
<1> SUFFICES ASSUME NEW S, NEW T, NEW v \in Seq(Messages), NEW w \in Seq(Messages),
                    Range(w) \subseteq T, T \cap S = {}
             PROVE  Numbers(v \o w, S) = Numbers(v, S) /\ Numbers(w, S) = <<>>
  OBVIOUS
<1>1. Range(w) \cap S = {}  BY Zenon
<1>2. Numbers(w, S) = <<>>  BY Zenon, <1>1, NumbersNone
<1>3. Numbers(v \o w, S) = Numbers(v, S) \o Numbers(w, S)  BY Zenon, NumbersConcat
<1>4. Numbers(v, S) \in Seq(Nat)  BY Zenon, NumbersTyped
<1>5. Numbers(v, S) \o <<>> = Numbers(v, S)  BY <1>4, ConcatEmptySeq
<1> QED  BY Zenon, <1>2, <1>3, <1>5

(* The numbers of three queues.                                            *)
Three(S) ==
  \A r, m, q \in Seq(Messages) :
    Numbers((r \o m) \o q, S) = Numbers(r, S) \o Numbers(m \o q, S)

(* They are those of the first and of the other two.                       *)
LEMMA ThreeQueues == \A S : Three(S)
<1> SUFFICES ASSUME NEW S, NEW r \in Seq(Messages), NEW m \in Seq(Messages),
                    NEW q \in Seq(Messages)
             PROVE  Numbers((r \o m) \o q, S) = Numbers(r, S) \o Numbers(m \o q, S)
  BY Zenon DEF Three
<1>1. Assoc(Messages)  BY Zenon, Associative
<1>2. (r \o m) \o q = r \o (m \o q)  BY Zenon, <1>1 DEF Assoc
<1> DEFINE e == m \o q
<1>3. e \in Seq(Messages)  BY Zenon, MessagesConcat
<1> HIDE DEF e
<1>4. Numbers(r \o e, S) = Numbers(r, S) \o Numbers(e, S)  BY Zenon, <1>3, NumbersConcat
<1> QED  BY Zenon, <1>2, <1>4 DEF e

(* What is of QoS-0 in what the session has and had.                       *)
HasLevel0(s, r, m) ==
  \A q, b \in Seq(Messages) :
    Range(b) \subseteq AtQoS(QoS12) =>
      Numbers(((r \o m) \o q) \o b, Of(s, QoS0))
        = Numbers(r, Of(s, QoS0)) \o Numbers(m \o q, Of(s, QoS0))

(* What is of the other levels.                                            *)
HasLevel12(s, r, m) ==
  \A q, b \in Seq(Messages) :
    Range(q) \subseteq AtQoS(QoS0) =>
      Numbers(((r \o m) \o q) \o b, Of(s, QoS12))
        = Numbers(r, Of(s, QoS12)) \o Numbers(m \o b, Of(s, QoS12))

-----------------------------------------------------------------------------
(* The numbers of what the session was given and did not drop, from the    *)
(* client to its back logs.                                                *)
AheadOf(s, levels, st) ==
  Numbers(received[s] \o st.miot_rx \o st.qos0_back_log \o st.back_log, Of(s, levels))

(* A queue with messages of other levels at its end has the numbers that   *)
(* it has without them.                                                    *)
Silent(S, T) ==
  \A m, q, x \in Seq(Messages) :
    Range(q) \subseteq T /\ Range(x) \subseteq T => Numbers(m \o (q \o x), S) = Numbers(m, S)

(* A queue that grows at its end has the new numbers at its end.           *)
Grows(S, r, m) ==
  \A q, x \in Seq(Messages) :
    Numbers(r, S) \o Numbers(m \o (q \o x), S)
      = (Numbers(r, S) \o Numbers(m \o q, S)) \o Numbers(x, S)

(* The messages went behind those of their level, or they are gone.        *)
Handed(s, levels, st, t, msgs, gone) ==
  \/ /\ gone = {}
     /\ AheadOf(s, levels, t) = AheadOf(s, levels, st) \o Numbers(msgs, Of(s, levels))
  \/ /\ gone = Range(msgs)
     /\ AheadOf(s, levels, t) = AheadOf(s, levels, st)

(* What is gone is among the lost, and then the session is at a limit.     *)
Booked(st, t, gone) == t.lost = st.lost \cup gone /\ (gone # {} => Full(t))

(***************************************************************************)
(* A turn of the client's shard.                                           *)
(***************************************************************************)
(* The session as a turn finds it.                                         *)
LEMMA SessionIs ==
  ASSUME TypeOK, Placed, SessionIsBounded
  PROVE  /\ Session \in States /\ Fit(Session) /\ Sorted(Session)
         /\ Full(Session) <=> AtLimit
         /\ Session.lost = lost
         /\ SetSession(Session) <=> UNCHANGED <<session, miot_rx, connected, live>>
<1>1. Session \in States  BY DEF TypeOK, States, Session
<1>2. /\ Session.next_packet_id = next_packet_id /\ Session.qos0_back_log = qos0_back_log
      /\ Session.back_log = back_log /\ Session.qos12_unacks = qos12_unacks
      /\ Session.lost = lost /\ Session.miot_rx = miot_rx /\ Session.connected = connected
      /\ Session.live = live
  BY DEF Session
<1>3. Fit(Session)  BY Zenon, <1>2 DEF Fit, SessionIsBounded, TypeOK
<1>4. Sorted(Session)  BY Zenon, <1>2 DEF Sorted, Placed
<1>5. Full(Session) <=> AtLimit  BY Zenon, <1>2 DEF Full, AtLimit
<1>6. SetSession(Session) <=> UNCHANGED <<session, miot_rx, connected, live>>
  BY <1>2 DEF SetSession, session
<1> QED  BY Zenon, <1>1, <1>2, <1>3, <1>4, <1>5, <1>6

(* A turn that leaves the session in t, having handed it both levels.      *)
Served(t) ==
  /\ t \in States /\ Fit(t) /\ Sorted(t) /\ SetSession(t)
  /\ Full(Session) => Full(t)
  /\ \E G0, G12 :
       /\ ~panicked' => t.lost = lost \cup (G0 \cup G12) /\ (G0 \cup G12 # {} => Full(t))
       /\ \A s \in Sources :
            /\ Handed(s, QoS0, Session, t, Select(msg_rx, AtQoS(QoS0)), G0)
            /\ Handed(s, QoS12, Session, t, Select(msg_rx, AtQoS(QoS12)), G12)

(* So does every turn, whether or not it panics.                           *)
LEMMA TurnServes ==
  ASSUME TypeOK, Placed, SessionIsBounded, Turn
  PROVE  /\ \E t : Served(t)
         /\ ReturnLocalAcks \/ acked' = acked
(* Numbers look at nothing else of a message: packet identifiers do not    *)
(* change them.                                                            *)
<1>NumbersAlike. \A S, v, w :
                   /\ DOMAIN v = DOMAIN w
                   /\ \A i \in DOMAIN v : v[i].n = w[i].n /\ (v[i] \in S <=> w[i] \in S)
                   => Numbers(v, S) = Numbers(w, S)
  <2> SUFFICES ASSUME NEW S, NEW v, NEW w, DOMAIN v = DOMAIN w,
                      \A i \in DOMAIN v : v[i].n = w[i].n /\ (v[i] \in S <=> w[i] \in S)
               PROVE  Numbers(v, S) = Numbers(w, S)
    OBVIOUS
  <2>1. \A i \in DOMAIN v : (IF v[i] \in S THEN <<v[i].n>> ELSE <<>>)
                              = (IF w[i] \in S THEN <<w[i].n>> ELSE <<>>)
    BY Zenon
  <2>2. [i \in DOMAIN v |-> IF v[i] \in S THEN <<v[i].n>> ELSE <<>>]
          = [i \in DOMAIN w |-> IF w[i] \in S THEN <<w[i].n>> ELSE <<>>]
    BY Zenon, <2>1
  <2> QED  BY Zenon, <2>2 DEF Numbers

(* out_qos0 keeps to the limits, and either keeps all messages or drops    *)
(* them all.                                                               *)
<1>OutQoS0Step.
    ASSUME TypeOK, NEW st \in States, Fit(st), Sorted(st),
           NEW msgs \in Seq(Messages), Len(msgs) =< ChannelSize, Range(msgs) \subseteq AtQoS(QoS0),
           NEW t, t = OutQoS0(st, msgs)
    PROVE  /\ t \in States /\ Fit(t) /\ Sorted(t)
           /\ Full(st) => Full(t)
           /\ Dropped(st, t, msgs) \/ Joined0(st, t, msgs)
  <2> USE <1>OutQoS0Step
  <2>0. /\ Batch \in Nat \ {0} /\ ChannelSize \in Nat /\ BackLogLimit \in Nat
        /\ setup.receive_max \in Nat \ {0}
    BY Sizes
  <2>1. /\ st.miot_rx \in Seq(Messages) /\ st.qos0_back_log \in Seq(Messages)
        /\ st.back_log \in Seq(Messages) /\ st.lost \in SUBSET Messages
        /\ st.connected \in BOOLEAN /\ st.live \in BOOLEAN
    BY DEF States
  <2>2. CASE msgs = <<>>
    <3>1. t = st  BY <2>2 DEF OutQoS0
    <3>2. st.qos0_back_log \o msgs = st.qos0_back_log  BY Zenon, <2>1, <2>2, ConcatEmptySeq
    <3>3. Joined0(st, t, msgs)  BY Zenon, <3>1, <3>2 DEF Joined0
    <3> QED  BY Zenon, <3>1, <3>3
  <2>3. CASE msgs # <<>> /\ Len(st.qos0_back_log) > BackLogLimit
    <3>1. t = SlowClient(st, msgs)  BY <2>3 DEF OutQoS0
    <3>2. Range(msgs) \subseteq Messages  BY RangeOfSeq
    <3>3. t = [st EXCEPT !.lost = st.lost \cup Range(msgs), !.live = st.live /\ ~st.connected,
                         !.connected = FALSE]
      BY <3>1 DEF SlowClient
    <3>4. t \in States  BY <2>1, <3>2, <3>3 DEF States
    <3>5. /\ t.lost = st.lost \cup Range(msgs) /\ t.miot_rx = st.miot_rx
          /\ t.qos0_back_log = st.qos0_back_log /\ t.back_log = st.back_log
          /\ t.qos12_unacks = st.qos12_unacks
      BY <3>3 DEF States
    <3>6. Fit(t) /\ Sorted(t)  BY Zenon, <3>5 DEF Fit, Sorted
    <3>7. Full(t)  BY Zenon, <2>3, <3>5 DEF Full
    <3> QED  BY Zenon, <3>4, <3>5, <3>6, <3>7 DEF Dropped
  <2>4. CASE msgs # <<>> /\ ~ (Len(st.qos0_back_log) > BackLogLimit)
    <3> DEFINE all == st.qos0_back_log \o msgs
               a == Sent(st.miot_rx, Batch, all)
               b == Left(st.miot_rx, Batch, all)
    <3>1. t = [st EXCEPT !.miot_rx = st.miot_rx \o a, !.qos0_back_log = b]
      BY <2>4 DEF OutQoS0
    <3>2. /\ all \in Seq(Messages) /\ Len(all) = Len(st.qos0_back_log) + Len(msgs)
          /\ Len(st.qos0_back_log) \in Nat /\ Len(msgs) \in Nat
      BY <2>1
    <3>3. Range(all) = Range(st.qos0_back_log) \cup Range(msgs)  BY <2>1, RangeConcatenation
    <3> HIDE DEF all
    <3>4. Len(st.miot_rx) =< Batch  BY Zenon DEF Fit
    <3>5. /\ a \in Seq(Messages) /\ b \in Seq(Messages) /\ a \o b = all
          /\ st.miot_rx \o a \in Seq(Messages) /\ Len(st.miot_rx \o a) =< Batch
          /\ Len(b) =< Len(all)
      BY <2>0, <2>1, <3>2, <3>4, Passed
    <3>6. Range(a) \cup Range(b) = Range(all)  BY <2>0, <2>1, <3>2, <3>4, PassedRange
    <3> HIDE DEF a, b
    <3>7. t \in States  BY <3>1, <3>5 DEF States
    <3>8. /\ t.lost = st.lost /\ t.miot_rx = st.miot_rx \o a
          /\ t.qos0_back_log = b /\ t.back_log = st.back_log
          /\ t.qos12_unacks = st.qos12_unacks
      BY <3>1 DEF States
    <3>9. Len(b) =< BackLogLimit + ChannelSize
      <4>1. Len(b) \in Nat  BY <3>5
      <4> QED  BY <2>0, <2>4, <3>2, <3>5, <4>1
    <3>10. Fit(t)  BY Zenon, <3>5, <3>8, <3>9 DEF Fit
    <3>11. Sorted(t)
      <4>1. Range(b) \subseteq AtQoS(QoS0)  BY Zenon, <3>3, <3>6 DEF Sorted
      <4> QED  BY Zenon, <3>8, <4>1 DEF Sorted
    <3>12. Full(st) => Full(t)  BY Zenon, <2>4, <3>8 DEF Full
    <3>13. (st.miot_rx \o a) \o b = st.miot_rx \o (a \o b)
      <4> DEFINE x == st.miot_rx
      <4>1. Assoc(Messages)  BY Zenon, Associative
      <4>2. x \in Seq(Messages) /\ a \in Seq(Messages) /\ b \in Seq(Messages)
        BY Zenon, <2>1, <3>5
      <4> HIDE DEF x
      <4>3. (x \o a) \o b = x \o (a \o b)  BY Zenon, <4>1, <4>2 DEF Assoc
      <4> QED  BY <4>3 DEF x
    <3>14. Joined0(st, t, msgs)  BY Zenon, <3>5, <3>8, <3>13 DEF Joined0, all
    <3> QED  BY Zenon, <3>7, <3>10, <3>11, <3>12, <3>14
  <2> QED  BY Zenon, <2>2, <2>3, <2>4

(* into_packet changes nothing of a message but its identifier.            *)
<1>IdsOnly.
    ASSUME NEW st \in States, NEW msgs \in Seq(Messages), NEW v, v = WithIds(st, msgs)
    PROVE  /\ v \in Seq(Messages) /\ Len(v) = Len(msgs) /\ DOMAIN v = DOMAIN msgs
           /\ \A i \in DOMAIN msgs : /\ msgs[i] \in Messages /\ v[i] \in Messages
                                     /\ v[i].n = msgs[i].n /\ v[i].src = msgs[i].src
                                     /\ v[i].qos = msgs[i].qos
  <2> USE <1>IdsOnly
  <2> DEFINE id(i) == (st.next_packet_id + i - 1) % IdSpace
  <2>1. v = [i \in DOMAIN msgs |-> [msgs[i] EXCEPT !.packet_id = id(i)]]  BY Zenon DEF WithIds
  <2>2. DOMAIN msgs = 1 .. Len(msgs) /\ Len(msgs) \in Nat  BY LenProperties
  <2>3. ASSUME NEW i \in 1 .. Len(msgs)
        PROVE  /\ msgs[i] \in Messages /\ v[i] \in Messages
               /\ v[i].n = msgs[i].n /\ v[i].src = msgs[i].src /\ v[i].qos = msgs[i].qos
    <3>1. msgs[i] \in Messages  BY <2>2
    <3>2. id(i) \in 0 .. NoId
      <4>1. st.next_packet_id \in Nat /\ IdSpace \in Nat \ {0} /\ i \in Nat /\ i >= 1
        BY <2>2, DeliveryAssumption DEF States
      <4>2. (st.next_packet_id + i - 1) \in Nat  BY <4>1
      <4> QED  BY <4>1, <4>2 DEF NoId
    <3> HIDE DEF id
    <3>3. v[i] = [msgs[i] EXCEPT !.packet_id = id(i)]  BY Zenon, <2>1, <2>2
    <3> QED  BY <3>1, <3>2, <3>3 DEF Messages
  <2> HIDE DEF id
  <2>4. DOMAIN v = 1 .. Len(msgs)  BY Zenon, <2>1, <2>2
  <2>5. v \in Seq(Messages) /\ Len(v) = Len(msgs)
    <3>1. v = [i \in 1 .. Len(msgs) |-> v[i]]  BY Zenon, <2>1, <2>4
    <3>2. \A i \in 1 .. Len(msgs) : v[i] \in Messages  BY Zenon, <2>3
    <3> DEFINE M == Messages
    <3> HIDE DEF M
    <3>3. \A i \in 1 .. Len(msgs) : v[i] \in M  BY Zenon, <3>2 DEF M
    <3>4. v \in Seq(M)  BY <2>2, <3>1, <3>3, IsASeq
    <3>5. Len(v) = Len(msgs)  BY <2>2, <2>4, <3>4, LenProperties
    <3> QED  BY <3>4, <3>5 DEF M
  <2> QED  BY Zenon, <2>2, <2>3, <2>4, <2>5

(* Its numbers and levels stay.                                            *)
<1>IdsKeepNumbers.
    ASSUME NEW st \in States, NEW msgs \in Seq(Messages), NEW v, v = WithIds(st, msgs)
    PROVE  /\ \A s, levels : Numbers(v, Of(s, levels)) = Numbers(msgs, Of(s, levels))
           /\ \A levels : Range(msgs) \subseteq AtQoS(levels) => Range(v) \subseteq AtQoS(levels)
  <2> USE <1>IdsKeepNumbers
  <2>1. /\ v \in Seq(Messages) /\ Len(v) = Len(msgs) /\ DOMAIN v = DOMAIN msgs
        /\ \A i \in DOMAIN msgs : /\ msgs[i] \in Messages /\ v[i] \in Messages
                                  /\ v[i].n = msgs[i].n /\ v[i].src = msgs[i].src
                                  /\ v[i].qos = msgs[i].qos
    BY <1>IdsOnly
  <2>2. ASSUME NEW s, NEW levels
        PROVE  Numbers(v, Of(s, levels)) = Numbers(msgs, Of(s, levels))
    <3>1. \A i \in DOMAIN v : /\ v[i].n = msgs[i].n
                              /\ v[i] \in Of(s, levels) <=> msgs[i] \in Of(s, levels)
      BY Zenon, <2>1 DEF Of
    <3> QED  BY Zenon, <2>1, <3>1, <1>NumbersAlike
  <2>3. ASSUME NEW levels, Range(msgs) \subseteq AtQoS(levels)
        PROVE  Range(v) \subseteq AtQoS(levels)
    <3>1. \A i \in DOMAIN msgs : msgs[i] \in AtQoS(levels)  BY Zenon, <2>3 DEF Range
    <3>2. \A i \in DOMAIN msgs : v[i] \in AtQoS(levels)  BY Zenon, <2>1, <3>1 DEF AtQoS
    <3> QED  BY Zenon, <2>1, <3>2 DEF Range
  <2> QED  BY Zenon, <2>2, <2>3

(* A sequence has as many elements as it has places, or fewer.             *)
<1>RangeBound. ASSUME NEW M, NEW w \in Seq(M)
               PROVE  IsFiniteSet(Range(w)) /\ Cardinality(Range(w)) =< Len(w)
  <2> USE <1>RangeBound
  <2>1. DOMAIN w = 1 .. Len(w) /\ Len(w) \in Nat  BY LenProperties
  <2>2. IsFiniteSet(1 .. Len(w)) /\ Cardinality(1 .. Len(w)) = Len(w)
    BY <2>1, FS_Interval, SMTT(30)
  <2>3. w \in Surjection(1 .. Len(w), Range(w))
    <3>1. w \in [1 .. Len(w) -> Range(w)]  BY <2>1 DEF Range
    <3>2. \A y \in Range(w) : \E i \in 1 .. Len(w) : w[i] = y  BY Zenon, <2>1 DEF Range
    <3> QED  BY Zenon, <3>1, <3>2 DEF Surjection
  <2>4. IsFiniteSet(Range(w)) /\ Cardinality(Range(w)) =< Cardinality(1 .. Len(w))
    BY <2>2, <2>3, FS_Surjection
  <2> QED  BY Zenon, <2>2, <2>4

(* Some of one set and a few more.                                         *)
<1>CardinalityBound.
    ASSUME NEW A, IsFiniteSet(A), NEW B, IsFiniteSet(B), NEW C, C \subseteq A \cup B
    PROVE  IsFiniteSet(C) /\ Cardinality(C) =< Cardinality(A) + Cardinality(B)
  <2> USE <1>CardinalityBound
  <2>1. /\ IsFiniteSet(A \cup B) /\ Cardinality(A \cup B)
                                      = Cardinality(A) + Cardinality(B) - Cardinality(A \cap B)
    BY FS_Union
  <2>2. IsFiniteSet(C) /\ Cardinality(C) =< Cardinality(A \cup B)  BY <2>1, FS_Subset
  <2>3. IsFiniteSet(A \cap B)  BY FS_Subset
  <2>4. /\ Cardinality(A) \in Nat /\ Cardinality(B) \in Nat /\ Cardinality(A \cap B) \in Nat
        /\ Cardinality(C) \in Nat
    BY <2>2, <2>3, FS_CardinalityType
  <2> QED  BY <2>1, <2>2, <2>4

(* A first part and the rest are the whole.                                *)
<1>Halves. ASSUME NEW w \in Seq(Messages), NEW k \in 0 .. Len(w)
           PROVE  /\ SubSeq(w, 1, k) \in Seq(Messages) /\ Len(SubSeq(w, 1, k)) = k
                  /\ SubSeq(w, k + 1, Len(w)) \in Seq(Messages)
                  /\ Len(SubSeq(w, k + 1, Len(w))) = Len(w) - k
                  /\ SubSeq(w, 1, k) \o SubSeq(w, k + 1, Len(w)) = w
  <2> USE <1>Halves
  <2> DEFINE M == Messages
  <2> HIDE DEF M
  <2>1. w \in Seq(M) /\ Len(w) \in Nat  BY LenProperties DEF M
  <2>2. /\ SubSeq(w, 1, k) \in Seq(M) /\ Len(SubSeq(w, 1, k)) = k
        /\ SubSeq(w, k + 1, Len(w)) \in Seq(M)
        /\ Len(SubSeq(w, k + 1, Len(w))) = Len(w) - k
    BY <2>1
  <2>3. 1 \in 1 .. Len(w) + 1 /\ k \in 1 - 1 .. Len(w) /\ Len(w) \in k .. Len(w)  BY <2>1
  <2>4. SubSeq(w, 1, k) \o SubSeq(w, k + 1, Len(w)) = SubSeq(w, 1, Len(w))
    BY <2>1, <2>3, ConcatAdjacentSubSeq
  <2>5. SubSeq(w, 1, Len(w)) = w  BY <2>1, SubSeqFull
  <2> QED  BY Zenon, <2>2, <2>4, <2>5 DEF M

(* The length of two parts.                                                *)
<1>ConcatLength.
    \A a, b \in Seq(Messages) : /\ a \o b \in Seq(Messages) /\ Len(a \o b) = Len(a) + Len(b)
                                /\ Len(a) \in Nat /\ Len(b) \in Nat
  BY ConcatProperties, LenProperties

(* The identifiers there are.                                              *)
<1>IdSpaceType. IdSpace \in Nat \ {0}
  BY DeliveryAssumption

(* The end of out_qos_active: a batch goes to the queue and what the queue *)
(* does not take comes first in the back log.                              *)
<1>FlushBatchStep.
    ASSUME TypeOK, NEW st \in States, Len(st.miot_rx) =< Batch, IsFiniteSet(st.qos12_unacks),
           NEW all \in Seq(Messages), NEW t, t = FlushBatch(st, all)
    PROVE  /\ t \in States /\ Len(t.miot_rx) =< Batch /\ IsFiniteSet(t.qos12_unacks)
           /\ Cardinality(t.qos12_unacks) =< Cardinality(st.qos12_unacks) + Batch
           /\ Len(t.back_log) =< Len(all)
           /\ t.lost = st.lost /\ t.qos0_back_log = st.qos0_back_log
           /\ t.miot_rx \o t.back_log = st.miot_rx \o all
           /\ Range(t.back_log) \subseteq Range(all)
  <2> USE <1>FlushBatchStep
  <2> DEFINE k == Min({Batch, Len(all)})
             first == SubSeq(all, 1, k)
             rest == SubSeq(all, Len(first) + 1, Len(all))
             left == Left(st.miot_rx, Batch, first)
             sent == Sent(st.miot_rx, Batch, first)
             queue == st.miot_rx
             unacks == Without(Without(st.qos12_unacks, Range(first)) \cup Range(first), Range(left))
  <2>1. Batch \in Nat \ {0} /\ queue \in Seq(Messages) /\ st.qos12_unacks \subseteq Messages
    BY Sizes DEF States
  <2>2. Len(all) \in Nat  BY LenProperties
  <2>3. k \in 0 .. Len(all) /\ k =< Batch
    <3>1. k = IF Batch =< Len(all) THEN Batch ELSE Len(all)  BY Zenon, <2>1, <2>2, MinOfTwo
    <3> HIDE DEF k
    <3> QED  BY <2>1, <2>2, <3>1
  <2>4. t = [st EXCEPT !.miot_rx = queue \o sent, !.back_log = left \o rest,
                       !.qos12_unacks = unacks]
    BY DEF FlushBatch
  <2> HIDE DEF k
  <2>5. first \in Seq(Messages) /\ Len(first) = k  BY <2>3, <1>Halves
  <2>6. /\ rest \in Seq(Messages) /\ Len(rest) = Len(all) - k /\ first \o rest = all
    BY <2>3, <2>5, <1>Halves
  <2> HIDE DEF first, rest
  <2>7. /\ sent \in Seq(Messages) /\ left \in Seq(Messages) /\ sent \o left = first
        /\ queue \o sent \in Seq(Messages) /\ Len(queue \o sent) =< Batch
        /\ Len(left) =< Len(first)
    BY <2>1, <2>5, Passed
  <2>8. Range(sent) \cup Range(left) = Range(first)  BY <2>1, <2>5, PassedRange
  <2> HIDE DEF left, sent, queue
  <2>9. unacks \subseteq st.qos12_unacks \cup Range(first)  BY Zenon DEF Without
  <2> HIDE DEF unacks
  <2>10. Range(first) \subseteq Messages  BY <2>5, RangeOfSeq
  <2>11. left \o rest \in Seq(Messages) /\ Len(left \o rest) =< Len(all)
    BY <2>2, <2>3, <2>5, <2>6, <2>7
  <2>12. unacks \subseteq Messages  BY Zenon, <2>1, <2>9, <2>10
  <2>13. t \in States  BY <2>4, <2>7, <2>11, <2>12 DEF States
  <2>14. /\ t.miot_rx = queue \o sent /\ t.back_log = left \o rest /\ t.qos12_unacks = unacks
         /\ t.lost = st.lost /\ t.qos0_back_log = st.qos0_back_log
    BY <2>4 DEF States
  <2>15. IsFiniteSet(unacks) /\ Cardinality(unacks) =< Cardinality(st.qos12_unacks) + Batch
    <3>1. IsFiniteSet(Range(first)) /\ Cardinality(Range(first)) =< Len(first)
      BY <2>5, <1>RangeBound
    <3>2. /\ IsFiniteSet(unacks)
          /\ Cardinality(unacks) =< Cardinality(st.qos12_unacks) + Cardinality(Range(first))
      BY <2>9, <3>1, <1>CardinalityBound
    <3>3. /\ Cardinality(st.qos12_unacks) \in Nat /\ Cardinality(Range(first)) \in Nat
          /\ Cardinality(unacks) \in Nat
      BY <3>1, <3>2, FS_CardinalityType
    <3> QED  BY <2>1, <2>3, <2>5, <3>1, <3>2, <3>3
  <2>16. (queue \o sent) \o (left \o rest) = queue \o all
    <3>1. queue \in Seq(Messages)  BY <2>1
    <3>2. (queue \o sent) \o (left \o rest) = queue \o ((sent \o left) \o rest)
      <4>1. sent \in Seq(Messages) /\ left \in Seq(Messages) /\ rest \in Seq(Messages)
        BY Zenon, <2>6, <2>7
      <4> DEFINE e == left \o rest
      <4>2. e \in Seq(Messages)  BY <2>11
      <4>3. Assoc(Messages)  BY Zenon, Associative
      <4>4. e = left \o rest /\ (sent \o left) \o rest = sent \o e  BY Zenon, <4>1, <4>3 DEF Assoc
      <4> HIDE DEF e
      <4>5. (queue \o sent) \o e = queue \o (sent \o e)
        BY ZenonT(40), <3>1, <4>1, <4>2, <4>3 DEF Assoc
      <4> QED  BY Zenon, <4>4, <4>5
    <3> QED  BY Zenon, <2>6, <2>7, <3>2
  <2>17. Range(left \o rest) \subseteq Range(all)
    <3>1. first \in Seq(Messages) /\ rest \in Seq(Messages) /\ left \in Seq(Messages)
      BY Zenon, <2>5, <2>6, <2>7
    <3>2. Range(left \o rest) = Range(left) \cup Range(rest)  BY <3>1, RangeConcatenation
    <3>3. Range(first \o rest) = Range(first) \cup Range(rest)  BY <3>1, RangeConcatenation
    <3> QED  BY Zenon, <2>6, <2>8, <3>2, <3>3
  <2> QED  BY Zenon, <2>7, <2>11, <2>13, <2>14, <2>15, <2>16, <2>17 DEF queue

(* out_qos_active keeps to the limits, and either keeps all messages, with *)
(* their identifiers, or drops them all.                                   *)
<1>OutQoSStep.
    ASSUME TypeOK, NEW st \in States, Fit(st), Sorted(st),
           NEW msgs \in Seq(Messages), Len(msgs) =< ChannelSize, Range(msgs) \subseteq AtQoS(QoS12),
           NEW t, t = OutQoS(st, msgs)
    PROVE  /\ t \in States /\ Fit(t) /\ Sorted(t)
           /\ Full(st) => Full(t)
           /\ Dropped(st, t, msgs) \/ Joined12(st, t, WithIds(st, msgs))
  <2> USE <1>OutQoSStep
  <2>0. /\ Batch \in Nat \ {0} /\ ChannelSize \in Nat /\ BackLogLimit \in Nat
        /\ setup.receive_max \in Nat \ {0}
    BY Sizes
  <2>1. /\ st.miot_rx \in Seq(Messages) /\ st.qos0_back_log \in Seq(Messages)
        /\ st.back_log \in Seq(Messages) /\ st.lost \in SUBSET Messages
        /\ st.connected \in BOOLEAN /\ st.live \in BOOLEAN /\ Range(msgs) \subseteq Messages
        /\ st.next_packet_id \in Nat
    BY RangeOfSeq, DeliveryAssumption DEF States
  <2> DEFINE ids == WithIds(st, msgs)
  <2>a. ids \in Seq(Messages) /\ Len(ids) = Len(msgs) /\ DOMAIN ids = DOMAIN msgs  BY <1>IdsOnly
  <2>b. Range(ids) \subseteq AtQoS(QoS12)  BY <1>IdsKeepNumbers
  <2> HIDE DEF ids
  <2>2. CASE msgs = <<>>
    <3>1. t = st  BY <2>2 DEF OutQoS
    <3>2. ids = <<>>  BY <2>2, <2>a, EmptySeq
    <3>3. st.back_log \o ids = st.back_log  BY Zenon, <2>1, <3>2, ConcatEmptySeq
    <3>4. Joined12(st, t, ids)  BY Zenon, <3>1, <3>3 DEF Joined12
    <3> QED  BY Zenon, <3>1, <3>4 DEF ids
  <2>3. CASE msgs # <<>> /\ Len(st.back_log) > BackLogLimit
    <3>1. t = SlowClient(st, msgs)  BY <2>3 DEF OutQoS
    <3>3. t = [st EXCEPT !.lost = st.lost \cup Range(msgs), !.live = st.live /\ ~st.connected,
                         !.connected = FALSE]
      BY <3>1 DEF SlowClient
    <3>4. t \in States  BY <2>1, <3>3 DEF States
    <3>5. /\ t.lost = st.lost \cup Range(msgs) /\ t.miot_rx = st.miot_rx
          /\ t.qos0_back_log = st.qos0_back_log /\ t.back_log = st.back_log
          /\ t.qos12_unacks = st.qos12_unacks
      BY <3>3 DEF States
    <3>6. Fit(t) /\ Sorted(t)  BY Zenon, <3>5 DEF Fit, Sorted
    <3>7. Full(t)  BY Zenon, <2>3, <3>5 DEF Full
    <3> QED  BY Zenon, <3>4, <3>5, <3>6, <3>7 DEF Dropped
  <2>4. CASE /\ msgs # <<>> /\ ~ (Len(st.back_log) > BackLogLimit)
             /\ Cardinality(st.qos12_unacks) >= setup.receive_max
    <3>3. t = [st EXCEPT !.lost = st.lost \cup Range(msgs)]  BY <2>4 DEF OutQoS
    <3>4. t \in States  BY <2>1, <3>3 DEF States
    <3>5. /\ t.lost = st.lost \cup Range(msgs) /\ t.miot_rx = st.miot_rx
          /\ t.qos0_back_log = st.qos0_back_log /\ t.back_log = st.back_log
          /\ t.qos12_unacks = st.qos12_unacks
      BY <3>3 DEF States
    <3>6. Fit(t) /\ Sorted(t)  BY Zenon, <3>5 DEF Fit, Sorted
    <3>7. Full(t)  BY Zenon, <2>4, <3>5 DEF Full
    <3> QED  BY Zenon, <3>4, <3>5, <3>6, <3>7 DEF Dropped
  <2>5. CASE /\ msgs # <<>> /\ ~ (Len(st.back_log) > BackLogLimit)
             /\ ~ (Cardinality(st.qos12_unacks) >= setup.receive_max)
    <3> DEFINE u == [st EXCEPT !.next_packet_id = (st.next_packet_id + Len(msgs)) % IdSpace]
               all == st.back_log \o ids
    <3>1. t = FlushBatch(u, all)  BY <2>5 DEF OutQoS, ids
    <3>2. /\ all \in Seq(Messages) /\ Len(all) = Len(st.back_log) + Len(msgs)
          /\ Len(st.back_log) \in Nat /\ Len(msgs) \in Nat
      BY ZenonT(40), <2>1, <2>a, <1>ConcatLength
    <3>3. Range(all) = Range(st.back_log) \cup Range(ids)  BY <2>1, <2>a, RangeConcatenation
    <3>4. u \in States
      <4>1. (st.next_packet_id + Len(msgs)) % IdSpace \in 0 .. IdSpace - 1
        <5> DEFINE n == st.next_packet_id + Len(msgs)
        <5>1. n \in Nat  BY <2>1, <3>2
        <5> HIDE DEF n
        <5>2. n % IdSpace \in 0 .. IdSpace - 1  BY <5>1, <1>IdSpaceType
        <5> QED  BY <5>2 DEF n
      <4> QED  BY <4>1 DEF States
    <3>5. /\ u.lost = st.lost /\ u.miot_rx = st.miot_rx
          /\ u.qos0_back_log = st.qos0_back_log /\ u.back_log = st.back_log
          /\ u.qos12_unacks = st.qos12_unacks
      BY DEF States
    <3> HIDE DEF u, all
    <3>6. Len(u.miot_rx) =< Batch /\ IsFiniteSet(u.qos12_unacks)  BY Zenon, <3>5 DEF Fit
    <3>7. /\ t \in States /\ Len(t.miot_rx) =< Batch /\ IsFiniteSet(t.qos12_unacks)
          /\ Cardinality(t.qos12_unacks) =< Cardinality(u.qos12_unacks) + Batch
          /\ Len(t.back_log) =< Len(all)
          /\ t.lost = u.lost /\ t.qos0_back_log = u.qos0_back_log
          /\ t.miot_rx \o t.back_log = u.miot_rx \o all
          /\ Range(t.back_log) \subseteq Range(all)
      BY <3>1, <3>2, <3>4, <3>6, <1>FlushBatchStep
    <3>8. Fit(t)
      <4>1. Cardinality(st.qos12_unacks) \in Nat /\ Cardinality(t.qos12_unacks) \in Nat
        BY <3>5, <3>6, <3>7, FS_CardinalityType
      <4>2. Cardinality(t.qos12_unacks) =< setup.receive_max + Batch - 1
        BY <2>0, <2>5, <3>5, <3>7, <4>1
      <4>3. t.back_log \in Seq(Messages)  BY <3>7 DEF States
      <4>4. Len(t.back_log) =< BackLogLimit + ChannelSize
        <5>1. Len(t.back_log) \in Nat  BY <4>3, LenProperties
        <5> QED  BY <2>0, <2>5, <3>2, <3>7, <5>1
      <4>5. Len(t.qos0_back_log) =< BackLogLimit + ChannelSize  BY Zenon, <3>5, <3>7 DEF Fit
      <4> QED  BY Zenon, <3>7, <4>2, <4>4, <4>5 DEF Fit
    <3>9. Sorted(t)  BY Zenon, <2>b, <3>3, <3>5, <3>7 DEF Sorted
    <3>10. Full(st) => Full(t)  BY Zenon, <2>5, <3>5, <3>7 DEF Full
    <3>11. Joined12(st, t, ids)  BY Zenon, <3>5, <3>7 DEF Joined12, all
    <3> QED  BY Zenon, <3>7, <3>8, <3>9, <3>10, <3>11 DEF ids
  <2> QED  BY Zenon, <2>2, <2>3, <2>4, <2>5

(* It is what it has at that level and what it had.                        *)
<1>Level0. \A s : \A r, m \in Seq(Messages) : HasLevel0(s, r, m)
  <2> SUFFICES ASSUME NEW s, NEW r \in Seq(Messages), NEW m \in Seq(Messages),
                      NEW q \in Seq(Messages), NEW b \in Seq(Messages), Range(b) \subseteq AtQoS(QoS12)
               PROVE  Numbers(((r \o m) \o q) \o b, Of(s, QoS0))
                        = Numbers(r, Of(s, QoS0)) \o Numbers(m \o q, Of(s, QoS0))
    BY Zenon DEF HasLevel0
  <2> DEFINE S == Of(s, QoS0)
             e == (r \o m) \o q
  <2>1. AtQoS(QoS12) \cap S = {}  BY Zenon, Apart
  <2>2. r \o m \in Seq(Messages)  BY Zenon, MessagesConcat
  <2>3. e \in Seq(Messages)  BY Zenon, <2>2, MessagesConcat
  <2>4. Numbers(e, S) = Numbers(r, S) \o Numbers(m \o q, S)
    <3>1. Three(S)  BY Zenon, ThreeQueues
    <3> HIDE DEF S
    <3> QED  BY ZenonT(40), <3>1 DEF Three
  <2> HIDE DEF S, e
  <2>5. Numbers(e \o b, S) = Numbers(e, S)  BY Zenon, <2>1, <2>3, OtherLevel
  <2> QED  BY Zenon, <2>4, <2>5 DEF S, e

(* It is what it has at that level and what it had.                        *)
<1>Level12. \A s : \A r, m \in Seq(Messages) : HasLevel12(s, r, m)
  <2> SUFFICES ASSUME NEW s, NEW r \in Seq(Messages), NEW m \in Seq(Messages),
                      NEW q \in Seq(Messages), NEW b \in Seq(Messages), Range(q) \subseteq AtQoS(QoS0)
               PROVE  Numbers(((r \o m) \o q) \o b, Of(s, QoS12))
                        = Numbers(r, Of(s, QoS12)) \o Numbers(m \o b, Of(s, QoS12))
    BY Zenon DEF HasLevel12
  <2> DEFINE S == Of(s, QoS12)
             e == r \o m
             f == e \o q
  <2>1. AtQoS(QoS0) \cap S = {}  BY Zenon, Apart
  <2>2. e \in Seq(Messages)  BY Zenon, MessagesConcat
  <2>3. f \in Seq(Messages)  BY Zenon, <2>2, MessagesConcat
  <2>4. Numbers(e \o b, S) = Numbers(r, S) \o Numbers(m \o b, S)
    <3>1. Three(S)  BY Zenon, ThreeQueues
    <3> HIDE DEF S
    <3> QED  BY ZenonT(40), <3>1 DEF Three
  <2> HIDE DEF e
  <2>5. f = e \o q /\ Numbers(e \o q, S) = Numbers(e, S)
    <3> HIDE DEF S
    <3> QED  BY Zenon, <2>1, <2>2, OtherLevel
  <2> HIDE DEF S, f
  <2>6. /\ Numbers(f \o b, S) = Numbers(f, S) \o Numbers(b, S)
        /\ Numbers(e \o b, S) = Numbers(e, S) \o Numbers(b, S)
    BY Zenon, <2>2, <2>3, NumbersConcat
  <2>7. Numbers(f \o b, S) = Numbers(e \o b, S)  BY Zenon, <2>5, <2>6
  <2> QED  BY Zenon, <2>4, <2>7 DEF S, e, f

(* AheadOf, without the back log of the other level.                       *)
<1>AheadIs.
    ASSUME TypeOK, NEW st \in States, Sorted(st), NEW s \in Sources
    PROVE  /\ AheadOf(s, QoS0, st) = Numbers(received[s], Of(s, QoS0))
                                       \o Numbers(st.miot_rx \o st.qos0_back_log, Of(s, QoS0))
           /\ AheadOf(s, QoS12, st) = Numbers(received[s], Of(s, QoS12))
                                        \o Numbers(st.miot_rx \o st.back_log, Of(s, QoS12))
  <2> USE <1>AheadIs
  <2> DEFINE r == received[s]
             m == st.miot_rx
             q == st.qos0_back_log
             b == st.back_log
  <2>1. r \in Seq(Messages) /\ m \in Seq(Messages) /\ q \in Seq(Messages) /\ b \in Seq(Messages)
    BY DEF TypeOK, States
  <2>2. Range(q) \subseteq AtQoS(QoS0) /\ Range(b) \subseteq AtQoS(QoS12)  BY DEF Sorted
  <2>3. \A levels : AheadOf(s, levels, st) = Numbers(((r \o m) \o q) \o b, Of(s, levels))
    BY Zenon DEF AheadOf
  <2> HIDE DEF r, m, q, b
  <2>4. HasLevel0(s, r, m) /\ HasLevel12(s, r, m)  BY Zenon, <2>1, <1>Level0, <1>Level12
  <2>5. Numbers(((r \o m) \o q) \o b, Of(s, QoS0))
          = Numbers(r, Of(s, QoS0)) \o Numbers(m \o q, Of(s, QoS0))
    BY Zenon, <2>1, <2>2, <2>4 DEF HasLevel0
  <2>6. Numbers(((r \o m) \o q) \o b, Of(s, QoS12))
          = Numbers(r, Of(s, QoS12)) \o Numbers(m \o b, Of(s, QoS12))
    BY Zenon, <2>1, <2>2, <2>4 DEF HasLevel12
  <2> QED  BY Zenon, <2>3, <2>5, <2>6 DEF r, m, q, b

(* Silent, of two levels.                                                  *)
<1>OtherQueue. \A S, T : T \cap S = {} => Silent(S, T)
  <2> SUFFICES ASSUME NEW S, NEW T, T \cap S = {}  PROVE  Silent(S, T)  OBVIOUS
  <2> SUFFICES ASSUME NEW m \in Seq(Messages), NEW q \in Seq(Messages), NEW x \in Seq(Messages),
                      Range(q) \subseteq T, Range(x) \subseteq T
               PROVE  Numbers(m \o (q \o x), S) = Numbers(m, S)
    BY DEF Silent
  <2> DEFINE e == q \o x
  <2>1. e \in Seq(Messages)  BY Zenon, MessagesConcat
  <2>2. Range(e) = Range(q) \cup Range(x)  BY RangeConcatenation
  <2> HIDE DEF e
  <2>3. Range(e) \subseteq T  BY Zenon, <2>2
  <2>4. Numbers(m \o e, S) = Numbers(m, S)  BY Zenon, <2>1, <2>3, OtherLevel
  <2> QED  BY Zenon, <2>4 DEF e

(* Grows, of any queue.                                                    *)
<1>SameQueue. \A S : \A r, m \in Seq(Messages) : Grows(S, r, m)
  <2> SUFFICES ASSUME NEW S, NEW r \in Seq(Messages), NEW m \in Seq(Messages),
                      NEW q \in Seq(Messages), NEW x \in Seq(Messages)
               PROVE  Numbers(r, S) \o Numbers(m \o (q \o x), S)
                        = (Numbers(r, S) \o Numbers(m \o q, S)) \o Numbers(x, S)
    BY Zenon DEF Grows
  <2> DEFINE e == m \o q
             i == Numbers(r, S)
             j == Numbers(e, S)
             k == Numbers(x, S)
  <2>1. Assoc(Messages) /\ Assoc(Nat)  BY Zenon, Associative
  <2>2. m \o (q \o x) = e \o x  BY Zenon, <2>1 DEF Assoc
  <2>3. e \in Seq(Messages)  BY Zenon, MessagesConcat
  <2> HIDE DEF e
  <2>4. i \in Seq(Nat) /\ j \in Seq(Nat) /\ k \in Seq(Nat)  BY Zenon, <2>3, NumbersTyped
  <2>5. Numbers(e \o x, S) = j \o k  BY Zenon, <2>3, NumbersConcat
  <2> HIDE DEF i, j, k
  <2>6. i \o (j \o k) = (i \o j) \o k  BY Zenon, <2>1, <2>4 DEF Assoc
  <2> QED  BY Zenon, <2>2, <2>5, <2>6 DEF e, i, j, k

(* What joined those of QoS-0 is behind them, and the others are as they   *)
(* were.                                                                   *)
<1>Joined0Way.
    ASSUME TypeOK, NEW st \in States, Sorted(st), NEW t \in States, Sorted(t),
           NEW x \in Seq(Messages), Range(x) \subseteq AtQoS(QoS0), Joined0(st, t, x),
           NEW s \in Sources
    PROVE  /\ AheadOf(s, QoS0, t) = AheadOf(s, QoS0, st) \o Numbers(x, Of(s, QoS0))
           /\ AheadOf(s, QoS12, t) = AheadOf(s, QoS12, st)
  <2> USE <1>Joined0Way
  <2> DEFINE r == received[s]
             m == st.miot_rx
             q == st.qos0_back_log
             b == st.back_log
             m1 == t.miot_rx
             q1 == t.qos0_back_log
             S0 == Of(s, QoS0)
             S12 == Of(s, QoS12)
  <2>1. /\ r \in Seq(Messages) /\ m \in Seq(Messages) /\ q \in Seq(Messages)
        /\ b \in Seq(Messages) /\ m1 \in Seq(Messages) /\ q1 \in Seq(Messages)
    BY DEF TypeOK, States
  <2>2. Range(q) \subseteq AtQoS(QoS0) /\ Range(q1) \subseteq AtQoS(QoS0)  BY DEF Sorted
  <2>3. t.back_log = b /\ m1 \o q1 = m \o (q \o x)  BY DEF Joined0
  <2>4. /\ AheadOf(s, QoS0, t) = Numbers(r, S0) \o Numbers(m1 \o q1, S0)
        /\ AheadOf(s, QoS12, t) = Numbers(r, S12) \o Numbers(m1 \o b, S12)
    BY <2>3, <1>AheadIs
  <2>5. /\ AheadOf(s, QoS0, st) = Numbers(r, S0) \o Numbers(m \o q, S0)
        /\ AheadOf(s, QoS12, st) = Numbers(r, S12) \o Numbers(m \o b, S12)
    BY <1>AheadIs
  <2>6. AtQoS(QoS0) \cap S12 = {}  BY Zenon, Apart
  <2> HIDE DEF r, m, q, b, m1, q1, S0, S12
  <2>7. Numbers(r, S0) \o Numbers(m1 \o q1, S0)
          = (Numbers(r, S0) \o Numbers(m \o q, S0)) \o Numbers(x, S0)
    <3>1. Grows(S0, r, m)  BY Zenon, <2>1, <1>SameQueue
    <3>2. Numbers(r, S0) \o Numbers(m \o (q \o x), S0)
            = (Numbers(r, S0) \o Numbers(m \o q, S0)) \o Numbers(x, S0)
      BY Zenon, <2>1, <3>1 DEF Grows
    <3> QED  BY Zenon, <2>3, <3>2
  <2>8. Numbers(m1, S12) = Numbers(m, S12)
    <3>1. Silent(S12, AtQoS(QoS0))  BY Zenon, <2>6, <1>OtherQueue
    <3>2. Numbers(m \o (q \o x), S12) = Numbers(m, S12)  BY Zenon, <2>1, <2>2, <3>1 DEF Silent
    <3>3. Numbers(m1 \o q1, S12) = Numbers(m1, S12)  BY Zenon, <2>1, <2>2, <2>6, OtherLevel
    <3> QED  BY Zenon, <2>3, <3>2, <3>3
  <2>9. Numbers(m1 \o b, S12) = Numbers(m \o b, S12)
    <3>1. Numbers(m1 \o b, S12) = Numbers(m1, S12) \o Numbers(b, S12)  BY Zenon, <2>1, NumbersConcat
    <3>2. Numbers(m \o b, S12) = Numbers(m, S12) \o Numbers(b, S12)  BY Zenon, <2>1, NumbersConcat
    <3> QED  BY Zenon, <2>8, <3>1, <3>2
  <2> QED  BY Zenon, <2>4, <2>5, <2>7, <2>9 DEF S0

(* What joined those of the other levels is behind them.                   *)
<1>Joined12Way.
    ASSUME TypeOK, NEW st \in States, Sorted(st), NEW t \in States, Sorted(t),
           NEW x \in Seq(Messages), Range(x) \subseteq AtQoS(QoS12), Joined12(st, t, x),
           NEW s \in Sources
    PROVE  /\ AheadOf(s, QoS12, t) = AheadOf(s, QoS12, st) \o Numbers(x, Of(s, QoS12))
           /\ AheadOf(s, QoS0, t) = AheadOf(s, QoS0, st)
  <2> USE <1>Joined12Way
  <2> DEFINE r == received[s]
             m == st.miot_rx
             q == st.qos0_back_log
             b == st.back_log
             m1 == t.miot_rx
             b1 == t.back_log
             S0 == Of(s, QoS0)
             S12 == Of(s, QoS12)
  <2>1. /\ r \in Seq(Messages) /\ m \in Seq(Messages) /\ q \in Seq(Messages)
        /\ b \in Seq(Messages) /\ m1 \in Seq(Messages) /\ b1 \in Seq(Messages)
    BY DEF TypeOK, States
  <2>2. Range(b) \subseteq AtQoS(QoS12) /\ Range(b1) \subseteq AtQoS(QoS12)  BY DEF Sorted
  <2>3. t.qos0_back_log = q /\ m1 \o b1 = m \o (b \o x)  BY DEF Joined12
  <2>4. /\ AheadOf(s, QoS0, t) = Numbers(r, S0) \o Numbers(m1 \o q, S0)
        /\ AheadOf(s, QoS12, t) = Numbers(r, S12) \o Numbers(m1 \o b1, S12)
    BY <2>3, <1>AheadIs
  <2>5. /\ AheadOf(s, QoS0, st) = Numbers(r, S0) \o Numbers(m \o q, S0)
        /\ AheadOf(s, QoS12, st) = Numbers(r, S12) \o Numbers(m \o b, S12)
    BY <1>AheadIs
  <2>6. AtQoS(QoS12) \cap S0 = {}  BY Zenon, Apart
  <2> HIDE DEF r, m, q, b, m1, b1, S0, S12
  <2>7. Numbers(r, S12) \o Numbers(m1 \o b1, S12)
          = (Numbers(r, S12) \o Numbers(m \o b, S12)) \o Numbers(x, S12)
    <3>1. Grows(S12, r, m)  BY Zenon, <2>1, <1>SameQueue
    <3>2. Numbers(r, S12) \o Numbers(m \o (b \o x), S12)
            = (Numbers(r, S12) \o Numbers(m \o b, S12)) \o Numbers(x, S12)
      BY Zenon, <2>1, <3>1 DEF Grows
    <3> QED  BY Zenon, <2>3, <3>2
  <2>8. Numbers(m1, S0) = Numbers(m, S0)
    <3>1. Silent(S0, AtQoS(QoS12))  BY Zenon, <2>6, <1>OtherQueue
    <3>2. Numbers(m \o (b \o x), S0) = Numbers(m, S0)  BY Zenon, <2>1, <2>2, <3>1 DEF Silent
    <3>3. Numbers(m1 \o b1, S0) = Numbers(m1, S0)  BY Zenon, <2>1, <2>2, <2>6, OtherLevel
    <3> QED  BY Zenon, <2>3, <3>2, <3>3
  <2>9. Numbers(m1 \o q, S0) = Numbers(m \o q, S0)
    <3>1. Numbers(m1 \o q, S0) = Numbers(m1, S0) \o Numbers(q, S0)  BY Zenon, <2>1, NumbersConcat
    <3>2. Numbers(m \o q, S0) = Numbers(m, S0) \o Numbers(q, S0)  BY Zenon, <2>1, NumbersConcat
    <3> QED  BY Zenon, <2>8, <3>1, <3>2
  <2> QED  BY Zenon, <2>4, <2>5, <2>7, <2>9 DEF S12

(* out_qos0, for each source.                                              *)
<1>OutQoS0Way.
    ASSUME TypeOK, NEW st \in States, Fit(st), Sorted(st),
           NEW msgs \in Seq(Messages), Len(msgs) =< ChannelSize, Range(msgs) \subseteq AtQoS(QoS0),
           NEW t, t = OutQoS0(st, msgs)
    PROVE  \E gone : /\ Booked(st, t, gone)
                     /\ \A s \in Sources : /\ Handed(s, QoS0, st, t, msgs, gone)
                                           /\ AheadOf(s, QoS12, t) = AheadOf(s, QoS12, st)
  <2> USE <1>OutQoS0Way
  <2>1. t \in States /\ Sorted(t) /\ (Dropped(st, t, msgs) \/ Joined0(st, t, msgs))
    BY <1>OutQoS0Step
  <2>2. CASE Dropped(st, t, msgs)
    <3>1. Booked(st, t, Range(msgs))  BY Zenon, <2>2 DEF Dropped, Booked
    <3>2. \A s, levels : AheadOf(s, levels, t) = AheadOf(s, levels, st)
      BY Zenon, <2>2 DEF Dropped, AheadOf
    <3> QED  BY Zenon, <3>1, <3>2 DEF Handed
  <2>3. CASE Joined0(st, t, msgs)
    <3>1. Booked(st, t, {})  BY Zenon, <2>3 DEF Joined0, Booked
    <3>2. ASSUME NEW s \in Sources
          PROVE  /\ Handed(s, QoS0, st, t, msgs, {})
                 /\ AheadOf(s, QoS12, t) = AheadOf(s, QoS12, st)
      <4>1. /\ AheadOf(s, QoS0, t) = AheadOf(s, QoS0, st) \o Numbers(msgs, Of(s, QoS0))
            /\ AheadOf(s, QoS12, t) = AheadOf(s, QoS12, st)
        BY <2>1, <2>3, <1>Joined0Way
      <4> QED  BY Zenon, <4>1 DEF Handed
    <3> QED  BY Zenon, <3>1, <3>2
  <2> QED  BY Zenon, <2>1, <2>2, <2>3

(* out_qos_active, for each source.                                        *)
<1>OutQoSWay.
    ASSUME TypeOK, NEW st \in States, Fit(st), Sorted(st),
           NEW msgs \in Seq(Messages), Len(msgs) =< ChannelSize, Range(msgs) \subseteq AtQoS(QoS12),
           NEW t, t = OutQoS(st, msgs)
    PROVE  \E gone : /\ Booked(st, t, gone)
                     /\ \A s \in Sources : /\ Handed(s, QoS12, st, t, msgs, gone)
                                           /\ AheadOf(s, QoS0, t) = AheadOf(s, QoS0, st)
  <2> USE <1>OutQoSWay
  <2> DEFINE ids == WithIds(st, msgs)
  <2>0. /\ ids \in Seq(Messages) /\ Range(ids) \subseteq AtQoS(QoS12)
        /\ \A s, levels : Numbers(ids, Of(s, levels)) = Numbers(msgs, Of(s, levels))
    BY <1>IdsOnly, <1>IdsKeepNumbers
  <2>1. t \in States /\ Sorted(t) /\ (Dropped(st, t, msgs) \/ Joined12(st, t, ids))
    BY <1>OutQoSStep
  <2> HIDE DEF ids
  <2>2. CASE Dropped(st, t, msgs)
    <3>1. Booked(st, t, Range(msgs))  BY Zenon, <2>2 DEF Dropped, Booked
    <3>2. \A s, levels : AheadOf(s, levels, t) = AheadOf(s, levels, st)
      BY Zenon, <2>2 DEF Dropped, AheadOf
    <3> QED  BY Zenon, <3>1, <3>2 DEF Handed
  <2>3. CASE Joined12(st, t, ids)
    <3>1. Booked(st, t, {})  BY Zenon, <2>3 DEF Joined12, Booked
    <3>2. ASSUME NEW s \in Sources
          PROVE  /\ Handed(s, QoS12, st, t, msgs, {})
                 /\ AheadOf(s, QoS0, t) = AheadOf(s, QoS0, st)
      <4>1. /\ AheadOf(s, QoS12, t) = AheadOf(s, QoS12, st) \o Numbers(ids, Of(s, QoS12))
            /\ AheadOf(s, QoS0, t) = AheadOf(s, QoS0, st)
        BY <2>0, <2>1, <2>3, <1>Joined12Way
      <4> QED  BY Zenon, <2>0, <4>1 DEF Handed
    <3> QED  BY Zenon, <3>1, <3>2
  <2> QED  BY Zenon, <2>1, <2>2, <2>3

(* The messages that a turn hands to the session.                          *)
<1>Channel.
    ASSUME TypeOK, SessionIsBounded, NEW levels, NEW msgs, msgs = Select(msg_rx, AtQoS(levels))
    PROVE  /\ msgs \in Seq(Messages) /\ Len(msgs) =< ChannelSize
           /\ Range(msgs) \subseteq AtQoS(levels)
  <2> USE <1>Channel
  <2>1. msg_rx \in Seq(Messages) /\ Len(msg_rx) =< ChannelSize  BY DEF TypeOK, SessionIsBounded
  <2>2. /\ msgs \in Seq(Messages) /\ Len(msgs) =< Len(msg_rx)
        /\ Range(msgs) = Range(msg_rx) \cap AtQoS(levels)
    BY <2>1, Selected
  <2>3. Len(msgs) =< ChannelSize
    <3>1. ChannelSize \in Nat  BY Sizes
    <3>2. Len(msgs) \in Nat /\ Len(msg_rx) \in Nat  BY Zenon, <2>1, <2>2, LenProperties
    <3> QED  BY <2>1, <2>2, <3>1, <3>2
  <2> QED  BY Zenon, <2>2, <2>3

<1> DEFINE q0 == Select(msg_rx, AtQoS(QoS0))
           q12 == Select(msg_rx, AtQoS(QoS12))
<1>0. /\ Session \in States /\ Fit(Session) /\ Sorted(Session)
      /\ Session.lost = lost
      /\ SetSession(Session) <=> UNCHANGED <<session, miot_rx, connected, live>>
  BY SessionIs
<1>1. q0 \in Seq(Messages) /\ Len(q0) =< ChannelSize /\ Range(q0) \subseteq AtQoS(QoS0)
  BY <1>Channel
<1>2. q12 \in Seq(Messages) /\ Len(q12) =< ChannelSize /\ Range(q12) \subseteq AtQoS(QoS12)
  BY <1>Channel
<1> DEFINE st == OutQoS0(Session, q0)
           t == OutQoS(st, q12)
<1>3. \/ ~live /\ panicked' /\ UNCHANGED <<session, miot_rx, connected, live>> /\ acked' = acked
      \/ SetSession(t) /\ ReturnLocalAcks
      \/ SetSession(st) /\ panicked' /\ acked' = acked
  BY Zenon DEF Turn, OutMessages, CommitMessages
<1> HIDE DEF q0, q12, t
<1>4. st \in States /\ Fit(st) /\ Sorted(st) /\ (Full(Session) => Full(st))
  BY <1>0, <1>1, <1>OutQoS0Step
<1>5. PICK G0 : /\ Booked(Session, st, G0)
                /\ \A s \in Sources : /\ Handed(s, QoS0, Session, st, q0, G0)
                                      /\ AheadOf(s, QoS12, st) = AheadOf(s, QoS12, Session)
  BY <1>0, <1>1, <1>OutQoS0Way
<1>d. t = OutQoS(st, q12)  BY DEF t
<1> HIDE DEF st
<1>6. CASE ~live /\ panicked' /\ UNCHANGED <<session, miot_rx, connected, live>> /\ acked' = acked
  <2>1. SetSession(Session)  BY Zenon, <1>0, <1>6
  <2>2. \A s \in Sources : /\ Handed(s, QoS0, Session, Session, q0, Range(q0))
                           /\ Handed(s, QoS12, Session, Session, q12, Range(q12))
    BY Zenon DEF Handed
  <2>3. Served(Session)  BY Zenon, <1>0, <1>6, <2>1, <2>2 DEF Served, q0, q12
  <2> QED  BY Zenon, <1>6, <2>3
<1>7. CASE SetSession(st) /\ panicked' /\ acked' = acked
  <2>1. \A s \in Sources : Handed(s, QoS12, Session, st, q12, Range(q12))
    BY Zenon, <1>5 DEF Handed
  <2>2. Served(st)  BY Zenon, <1>4, <1>5, <1>7, <2>1 DEF Served, q0, q12
  <2> QED  BY Zenon, <1>7, <2>2
<1>8. CASE SetSession(t) /\ ReturnLocalAcks
  <2>1. t \in States /\ Fit(t) /\ Sorted(t) /\ (Full(st) => Full(t))
    BY <1>2, <1>4, <1>d, <1>OutQoSStep
  <2>2. PICK G12 : /\ Booked(st, t, G12)
                   /\ \A s \in Sources : /\ Handed(s, QoS12, st, t, q12, G12)
                                         /\ AheadOf(s, QoS0, t) = AheadOf(s, QoS0, st)
    BY <1>2, <1>4, <1>d, <1>OutQoSWay
  <2>3. \A s \in Sources : Handed(s, QoS0, Session, t, q0, G0)  BY Zenon, <1>5, <2>2 DEF Handed
  <2>4. \A s \in Sources : Handed(s, QoS12, Session, t, q12, G12)  BY Zenon, <1>5, <2>2 DEF Handed
  <2>5. t.lost = lost \cup (G0 \cup G12)  BY Zenon, <1>0, <1>5, <2>2 DEF Booked
  <2>6. G0 \cup G12 # {} => Full(t)
    <3>1. G0 = {} /\ G12 = {} => G0 \cup G12 = {}  BY Zenon
    <3> QED  BY Zenon, <1>5, <2>1, <2>2, <3>1 DEF Booked
  <2>7. Served(t)  BY Zenon, <1>4, <1>8, <2>1, <2>3, <2>4, <2>5, <2>6 DEF Served, q0, q12
  <2> QED  BY Zenon, <1>8, <2>7
<1> QED  BY Zenon, <1>3, <1>6, <1>7, <1>8

(***************************************************************************)
(* The way of a source's messages, of which a drop cuts a part.            *)
(***************************************************************************)
(* v is w without some of its numbers, which were next to each other.      *)
Cut(w, v, gone) ==
  \E a, x, y \in Seq(Nat) : w = (a \o x) \o y /\ v = a \o y /\ gone = Range(x)

(* What is left of rising numbers rises, and has none of those that are    *)
(* gone.                                                                   *)
LEMMA CutRises ==
  ASSUME NEW w, NEW v, NEW gone, Cut(w, v, gone), Rising(w)
  PROVE  /\ w \in Seq(Nat) /\ v \in Seq(Nat) /\ Rising(v)
         /\ Range(v) \cap gone = {} /\ Range(w) = Range(v) \cup gone
<1>1. PICK a \in Seq(Nat), x \in Seq(Nat), y \in Seq(Nat) :
        w = (a \o x) \o y /\ v = a \o y /\ gone = Range(x)
  BY DEF Cut
<1> DEFINE e == a \o x
<1>2. e \in Seq(Nat) /\ v \in Seq(Nat)  BY <1>1, ConcatProperties
<1>3. Range(e) = Range(a) \cup Range(x) /\ Range(v) = Range(a) \cup Range(y)
  BY <1>1, RangeConcatenation
<1>4. Range(a) \subseteq Nat /\ Range(x) \subseteq Nat /\ Range(y) \subseteq Nat  BY RangeOfSeq
<1>5. Rising(e) => /\ Rising(a) /\ Rising(x)
                   /\ \A i \in Range(a), j \in Range(x) : i < j
  BY RisingParts
<1>6. /\ Rising(a) /\ Rising(y) /\ \A i \in Range(a), j \in Range(y) : i < j
      => Rising(v)
  BY <1>1, RisingParts
<1>w. w = e \o y  BY <1>1
<1> HIDE DEF e
<1>7. w \in Seq(Nat) /\ Range(w) = Range(e) \cup Range(y)
  BY <1>2, <1>w, ConcatProperties, RangeConcatenation
<1>8. Rising(e) /\ Rising(y) /\ \A i \in Range(e), j \in Range(y) : i < j
  BY <1>2, <1>w, RisingParts
<1>9. Rising(v)  BY Zenon, <1>3, <1>5, <1>6, <1>8
<1>10. Range(v) \cap Range(x) = {}
  <2> SUFFICES ASSUME NEW i \in Range(x), i \in Range(v) PROVE FALSE  BY Zenon
  <2>1. i \in Nat /\ (i \in Range(a) \/ i \in Range(y))  BY Zenon, <1>3, <1>4
  <2>2. i < i  BY Zenon, <1>3, <1>5, <1>8, <2>1
  <2> QED  BY <2>1, <2>2
<1>11. Range(w) = Range(v) \cup Range(x)  BY Zenon, <1>3, <1>7
<1> QED  BY Zenon, <1>1, <1>2, <1>7, <1>9, <1>10, <1>11

(* Numbers of what is ahead, of a channel and of what is behind it.        *)
Joint(S) ==
  \A h, m, b \in Seq(Messages) :
    Numbers((h \o m) \o b, S) = (Numbers(h, S) \o Numbers(m, S)) \o Numbers(b, S)

(* Joint, of any messages.                                                 *)
LEMMA JointNumbers == \A S : Joint(S)
<1> SUFFICES ASSUME NEW S, NEW h \in Seq(Messages), NEW m \in Seq(Messages),
                    NEW b \in Seq(Messages)
             PROVE  Numbers((h \o m) \o b, S) = (Numbers(h, S) \o Numbers(m, S)) \o Numbers(b, S)
  BY Zenon DEF Joint
<1> DEFINE e == h \o m
<1>1. e \in Seq(Messages)  BY Zenon, MessagesConcat
<1>2. Numbers(e, S) = Numbers(h, S) \o Numbers(m, S)  BY Zenon, NumbersConcat
<1> HIDE DEF e
<1>3. Numbers(e \o b, S) = Numbers(e, S) \o Numbers(b, S)  BY Zenon, <1>1, NumbersConcat
<1> QED  BY Zenon, <1>2, <1>3 DEF e

(* Nothing is cut.                                                         *)
LEMMA Uncut == \A w \in Seq(Nat) : Cut(w, w, {})
<1> SUFFICES ASSUME NEW w \in Seq(Nat) PROVE Cut(w, w, {})  OBVIOUS
<1>1. <<>> \in Seq(Nat) /\ w \o <<>> = w  BY ConcatEmptySeq, EmptySeq
<1>2. w = (w \o <<>>) \o <<>> /\ w = w \o <<>>  BY Zenon, <1>1
<1> QED  BY Zenon, <1>1, <1>2, RangeEmpty DEF Cut

(* The middle is cut, or nothing.                                          *)
LEMMA CutMiddle ==
  ASSUME NEW a \in Seq(Nat), NEW x \in Seq(Nat), NEW y \in Seq(Nat)
  PROVE  /\ Cut((a \o x) \o y, a \o y, Range(x))
         /\ Cut((a \o x) \o y, (a \o x) \o y, {})
<1>1. Cut((a \o x) \o y, a \o y, Range(x))  BY Zenon DEF Cut
<1>2. (a \o x) \o y \in Seq(Nat)  BY ConcatProperties
<1> QED  BY Zenon, <1>1, <1>2, Uncut

(* What the session has, has been given and has yet to be given.           *)
LEMMA WayIs ==
  ASSUME TypeOK, NEW s \in Sources, NEW levels
  PROVE  /\ AheadOf(s, levels, Session) \in Seq(Nat)
         /\ Numbers(msg_rx, Of(s, levels)) \in Seq(Nat)
         /\ Numbers(shard_back_log[s], Of(s, levels)) \in Seq(Nat)
         /\ Way(s, levels) = (AheadOf(s, levels, Session) \o Numbers(msg_rx, Of(s, levels)))
                               \o Numbers(shard_back_log[s], Of(s, levels))
<1> DEFINE S == Of(s, levels)
           r == received[s]
           b == shard_back_log[s]
           h == ((r \o miot_rx) \o qos0_back_log) \o back_log
<1>1. /\ r \in Seq(Messages) /\ b \in Seq(Messages) /\ miot_rx \in Seq(Messages)
      /\ qos0_back_log \in Seq(Messages) /\ back_log \in Seq(Messages) /\ msg_rx \in Seq(Messages)
  BY DEF TypeOK
<1>2. h \in Seq(Messages)
  <2>1. r \o miot_rx \in Seq(Messages)  BY Zenon, <1>1, MessagesConcat
  <2>2. (r \o miot_rx) \o qos0_back_log \in Seq(Messages)  BY Zenon, <1>1, <2>1, MessagesConcat
  <2> QED  BY Zenon, <1>1, <2>2, MessagesConcat
<1>3. /\ Session.miot_rx = miot_rx /\ Session.qos0_back_log = qos0_back_log
      /\ Session.back_log = back_log
  BY DEF Session
<1>4. AheadOf(s, levels, Session) = Numbers(h, S)  BY Zenon, <1>3 DEF AheadOf
<1>5. Way(s, levels) = Numbers((h \o msg_rx) \o b, S)  BY Zenon DEF Way
<1>6. Joint(S)  BY Zenon, JointNumbers
<1> HIDE DEF h, S, b
<1>7. Numbers((h \o msg_rx) \o b, S) = (Numbers(h, S) \o Numbers(msg_rx, S)) \o Numbers(b, S)
  BY Zenon, <1>1, <1>2, <1>6 DEF Joint
<1>8. Numbers(h, S) \in Seq(Nat) /\ Numbers(msg_rx, S) \in Seq(Nat) /\ Numbers(b, S) \in Seq(Nat)
  BY Zenon, <1>1, <1>2, NumbersTyped
<1> QED  BY Zenon, <1>4, <1>5, <1>7, <1>8 DEF S, b

(* The session after a step that leaves received and the channel empty.    *)
LEMMA WayAfter ==
  ASSUME TypeOK, NEW t \in States, SetSession(t), msg_rx' = <<>>,
         received' = received, shard_back_log' = shard_back_log,
         NEW s \in Sources, NEW levels
  PROVE  /\ AheadOf(s, levels, t) \in Seq(Nat)
         /\ Way(s, levels)' = AheadOf(s, levels, t) \o Numbers(shard_back_log[s], Of(s, levels))
<1> DEFINE S == Of(s, levels)
           r == received[s]
           b == shard_back_log[s]
           m == t.miot_rx
           q == t.qos0_back_log
           l == t.back_log
           h == ((r \o m) \o q) \o l
<1>1. /\ r \in Seq(Messages) /\ b \in Seq(Messages) /\ m \in Seq(Messages)
      /\ q \in Seq(Messages) /\ l \in Seq(Messages)
  BY DEF TypeOK, States
<1>2. /\ miot_rx' = m /\ qos0_back_log' = q /\ back_log' = l
      /\ received'[s] = r /\ shard_back_log'[s] = b
  BY DEF SetSession
<1>3. Way(s, levels)' = Numbers((h \o <<>>) \o b, S)  BY Zenon, <1>2 DEF Way
<1>4. AheadOf(s, levels, t) = Numbers(h, S)  BY Zenon DEF AheadOf
<1> HIDE DEF r, b, m, q, l
<1>5. h \in Seq(Messages)
  <2>1. r \o m \in Seq(Messages)  BY Zenon, <1>1, MessagesConcat
  <2>2. (r \o m) \o q \in Seq(Messages)  BY Zenon, <1>1, <2>1, MessagesConcat
  <2> QED  BY Zenon, <1>1, <2>2, MessagesConcat
<1> HIDE DEF h, S
<1>6. h \o <<>> = h  BY Zenon, <1>5, ConcatEmptySeq
<1>7. Numbers(h \o b, S) = Numbers(h, S) \o Numbers(b, S)  BY Zenon, <1>1, <1>5, NumbersConcat
<1>8. Numbers(h, S) \in Seq(Nat)  BY Zenon, <1>5, NumbersTyped
<1> QED  BY Zenon, <1>3, <1>4, <1>6, <1>7, <1>8 DEF S, b

(* One level of a turn, for one source: all of the channel's messages are  *)
(* kept in their order, or all of them are cut.                            *)
LEMMA LevelOfTurn ==
  ASSUME TypeOK, NEW t \in States, SetSession(t), msg_rx' = <<>>,
         received' = received, shard_back_log' = shard_back_log,
         NEW s \in Sources, NEW levels, NEW gone,
         NEW msgs, msgs = Select(msg_rx, AtQoS(levels)),
         Handed(s, levels, Session, t, msgs, gone)
  PROVE  Cut(Way(s, levels), Way(s, levels)', {m.n : m \in {x \in gone : x.src = s}})
<1> DEFINE S == Of(s, levels)
           A == AheadOf(s, levels, Session)
           B == AheadOf(s, levels, t)
           x == Numbers(msg_rx, S)
           y == Numbers(shard_back_log[s], S)
           D == {m.n : m \in {z \in gone : z.src = s}}
<1>1. A \in Seq(Nat) /\ x \in Seq(Nat) /\ y \in Seq(Nat) /\ Way(s, levels) = (A \o x) \o y
  BY WayIs
<1>2. Way(s, levels)' = B \o y  BY WayAfter
<1>3. S \subseteq AtQoS(levels)  BY Zenon DEF Of, AtQoS
<1>4. msg_rx \in Seq(Messages)  BY DEF TypeOK
<1>5. Numbers(msgs, S) = x  BY Zenon, <1>3, <1>4, NumbersSelect
<1>6. CASE gone = {} /\ B = A \o Numbers(msgs, S)
  <2>1. D = {}  BY <1>6
  <2>2. Way(s, levels)' = (A \o x) \o y  BY Zenon, <1>2, <1>5, <1>6
  <2> HIDE DEF A, x, y, D
  <2>3. Cut((A \o x) \o y, (A \o x) \o y, {})  BY <1>1, CutMiddle
  <2> QED  BY Zenon, <1>1, <2>1, <2>2, <2>3 DEF D
<1>7. CASE gone = Range(msgs) /\ B = A
  <2>1. D = Range(x)
    <3>1. Range(msgs) = Range(msg_rx) \cap AtQoS(levels)  BY <1>4, Selected
    <3>2. Range(x) = {m.n : m \in Range(msg_rx) \cap S}  BY Zenon, <1>4, NumbersRange
    <3>3. {z \in gone : z.src = s} = Range(msg_rx) \cap S  BY Zenon, <1>7, <3>1 DEF Of, AtQoS
    <3> QED  BY Zenon, <3>2, <3>3
  <2>2. Way(s, levels)' = A \o y  BY Zenon, <1>2, <1>7
  <2> HIDE DEF A, x, y, D
  <2>3. Cut((A \o x) \o y, A \o y, Range(x))  BY <1>1, CutMiddle
  <2> QED  BY Zenon, <1>1, <2>1, <2>2, <2>3 DEF D
<1> QED  BY Zenon, <1>6, <1>7 DEF Handed

(* The numbers of two sets of messages.                                    *)
LEMMA TwoSets == \A A, B : {m.n : m \in A \cup B} = {m.n : m \in A} \cup {m.n : m \in B}
OBVIOUS

(* The numbers on the way of a source are those of the two levels.         *)
WayOfLevels ==
  \A s \in Sources :
    Range(Way(s, QoS)) = Range(Way(s, QoS0)) \cup Range(Way(s, QoS12))

(* As the levels are all there are.                                        *)
LEMMA LevelsAreAll == TypeOK => WayOfLevels
<1> SUFFICES ASSUME TypeOK, NEW s \in Sources
             PROVE  Range(Way(s, QoS)) = Range(Way(s, QoS0)) \cup Range(Way(s, QoS12))
  BY Zenon DEF WayOfLevels
<1> DEFINE h == (((received[s] \o miot_rx) \o qos0_back_log) \o back_log) \o msg_rx
           w == h \o shard_back_log[s]
<1>1. /\ received[s] \in Seq(Messages) /\ shard_back_log[s] \in Seq(Messages)
      /\ miot_rx \in Seq(Messages) /\ msg_rx \in Seq(Messages)
      /\ qos0_back_log \in Seq(Messages) /\ back_log \in Seq(Messages)
  BY DEF TypeOK
<1>2. w \in Seq(Messages)
  <2>1. received[s] \o miot_rx \in Seq(Messages)  BY Zenon, <1>1, MessagesConcat
  <2>2. (received[s] \o miot_rx) \o qos0_back_log \in Seq(Messages)
    BY Zenon, <1>1, <2>1, MessagesConcat
  <2>3. ((received[s] \o miot_rx) \o qos0_back_log) \o back_log \in Seq(Messages)
    BY Zenon, <1>1, <2>2, MessagesConcat
  <2>4. h \in Seq(Messages)  BY Zenon, <1>1, <2>3, MessagesConcat
  <2> HIDE DEF h
  <2> QED  BY Zenon, <1>1, <2>4, MessagesConcat
<1>3. \A levels : Way(s, levels) = Numbers(w, Of(s, levels))  BY Zenon DEF Way
<1> HIDE DEF w
<1>4. \A levels : Range(Way(s, levels)) = {m.n : m \in Range(w) \cap Of(s, levels)}
  BY Zenon, <1>2, <1>3, NumbersRange
<1>5. Of(s, QoS) = Of(s, QoS0) \cup Of(s, QoS12)  BY Zenon, Apart
<1> DEFINE A == Range(w) \cap Of(s, QoS0)
           B == Range(w) \cap Of(s, QoS12)
<1>6. Range(w) \cap Of(s, QoS) = A \cup B  BY Zenon, <1>5
<1>7. Range(Way(s, QoS0)) = {m.n : m \in A} /\ Range(Way(s, QoS12)) = {m.n : m \in B}
  BY Zenon, <1>4
<1>8. Range(Way(s, QoS)) = {m.n : m \in A \cup B}  BY Zenon, <1>4, <1>6
<1> HIDE DEF A, B
<1> QED  BY Zenon, <1>7, <1>8, TwoSets

(* The same of the next state.                                             *)
LEMMA LevelsAreAllNext == TypeOK' => WayOfLevels'
<1>1. (TypeOK => WayOfLevels)'  BY LevelsAreAll, PTL
<1> QED  BY <1>1
=============================================================================

---------------------------- MODULE DeliveryProofs ----------------------------
(***************************************************************************)
(* Proofs that messages reach the client in order, that none disappears,   *)
(* that what a session holds is bounded, that acknowledgements are of what *)
(* was taken and that messages are routed as documented: for every number  *)
(* of shards, batch size and limit of the client, every sequence of        *)
(* subscriptions and every bound on what is published.                     *)
(***************************************************************************)
EXTENDS DeliveryLemmas

(* The numbers of a source's messages that its client's shard has not      *)
(* taken.                                                                  *)
Waiting(s) == Numbers(msg_rx \o shard_back_log[s], Of(s, QoS))

(* A source numbers its messages as it routes them: those that wait are in *)
(* the order of their numbers whatever their level, those of the two       *)
(* levels differ, and none is above the last.                              *)
Numbered ==
  \A s \in Sources :
    /\ Rising(Waiting(s)) /\ acked[s] =< inp_seqno[s]
    /\ Range(Way(s, QoS0)) \cap Range(Way(s, QoS12)) = {}
    /\ Range(Way(s, QoS0)) \cup Range(Way(s, QoS12)) \subseteq 1 .. inp_seqno[s]

(* The inductive invariant.                                                *)
IInv ==
  /\ TypeOK /\ Placed /\ Numbered
  /\ InOrder /\ Conserved /\ SessionIsBounded /\ AckedIsTaken /\ RoutedAsDocumented

(***************************************************************************)
(* Order and conservation, of one source.                                  *)
(***************************************************************************)
(* The numbers of a source's messages that the session has dropped.        *)
Lost(s) == {m.n : m \in {x \in lost : x.src = s}}

(* What each level has of a source's numbers.                              *)
OrderlyOf(s) ==
  /\ Rising(Way(s, QoS0)) /\ Rising(Way(s, QoS12))
  /\ Range(Way(s, QoS0)) \cap Range(Way(s, QoS12)) = {}
  /\ Range(Way(s, QoS0)) \cup Range(Way(s, QoS12)) \subseteq 1 .. inp_seqno[s]

(* Conserved, of one source.                                               *)
ConservedOf(s) ==
  /\ Range(Way(s, QoS)) \cap Lost(s) = {}
  /\ Lost(s) # {} => AtLimit
  /\ Range(Way(s, QoS)) \cup Lost(s) \subseteq 1 .. inp_seqno[s]
  /\ ~Skips(s) => Range(Way(s, QoS)) \cup Lost(s) = 1 .. inp_seqno[s]

(* Conserved is that of every source.                                      *)
LEMMA ConservedIs == Conserved <=> (~panicked => \A s \in Sources : ConservedOf(s))
BY Zenon DEF Conserved, ConservedOf, Lost, Skips

(* A step that cuts numbers out of the ways of a source keeps them in      *)
(* order, ...                                                              *)
LEMMA CutKeepsOrder ==
  ASSUME NEW s, OrderlyOf(s), inp_seqno'[s] = inp_seqno[s], NEW D0, NEW D12,
         Cut(Way(s, QoS0), Way(s, QoS0)', D0), Cut(Way(s, QoS12), Way(s, QoS12)', D12)
  PROVE  OrderlyOf(s)'
<1>1. /\ Rising(Way(s, QoS0)') /\ Range(Way(s, QoS0)) = Range(Way(s, QoS0)') \cup D0
      /\ Rising(Way(s, QoS12)') /\ Range(Way(s, QoS12)) = Range(Way(s, QoS12)') \cup D12
  BY CutRises DEF OrderlyOf
<1>2. /\ Range(Way(s, QoS0)') \cap Range(Way(s, QoS12)') = {}
      /\ Range(Way(s, QoS0)') \cup Range(Way(s, QoS12)') \subseteq 1 .. inp_seqno[s]
  BY Zenon, <1>1 DEF OrderlyOf
<1> QED  BY Zenon, <1>1, <1>2 DEF OrderlyOf

(* ... and if the session has lost what is cut, nothing disappears.        *)
LEMMA CutKeepsMessages ==
  ASSUME TypeOK, TypeOK', NEW s \in Sources, OrderlyOf(s), ConservedOf(s),
         inp_seqno'[s] = inp_seqno[s], setup' = setup, NEW D0, NEW D12,
         Cut(Way(s, QoS0), Way(s, QoS0)', D0), Cut(Way(s, QoS12), Way(s, QoS12)', D12),
         Lost(s)' = Lost(s) \cup (D0 \cup D12), D0 \cup D12 # {} => AtLimit',
         AtLimit => AtLimit'
  PROVE  ConservedOf(s)'
<1> DEFINE A == Range(Way(s, QoS0)')
           B == Range(Way(s, QoS12)')
           W == Range(Way(s, QoS))
           L == Lost(s)
           N == 1 .. inp_seqno[s]
<1>1. /\ Range(Way(s, QoS0)) = A \cup D0 /\ A \cap D0 = {}
      /\ Range(Way(s, QoS12)) = B \cup D12 /\ B \cap D12 = {}
  BY CutRises DEF OrderlyOf
<1>2. W = Range(Way(s, QoS0)) \cup Range(Way(s, QoS12))  BY Zenon, LevelsAreAll DEF WayOfLevels
<1>3. Range(Way(s, QoS))' = A \cup B  BY Zenon, LevelsAreAllNext DEF WayOfLevels
<1>4. (A \cup D0) \cap (B \cup D12) = {}  BY Zenon, <1>1 DEF OrderlyOf
<1>5. W = (A \cup D0) \cup (B \cup D12)  BY Zenon, <1>1, <1>2
<1>6. /\ W \cap L = {} /\ (L # {} => AtLimit) /\ W \cup L \subseteq N
      /\ ~Skips(s) => W \cup L = N
  BY Zenon DEF ConservedOf
<1>7. Skips(s)' <=> Skips(s)  BY Zenon DEF Skips
<1>8. (1 .. inp_seqno[s])' = N  BY Zenon
<1> DEFINE V == A \cup B
           M == L \cup (D0 \cup D12)
<1>9. V \cup M = W \cup L  BY Zenon, <1>5
<1>10. V \cap M = {}
  <2> HIDE DEF A, B, W, L
  <2> SUFFICES ASSUME NEW i \in V, i \in M PROVE FALSE  BY Zenon
  <2>1. i \notin L  BY Zenon, <1>5, <1>6
  <2>2. i \notin D0 \cup D12  BY Zenon, <1>1, <1>4
  <2> QED  BY Zenon, <2>1, <2>2
<1>11. M # {} => AtLimit'
  <2>1. L = {} /\ D0 \cup D12 = {} => M = {}
    <3> HIDE DEF L
    <3> QED  BY Zenon
  <2> QED  BY Zenon, <1>6, <2>1
<1>12. Range(Way(s, QoS))' = V /\ Lost(s)' = M  BY Zenon, <1>3
<1> HIDE DEF A, B, W, L, N, V, M
<1>13. /\ V \cap M = {} /\ (M # {} => AtLimit') /\ V \cup M \subseteq N
       /\ ~Skips(s)' => V \cup M = N
  BY Zenon, <1>6, <1>7, <1>9, <1>10, <1>11
<1> QED  BY Zenon, <1>8, <1>12, <1>13 DEF ConservedOf

(* The two invariants about order, source by source.                       *)
LEMMA OrderlyIs ==
  InOrder /\ Numbered <=>
    \A s \in Sources : OrderlyOf(s) /\ Rising(Waiting(s)) /\ acked[s] =< inp_seqno[s]
BY Zenon DEF InOrder, Numbered, OrderlyOf

(* The same of the next state.                                             *)
LEMMA OrderlyNext ==
  (\A s \in Sources : OrderlyOf(s)' /\ Rising(Waiting(s)') /\ acked'[s] =< inp_seqno'[s])
    => InOrder' /\ Numbered'
BY Zenon DEF InOrder, Numbered, OrderlyOf

(* Conserved of the next state.                                            *)
LEMMA ConservedNext == (~panicked' => \A s \in Sources : ConservedOf(s)') => Conserved'
BY Zenon DEF Conserved, ConservedOf, Lost, Skips

(* RoutedAsDocumented is that of every source, ...                         *)
LEMMA DocumentedIs ==
  RoutedAsDocumented <=> \A s \in Sources : Documented(s, setup, shard_back_log[s])
BY Zenon DEF RoutedAsDocumented, Documented, AsPublished

(* ... and so in the next state.                                           *)
LEMMA DocumentedNext ==
  (\A s \in Sources : Documented(s, setup', shard_back_log'[s])) => RoutedAsDocumented'
BY Zenon DEF RoutedAsDocumented, Documented, AsPublished

(***************************************************************************)
(* A turn of the client's shard.                                           *)
(***************************************************************************)
(* A turn keeps the invariant.                                             *)
LEMMA TurnStep == IInv /\ Turn => IInv'
(* What a turn acknowledges was in the channel.                            *)
<1>AcksAreTaken. ASSUME TypeOK, NEW s \in Sources
                 PROVE  /\ Acks(msg_rx, s) \in Seq(Messages)
                        /\ Range(Acks(msg_rx, s)) \subseteq Range(msg_rx) \cap Of(s, QoS)
  <2> USE <1>AcksAreTaken
  <2> DEFINE S(levels) == {m \in Of(s, levels) : m.ack_needed}
             a == Select(msg_rx, S(QoS0))
             b == Select(msg_rx, S(QoS12))
  <2>1. msg_rx \in Seq(Messages)  BY DEF TypeOK
  <2>2. a \in Seq(Messages) /\ Range(a) = Range(msg_rx) \cap S(QoS0)  BY <2>1, Selected
  <2>3. b \in Seq(Messages) /\ Range(b) = Range(msg_rx) \cap S(QoS12)  BY <2>1, Selected
  <2>4. S(QoS0) \subseteq Of(s, QoS) /\ S(QoS12) \subseteq Of(s, QoS)  BY Zenon, Apart
  <2>5. Acks(msg_rx, s) = a \o b  BY Zenon DEF Acks
  <2> HIDE DEF a, b, S
  <2>6. a \o b \in Seq(Messages)  BY Zenon, <2>2, <2>3, MessagesConcat
  <2>7. Range(a \o b) = Range(a) \cup Range(b)  BY <2>2, <2>3, RangeConcatenation
  <2> QED  BY Zenon, <2>2, <2>3, <2>4, <2>5, <2>6, <2>7

(* The last message of a queue is one of it.                               *)
<1>LastIsIn. ASSUME NEW M, NEW w \in Seq(M), w # <<>>
             PROVE  w[Len(w)] \in Range(w)
  <2> USE <1>LastIsIn
  <2>1. Len(w) \in Nat /\ DOMAIN w = 1 .. Len(w)  BY LenProperties
  <2>2. Len(w) # 0  BY EmptySeq
  <2>3. Len(w) \in DOMAIN w  BY <2>1, <2>2
  <2> QED  BY Zenon, <2>3 DEF Range

(* Every number in the channel is less than those that are behind it, and  *)
(* is one of the source's.                                                 *)
<1>ChannelIsAhead.
    ASSUME TypeOK, Numbered, NEW s \in Sources
    PROVE  /\ Rising(Numbers(shard_back_log[s], Of(s, QoS)))
           /\ \A m \in Range(msg_rx) \cap Of(s, QoS) :
                /\ m.n \in Nat /\ m.n =< inp_seqno[s]
                /\ \A x \in Range(shard_back_log[s]) \cap Of(s, QoS) : m.n < x.n
  <2> USE <1>ChannelIsAhead
  <2> DEFINE S == Of(s, QoS)
             a == Numbers(msg_rx, S)
             b == Numbers(shard_back_log[s], S)
  <2>1. msg_rx \in Seq(Messages) /\ shard_back_log[s] \in Seq(Messages) /\ inp_seqno[s] \in Nat
    BY DEF TypeOK
  <2>2. a \in Seq(Nat) /\ b \in Seq(Nat) /\ Waiting(s) = a \o b
    BY Zenon, <2>1, NumbersTyped, NumbersConcat DEF Waiting
  <2>3. Rising(Waiting(s))  BY Zenon DEF Numbered
  <2>4. /\ Range(a) = {m.n : m \in Range(msg_rx) \cap S}
        /\ Range(b) = {m.n : m \in Range(shard_back_log[s]) \cap S}
    BY Zenon, <2>1, NumbersRange
  <2>5. Range(a) \subseteq 1 .. inp_seqno[s]
    <3> DEFINE A == AheadOf(s, QoS, Session)
               e == A \o a
    <3>1. A \in Seq(Nat) /\ Way(s, QoS) = e \o b  BY WayIs
    <3>2. Range(Way(s, QoS)) \subseteq 1 .. inp_seqno[s]
      <4>1. Range(Way(s, QoS)) = Range(Way(s, QoS0)) \cup Range(Way(s, QoS12))
        BY Zenon, LevelsAreAll DEF WayOfLevels
      <4> QED  BY Zenon, <4>1 DEF Numbered
    <3> HIDE DEF A, a, b
    <3>3. e \in Seq(Nat) /\ Range(e) = Range(A) \cup Range(a)
      BY <2>2, <3>1, ConcatProperties, RangeConcatenation
    <3> HIDE DEF e
    <3>4. Range(e \o b) = Range(e) \cup Range(b)  BY <2>2, <3>3, RangeConcatenation
    <3> QED  BY Zenon, <3>1, <3>2, <3>3, <3>4
  <2> HIDE DEF a, b
  <2>6. Rising(b) /\ \A i \in Range(a), j \in Range(b) : i < j  BY <2>2, <2>3, RisingParts
  <2>7. ASSUME NEW m \in Range(msg_rx) \cap S
        PROVE  /\ m.n \in Nat /\ m.n =< inp_seqno[s]
               /\ \A x \in Range(shard_back_log[s]) \cap S : m.n < x.n
    <3>1. m.n \in Range(a)  BY Zenon, <2>4
    <3>2. m.n \in 1 .. inp_seqno[s]  BY Zenon, <2>5, <3>1
    <3>3. \A x \in Range(shard_back_log[s]) \cap S : m.n < x.n  BY Zenon, <2>4, <2>6, <3>1
    <3>4. m.n \in Nat /\ m.n =< inp_seqno[s]  BY <2>1, <3>2
    <3> QED  BY Zenon, <3>3, <3>4
  <2> QED  BY Zenon, <2>6, <2>7 DEF b

(* What waits once a turn has taken the channel, and what the turn has     *)
(* acknowledged.                                                           *)
<1>TurnAcks.
    ASSUME TypeOK, Placed, Numbered, AckedIsTaken, msg_rx' = <<>>, shard_back_log' = shard_back_log,
           ReturnLocalAcks \/ acked' = acked, NEW s \in Sources
    PROVE  /\ acked'[s] \in Nat /\ acked'[s] =< inp_seqno[s]
           /\ Rising(Waiting(s)')
           /\ \A m \in Range(msg_rx' \o shard_back_log'[s]) : m.src = s => m.n > acked'[s]
  <2> USE <1>TurnAcks
  <2> DEFINE b == shard_back_log[s]
             S == Of(s, QoS)
  <2>1. b \in Seq(Messages) /\ msg_rx \in Seq(Messages) /\ acked[s] \in Nat /\ inp_seqno[s] \in Nat
    BY DEF TypeOK
  <2>2. <<>> \o b = b  BY Zenon, <2>1, ConcatEmptySeq
  <2>3. Rising(Waiting(s)')
    <3>1. Waiting(s)' = Numbers(b, S)  BY Zenon, <2>2 DEF Waiting
    <3>2. Rising(Numbers(b, S))  BY <1>ChannelIsAhead
    <3> QED  BY Zenon, <3>1, <3>2
  <2>4. Range(b) \subseteq S  BY Zenon DEF Placed
  <2>5. CASE acked'[s] = acked[s]
    <3>1. acked[s] =< inp_seqno[s]  BY Zenon DEF Numbered
    <3>2. Range(b) \subseteq Range(msg_rx \o b)
      <4>1. Range(msg_rx \o b) = Range(msg_rx) \cup Range(b)  BY <2>1, RangeConcatenation
      <4> QED  BY Zenon, <4>1
    <3>3. \A m \in Range(b) : m.src = s => m.n > acked[s]  BY Zenon, <3>2 DEF AckedIsTaken
    <3> QED  BY Zenon, <2>1, <2>2, <2>3, <2>5, <3>1, <3>3
  <2>6. CASE acked'[s] # acked[s]
    <3> DEFINE acks == Acks(msg_rx, s)
               m == acks[Len(acks)]
    <3>1. ReturnLocalAcks  BY Zenon, <2>6
    <3>2. acks # <<>> /\ acked'[s] = m.n  BY Zenon, <2>6, <3>1 DEF ReturnLocalAcks
    <3>3. acks \in Seq(Messages) /\ Range(acks) \subseteq Range(msg_rx) \cap S  BY <1>AcksAreTaken
    <3> HIDE DEF acks
    <3>4. m \in Range(msg_rx) \cap S
      <4>1. m \in Range(acks)  BY <3>2, <3>3, <1>LastIsIn
      <4> QED  BY Zenon, <3>3, <4>1
    <3>5. m.n \in Nat /\ m.n =< inp_seqno[s] /\ \A x \in Range(b) : m.n < x.n
      <4>1. \A k \in Range(msg_rx) \cap S :
              /\ k.n \in Nat /\ k.n =< inp_seqno[s] /\ \A x \in Range(b) \cap S : k.n < x.n
        BY <1>ChannelIsAhead
      <4> QED  BY Zenon, <2>4, <3>4, <4>1
    <3>6. \A x \in Range(b) : x.n > m.n
      <4>1. \A x \in Range(b) : x.n \in Nat  BY <2>4 DEF Of, Messages
      <4> HIDE DEF m
      <4> QED  BY <3>5, <4>1
    <3> QED  BY Zenon, <2>2, <2>3, <3>2, <3>5, <3>6
  <2> QED  BY Zenon, <2>5, <2>6

(* What a turn leaves in the session.                                      *)
<1>SessionSet.
    ASSUME TypeOK, NEW t \in States, Fit(t), Sorted(t), SetSession(t), setup' = setup
    PROVE  /\ miot_rx' \in Seq(Messages) /\ qos0_back_log' \in Seq(Messages)
           /\ back_log' \in Seq(Messages) /\ next_packet_id' \in 0 .. IdSpace - 1
           /\ qos12_unacks' \in SUBSET Messages /\ IsFiniteSet(qos12_unacks')
           /\ lost' = t.lost /\ lost' \in SUBSET Messages
           /\ connected' \in BOOLEAN /\ live' \in BOOLEAN
           /\ Range(qos0_back_log') \subseteq AtQoS(QoS0)
           /\ Range(back_log') \subseteq AtQoS(QoS12)
           /\ AtLimit' <=> Full(t)
           /\ Len(miot_rx') =< Batch
           /\ Cardinality(qos12_unacks') =< setup.receive_max + Batch - 1
           /\ Len(qos0_back_log') =< BackLogLimit + ChannelSize
           /\ Len(back_log') =< BackLogLimit + ChannelSize
  <2> USE <1>SessionSet
  <2>1. /\ t.miot_rx \in Seq(Messages) /\ t.qos0_back_log \in Seq(Messages)
        /\ t.back_log \in Seq(Messages) /\ t.next_packet_id \in 0 .. IdSpace - 1
        /\ t.qos12_unacks \in SUBSET Messages /\ t.lost \in SUBSET Messages
        /\ t.connected \in BOOLEAN /\ t.live \in BOOLEAN
    BY DEF States
  <2>2. AtLimit' <=> Full(t)  BY Zenon DEF AtLimit, Full, SetSession, BackLogLimit, Batch
  <2> QED  BY Zenon, <2>1, <2>2 DEF SetSession, Fit, Sorted

<1> SUFFICES ASSUME IInv, Turn PROVE IInv'  OBVIOUS
<1>0. /\ TypeOK /\ Placed /\ Numbered /\ InOrder /\ Conserved /\ SessionIsBounded
      /\ AckedIsTaken /\ RoutedAsDocumented
  BY Zenon DEF IInv
<1>1. /\ msg_rx' = <<>> /\ received' = received /\ shard_back_log' = shard_back_log
      /\ setup' = setup /\ inp_seqno' = inp_seqno /\ ~panicked
  BY DEF Turn
<1>2. PICK t : Served(t)  BY <1>0, TurnServes
<1>3. ReturnLocalAcks \/ acked' = acked  BY <1>0, TurnServes
<1>4. t \in States /\ Fit(t) /\ Sorted(t) /\ SetSession(t)  BY Zenon, <1>2 DEF Served
<1>5. /\ miot_rx' \in Seq(Messages) /\ qos0_back_log' \in Seq(Messages)
      /\ back_log' \in Seq(Messages) /\ next_packet_id' \in 0 .. IdSpace - 1
      /\ qos12_unacks' \in SUBSET Messages /\ IsFiniteSet(qos12_unacks')
      /\ lost' = t.lost /\ lost' \in SUBSET Messages
      /\ connected' \in BOOLEAN /\ live' \in BOOLEAN
      /\ Range(qos0_back_log') \subseteq AtQoS(QoS0)
      /\ Range(back_log') \subseteq AtQoS(QoS12)
      /\ AtLimit' <=> Full(t)
      /\ Len(miot_rx') =< Batch
      /\ Cardinality(qos12_unacks') =< setup.receive_max + Batch - 1
      /\ Len(qos0_back_log') =< BackLogLimit + ChannelSize
      /\ Len(back_log') =< BackLogLimit + ChannelSize
  BY <1>0, <1>1, <1>4, <1>SessionSet
<1>6. \A s \in Sources :
        /\ acked'[s] \in Nat /\ acked'[s] =< inp_seqno[s]
        /\ Rising(Waiting(s)')
        /\ \A m \in Range(msg_rx' \o shard_back_log'[s]) : m.src = s => m.n > acked'[s]
  BY <1>0, <1>1, <1>3, <1>TurnAcks
<1>7. TypeOK'
  <2>1. acked' \in [Sources -> Nat]
    <3>1. acked' = acked \/ acked' = [s \in Sources |-> acked'[s]]
      BY Zenon, <1>3 DEF ReturnLocalAcks
    <3>2. acked \in [Sources -> Nat]  BY <1>0 DEF TypeOK
    <3> QED  BY <1>6, <3>1, <3>2
  <2>2. panicked' \in BOOLEAN
    <3>1. panicked' = TRUE \/ panicked' = panicked  BY Zenon DEF Turn
    <3>2. panicked \in BOOLEAN  BY Zenon, <1>0 DEF TypeOK
    <3> QED  BY Zenon, <3>1, <3>2
  <2>3. <<>> \in Seq(Messages)  BY EmptySeq
  <2>4. {connected', live', panicked'} \subseteq BOOLEAN  BY Zenon, <1>5, <2>2
  <2> QED  BY Zenon, <1>0, <1>1, <1>5, <2>1, <2>3, <2>4 DEF TypeOK
<1>8. Placed'  BY Zenon, <1>0, <1>1, <1>5 DEF Placed
<1>9. PICK G0, G12 :
        /\ ~panicked' => t.lost = lost \cup (G0 \cup G12) /\ (G0 \cup G12 # {} => Full(t))
        /\ \A s \in Sources :
             /\ Handed(s, QoS0, Session, t, Select(msg_rx, AtQoS(QoS0)), G0)
             /\ Handed(s, QoS12, Session, t, Select(msg_rx, AtQoS(QoS12)), G12)
  BY Zenon, <1>2 DEF Served
<1> DEFINE D0(s) == {m.n : m \in {x \in G0 : x.src = s}}
           D12(s) == {m.n : m \in {x \in G12 : x.src = s}}
<1>10. ASSUME NEW s \in Sources
       PROVE  /\ Cut(Way(s, QoS0), Way(s, QoS0)', D0(s))
              /\ Cut(Way(s, QoS12), Way(s, QoS12)', D12(s))
  <2>1. /\ Handed(s, QoS0, Session, t, Select(msg_rx, AtQoS(QoS0)), G0)
        /\ Handed(s, QoS12, Session, t, Select(msg_rx, AtQoS(QoS12)), G12)
    BY Zenon, <1>9
  <2>2. Cut(Way(s, QoS0), Way(s, QoS0)', D0(s))  BY <1>0, <1>1, <1>4, <2>1, LevelOfTurn
  <2>3. Cut(Way(s, QoS12), Way(s, QoS12)', D12(s))  BY <1>0, <1>1, <1>4, <2>1, LevelOfTurn
  <2> QED  BY Zenon, <2>2, <2>3
<1>11. \A s \in Sources : OrderlyOf(s)  BY Zenon, <1>0, OrderlyIs
<1>12. InOrder' /\ Numbered'
  <2> HIDE DEF D0, D12
  <2>1. ASSUME NEW s \in Sources PROVE OrderlyOf(s)'
    <3>1. inp_seqno'[s] = inp_seqno[s] /\ OrderlyOf(s)  BY Zenon, <1>1, <1>11
    <3>2. Cut(Way(s, QoS0), Way(s, QoS0)', D0(s)) /\ Cut(Way(s, QoS12), Way(s, QoS12)', D12(s))
      BY Zenon, <1>10
    <3> QED  BY <3>1, <3>2, CutKeepsOrder
  <2> QED  BY Zenon, <1>1, <1>6, <2>1, OrderlyNext
<1>13. Conserved'
  <2> SUFFICES ASSUME ~panicked', NEW s \in Sources PROVE ConservedOf(s)'  BY Zenon, ConservedNext
  <2>1. ConservedOf(s)  BY Zenon, <1>0, <1>1, ConservedIs
  <2>2. lost' = lost \cup (G0 \cup G12) /\ (G0 \cup G12 # {} => Full(t))  BY Zenon, <1>5, <1>9
  <2>3. Lost(s)' = Lost(s) \cup (D0(s) \cup D12(s))
    <3> DEFINE A == {x \in lost : x.src = s}
               B == {x \in G0 : x.src = s}
               C == {x \in G12 : x.src = s}
               E == B \cup C
    <3>1. {x \in lost' : x.src = s} = A \cup E  BY Zenon, <2>2
    <3>2. Lost(s)' = {m.n : m \in A \cup E}  BY Zenon, <3>1 DEF Lost
    <3>3. Lost(s) = {m.n : m \in A}  BY Zenon DEF Lost
    <3> HIDE DEF A, B, C
    <3>4. {m.n : m \in E} = {m.n : m \in B} \cup {m.n : m \in C}  BY Zenon, TwoSets
    <3> HIDE DEF E
    <3>5. {m.n : m \in A \cup E} = {m.n : m \in A} \cup {m.n : m \in E}  BY Zenon, TwoSets
    <3> QED  BY Zenon, <3>2, <3>3, <3>4, <3>5 DEF B, C
  <2>4. D0(s) \cup D12(s) # {} => AtLimit'
    <3>1. G0 \cup G12 = {} => D0(s) \cup D12(s) = {}  BY Zenon
    <3> QED  BY Zenon, <1>5, <2>2, <3>1
  <2>5. AtLimit => AtLimit'
    <3>1. Full(Session) <=> AtLimit  BY <1>0, SessionIs
    <3> QED  BY Zenon, <1>2, <1>5, <3>1 DEF Served
  <2>6. inp_seqno'[s] = inp_seqno[s] /\ OrderlyOf(s)  BY Zenon, <1>1, <1>11
  <2>7. Cut(Way(s, QoS0), Way(s, QoS0)', D0(s)) /\ Cut(Way(s, QoS12), Way(s, QoS12)', D12(s))
    BY Zenon, <1>10
  <2> HIDE DEF D0, D12
  <2> QED  BY <1>0, <1>1, <1>7, <2>1, <2>3, <2>4, <2>5, <2>6, <2>7, CutKeepsMessages
<1>14. SessionIsBounded'
  <2>1. ChannelSize \in Nat  BY <1>0, Sizes
  <2>2. Len(<<>>) =< ChannelSize  BY <2>1
  <2>3. Batch' = Batch /\ ChannelSize' = ChannelSize /\ BackLogLimit' = BackLogLimit
    BY Zenon, <1>1 DEF Batch, ChannelSize, BackLogLimit
  <2> QED  BY Zenon, <1>1, <1>5, <2>2, <2>3 DEF SessionIsBounded
<1>15. AckedIsTaken'  BY Zenon, <1>6 DEF AckedIsTaken
<1>16. RoutedAsDocumented'
  <2>1. \A s \in Sources : Documented(s, setup, shard_back_log[s])  BY Zenon, <1>0, DocumentedIs
  <2>2. \A s \in Sources : Documented(s, setup', shard_back_log'[s])  BY Zenon, <1>1, <2>1
  <2> QED  BY Zenon, <2>2, DocumentedNext
<1> QED  BY Zenon, <1>7, <1>8, <1>12, <1>13, <1>14, <1>15, <1>16 DEF IInv

(***************************************************************************)
(* Steps that move no message, or only forward.                            *)
(***************************************************************************)
(* The numbers on the way are natural numbers.                             *)
LEMMA WayTyped ==
  ASSUME TypeOK, NEW s \in Sources, NEW levels
  PROVE  Way(s, levels) \in Seq(Nat)
<1> DEFINE a == AheadOf(s, levels, Session)
           x == Numbers(msg_rx, Of(s, levels))
           y == Numbers(shard_back_log[s], Of(s, levels))
<1>1. a \in Seq(Nat) /\ x \in Seq(Nat) /\ y \in Seq(Nat) /\ Way(s, levels) = (a \o x) \o y
  BY WayIs
<1> HIDE DEF a, x, y
<1> QED  BY <1>1, ConcatProperties

(* A step that leaves the ways of all sources as they are.                 *)
LEMMA SameWays ==
  ASSUME IInv, TypeOK',
         \A s \in Sources : Way(s, QoS0)' = Way(s, QoS0) /\ Way(s, QoS12)' = Way(s, QoS12),
         \A s \in Sources : Rising(Waiting(s)'),
         setup' = setup, inp_seqno' = inp_seqno, lost' = lost, acked' = acked,
         panicked' = panicked, AtLimit => AtLimit'
  PROVE  InOrder' /\ Numbered' /\ Conserved'
<1>0. TypeOK /\ Numbered /\ InOrder /\ Conserved  BY Zenon DEF IInv
<1>1. \A s \in Sources : OrderlyOf(s) /\ acked[s] =< inp_seqno[s]  BY Zenon, <1>0, OrderlyIs
<1>2. ASSUME NEW s \in Sources
      PROVE  Cut(Way(s, QoS0), Way(s, QoS0)', {}) /\ Cut(Way(s, QoS12), Way(s, QoS12)', {})
  <2>1. Way(s, QoS0) \in Seq(Nat) /\ Way(s, QoS12) \in Seq(Nat)  BY <1>0, WayTyped
  <2> QED  BY Zenon, <2>1, Uncut
<1>3. InOrder' /\ Numbered'
  <2>1. ASSUME NEW s \in Sources PROVE OrderlyOf(s)'
    <3>1. inp_seqno'[s] = inp_seqno[s] /\ OrderlyOf(s)  BY Zenon, <1>1
    <3>2. Cut(Way(s, QoS0), Way(s, QoS0)', {}) /\ Cut(Way(s, QoS12), Way(s, QoS12)', {})
      BY Zenon, <1>2
    <3> QED  BY <3>1, <3>2, CutKeepsOrder
  <2> QED  BY Zenon, <1>1, <2>1, OrderlyNext
<1>4. Conserved'
  <2> SUFFICES ASSUME ~panicked', NEW s \in Sources PROVE ConservedOf(s)'  BY Zenon, ConservedNext
  <2>1. ConservedOf(s)  BY Zenon, <1>0, ConservedIs
  <2>2. Lost(s)' = Lost(s) \cup ({} \cup {})  BY Zenon DEF Lost
  <2>3. ({} \cup {}) # {} => AtLimit'  BY Zenon
  <2>4. inp_seqno'[s] = inp_seqno[s] /\ OrderlyOf(s)  BY Zenon, <1>1
  <2>5. Cut(Way(s, QoS0), Way(s, QoS0)', {}) /\ Cut(Way(s, QoS12), Way(s, QoS12)', {})
    BY Zenon, <1>2
  <2> QED  BY <1>0, <2>1, <2>2, <2>3, <2>4, <2>5, CutKeepsMessages
<1> QED  BY Zenon, <1>3, <1>4

(* A step that leaves the sources, the channel and what is acknowledged as *)
(* they are.                                                               *)
LEMMA SourcesSame ==
  ASSUME IInv, UNCHANGED <<setup, shard_back_log, msg_rx, acked>>
  PROVE  /\ AckedIsTaken' /\ RoutedAsDocumented'
         /\ \A s \in Sources : Rising(Waiting(s)')
<1>0. AckedIsTaken /\ RoutedAsDocumented /\ Numbered  BY Zenon DEF IInv
<1>1. setup' = setup /\ shard_back_log' = shard_back_log /\ msg_rx' = msg_rx /\ acked' = acked
  OBVIOUS
<1>2. AckedIsTaken'  BY Zenon, <1>0, <1>1 DEF AckedIsTaken
<1>3. \A s \in Sources : Documented(s, setup, shard_back_log[s])  BY Zenon, <1>0, DocumentedIs
<1>4. \A s \in Sources : Documented(s, setup', shard_back_log'[s])  BY Zenon, <1>1, <1>3
<1>5. RoutedAsDocumented'  BY Zenon, <1>4, DocumentedNext
<1>6. \A s \in Sources : Rising(Waiting(s)')  BY Zenon, <1>0, <1>1 DEF Numbered, Waiting
<1> QED  BY Zenon, <1>2, <1>5, <1>6

(* A step that changes nothing but the connection keeps the invariant.     *)
LEMMA ConnectionStep ==
  ASSUME IInv, connected' \in BOOLEAN, live' \in BOOLEAN,
         UNCHANGED <<setup, inp_seqno, shard_back_log, msg_rx, session, miot_rx, received,
                     acked, panicked>>
  PROVE  IInv'
<1>0. TypeOK /\ Placed /\ SessionIsBounded  BY Zenon DEF IInv
<1>1. /\ setup' = setup /\ inp_seqno' = inp_seqno /\ shard_back_log' = shard_back_log
      /\ msg_rx' = msg_rx /\ next_packet_id' = next_packet_id /\ qos0_back_log' = qos0_back_log
      /\ back_log' = back_log /\ qos12_unacks' = qos12_unacks /\ lost' = lost
      /\ miot_rx' = miot_rx /\ received' = received /\ acked' = acked /\ panicked' = panicked
  BY DEF session
<1>2. TypeOK'
  <2>1. {connected', live', panicked'} \subseteq BOOLEAN  BY Zenon, <1>0, <1>1 DEF TypeOK
  <2> QED  BY Zenon, <1>0, <1>1, <2>1 DEF TypeOK
<1>3. Placed'  BY Zenon, <1>0, <1>1 DEF Placed
<1>4. SessionIsBounded'
  BY Zenon, <1>0, <1>1 DEF SessionIsBounded, Batch, ChannelSize, BackLogLimit
<1>5. AckedIsTaken' /\ RoutedAsDocumented' /\ \A s \in Sources : Rising(Waiting(s)')
  BY <1>1, SourcesSame
<1>6. \A s, levels : Way(s, levels)' = Way(s, levels)  BY Zenon, <1>1 DEF Way
<1>7. AtLimit => AtLimit'  BY Zenon, <1>1 DEF AtLimit, BackLogLimit, Batch
<1>8. InOrder' /\ Numbered' /\ Conserved'
  <2>1. \A s \in Sources : Way(s, QoS0)' = Way(s, QoS0) /\ Way(s, QoS12)' = Way(s, QoS12)
    BY Zenon, <1>6
  <2> QED  BY <1>1, <1>2, <1>5, <1>7, <2>1, SameWays
<1> QED  BY Zenon, <1>2, <1>3, <1>4, <1>5, <1>8 DEF IInv

(* Two queues with the same numbers have the same with more behind them.   *)
Alike(S, v, w) == \A x \in Seq(Messages) : Numbers(v \o x, S) = Numbers(w \o x, S)

(* Alike, of two queues with the same numbers.                             *)
LEMMA StayAlike ==
  \A S : \A v, w \in Seq(Messages) : Numbers(v, S) = Numbers(w, S) => Alike(S, v, w)
<1> SUFFICES ASSUME NEW S, NEW v \in Seq(Messages), NEW w \in Seq(Messages),
                    Numbers(v, S) = Numbers(w, S), NEW x \in Seq(Messages)
             PROVE  Numbers(v \o x, S) = Numbers(w \o x, S)
  BY Zenon DEF Alike
<1>1. Numbers(v \o x, S) = Numbers(v, S) \o Numbers(x, S)  BY Zenon, NumbersConcat
<1>2. Numbers(w \o x, S) = Numbers(w, S) \o Numbers(x, S)  BY Zenon, NumbersConcat
<1> QED  BY Zenon, <1>1, <1>2

(* It keeps the invariant.                                                 *)
LEMMA TryRecvsStep == IInv /\ TryRecvs => IInv'
(* PktRx::try_recvs moves what is queued to what was received, in order.   *)
<1>TryRecvsWay.
    ASSUME TypeOK, TypeOK', TryRecvs, NEW s \in Sources, NEW levels, levels \subseteq QoS
    PROVE  Way(s, levels)' = Way(s, levels)
  <2> USE <1>TryRecvsWay
  <2> DEFINE S == Of(s, levels)
             T == Of(s, QoS)
             r == received[s]
             c == Select(miot_rx, T)
             m == miot_rx
             q == qos0_back_log
             b == back_log
             k == shard_back_log[s]
  <2>1. /\ r \in Seq(Messages) /\ m \in Seq(Messages) /\ q \in Seq(Messages)
        /\ b \in Seq(Messages) /\ msg_rx \in Seq(Messages) /\ k \in Seq(Messages)
    BY DEF TypeOK
  <2>2. c \in Seq(Messages)  BY <2>1, Selected
  <2>3. S \subseteq T  BY Zenon DEF Of
  <2>4. Numbers(c, S) = Numbers(m, S)  BY Zenon, <2>1, <2>3, NumbersSelect
  <2>5. Way(s, levels)' = Numbers((((((r \o c) \o <<>>) \o q) \o b) \o msg_rx) \o k, S)
    BY Zenon DEF Way, TryRecvs, session
  <2>6. Way(s, levels) = Numbers(((((r \o m) \o q) \o b) \o msg_rx) \o k, S)
    BY Zenon DEF Way
  <2> HIDE DEF r, c, m, q, b, k, S, T
  <2>7. r \o c \in Seq(Messages) /\ r \o m \in Seq(Messages)  BY Zenon, <2>1, <2>2, MessagesConcat
  <2>8. (r \o c) \o <<>> = r \o c  BY Zenon, <2>7, ConcatEmptySeq
  <2> DEFINE v1 == r \o c
             w1 == r \o m
  <2>9. Numbers(v1, S) = Numbers(w1, S)
    <3>1. Numbers(r \o c, S) = Numbers(r, S) \o Numbers(c, S)  BY Zenon, <2>1, <2>2, NumbersConcat
    <3>2. Numbers(r \o m, S) = Numbers(r, S) \o Numbers(m, S)  BY Zenon, <2>1, NumbersConcat
    <3> QED  BY Zenon, <2>4, <3>1, <3>2
  <2>v. v1 \in Seq(Messages) /\ w1 \in Seq(Messages)  BY Zenon, <2>7
  <2>t. (((((r \o c) \o <<>>) \o q) \o b) \o msg_rx) \o k = (((v1 \o q) \o b) \o msg_rx) \o k
    BY Zenon, <2>8
  <2>u. ((((r \o m) \o q) \o b) \o msg_rx) \o k = (((w1 \o q) \o b) \o msg_rx) \o k  OBVIOUS
  <2> HIDE DEF v1, w1
  <2> DEFINE v2 == v1 \o q
             w2 == w1 \o q
  <2>10. v2 \in Seq(Messages) /\ w2 \in Seq(Messages) /\ Numbers(v2, S) = Numbers(w2, S)
    <3>1. Alike(S, v1, w1)  BY Zenon, <2>9, <2>v, StayAlike
    <3> QED  BY Zenon, <2>1, <2>v, <3>1, MessagesConcat DEF Alike
  <2> HIDE DEF v2, w2
  <2> DEFINE v3 == v2 \o b
             w3 == w2 \o b
  <2>11. v3 \in Seq(Messages) /\ w3 \in Seq(Messages) /\ Numbers(v3, S) = Numbers(w3, S)
    <3>1. Alike(S, v2, w2)  BY Zenon, <2>10, StayAlike
    <3> QED  BY Zenon, <2>1, <2>10, <3>1, MessagesConcat DEF Alike
  <2> HIDE DEF v3, w3
  <2> DEFINE v4 == v3 \o msg_rx
             w4 == w3 \o msg_rx
  <2>12. v4 \in Seq(Messages) /\ w4 \in Seq(Messages) /\ Numbers(v4, S) = Numbers(w4, S)
    <3>1. Alike(S, v3, w3)  BY Zenon, <2>11, StayAlike
    <3> QED  BY Zenon, <2>1, <2>11, <3>1, MessagesConcat DEF Alike
  <2> HIDE DEF v4, w4
  <2>13. Numbers(v4 \o k, S) = Numbers(w4 \o k, S)
    <3>1. Alike(S, v4, w4)  BY Zenon, <2>12, StayAlike
    <3> QED  BY Zenon, <2>1, <3>1 DEF Alike
  <2> QED  BY Zenon, <2>5, <2>6, <2>t, <2>u, <2>13 DEF S, v4, w4, v3, w3, v2, w2

<1> SUFFICES ASSUME IInv, TryRecvs PROVE IInv'  OBVIOUS
<1>0. TypeOK /\ Placed /\ SessionIsBounded  BY Zenon DEF IInv
<1>1. /\ setup' = setup /\ inp_seqno' = inp_seqno /\ shard_back_log' = shard_back_log
      /\ msg_rx' = msg_rx /\ next_packet_id' = next_packet_id /\ qos0_back_log' = qos0_back_log
      /\ back_log' = back_log /\ qos12_unacks' = qos12_unacks /\ lost' = lost
      /\ miot_rx' = <<>> /\ acked' = acked /\ panicked' = panicked
      /\ connected' = connected /\ live' = live
  BY DEF TryRecvs, session
<1>2. TypeOK'
  <2>1. ASSUME NEW s \in Sources PROVE received[s] \o Select(miot_rx, Of(s, QoS)) \in Seq(Messages)
    <3>1. received[s] \in Seq(Messages) /\ miot_rx \in Seq(Messages)  BY <1>0 DEF TypeOK
    <3>2. Select(miot_rx, Of(s, QoS)) \in Seq(Messages)  BY <3>1, Selected
    <3> QED  BY Zenon, <3>1, <3>2, MessagesConcat
  <2>2. received' \in [Sources -> Seq(Messages)]  BY Zenon, <2>1 DEF TryRecvs
  <2>3. <<>> \in Seq(Messages)  BY EmptySeq
  <2> QED  BY Zenon, <1>0, <1>1, <2>2, <2>3 DEF TypeOK
<1>3. Placed'  BY Zenon, <1>0, <1>1 DEF Placed
<1>4. SessionIsBounded'
  <2>1. Batch \in Nat  BY <1>0, Sizes
  <2>2. Len(<<>>) =< Batch  BY <2>1
  <2>3. Batch' = Batch /\ ChannelSize' = ChannelSize /\ BackLogLimit' = BackLogLimit
    BY Zenon, <1>1 DEF Batch, ChannelSize, BackLogLimit
  <2> QED  BY Zenon, <1>0, <1>1, <2>2, <2>3 DEF SessionIsBounded
<1>5. AckedIsTaken' /\ RoutedAsDocumented' /\ \A s \in Sources : Rising(Waiting(s)')
  BY <1>1, SourcesSame
<1>6. \A s \in Sources : Way(s, QoS0)' = Way(s, QoS0) /\ Way(s, QoS12)' = Way(s, QoS12)
  <2>1. QoS0 \subseteq QoS /\ QoS12 \subseteq QoS  BY DEF QoS0, QoS12, QoS
  <2> QED  BY <1>0, <1>2, <2>1, <1>TryRecvsWay
<1>7. AtLimit => AtLimit'  BY Zenon, <1>1 DEF AtLimit, BackLogLimit, Batch
<1>8. InOrder' /\ Numbered' /\ Conserved'  BY <1>1, <1>2, <1>5, <1>6, <1>7, SameWays
<1> QED  BY Zenon, <1>2, <1>3, <1>4, <1>5, <1>8 DEF IInv

(* What has left a source, for the client.                                 *)
Ahead(s) == ((received[s] \o miot_rx) \o qos0_back_log) \o back_log

(* The way of a source's messages has those that the client's shard has    *)
(* taken, and then those that wait.                                        *)
WaysHaveEnds ==
  \A s \in Sources : \A levels :
    Way(s, levels) = Numbers(Ahead(s), Of(s, levels))
                       \o Numbers(msg_rx \o shard_back_log[s], Of(s, levels))

(* By the order of Way.                                                    *)
LEMMA WaysEnd == TypeOK => WaysHaveEnds
<1> SUFFICES ASSUME TypeOK, NEW s \in Sources, NEW levels
             PROVE  Way(s, levels) = Numbers(Ahead(s), Of(s, levels))
                                       \o Numbers(msg_rx \o shard_back_log[s], Of(s, levels))
  BY Zenon DEF WaysHaveEnds
<1> DEFINE h == Ahead(s)
           S == Of(s, levels)
           k == shard_back_log[s]
<1>1. /\ received[s] \in Seq(Messages) /\ miot_rx \in Seq(Messages)
      /\ qos0_back_log \in Seq(Messages) /\ back_log \in Seq(Messages)
      /\ msg_rx \in Seq(Messages) /\ k \in Seq(Messages)
  BY DEF TypeOK
<1>2. h \in Seq(Messages)  BY Zenon, <1>1, MessagesConcat DEF Ahead
<1>3. Way(s, levels) = Numbers((h \o msg_rx) \o k, S)  BY Zenon DEF Way, Ahead
<1> HIDE DEF h, S, k
<1>4. Three(S)  BY Zenon, ThreeQueues
<1>5. Numbers((h \o msg_rx) \o k, S) = Numbers(h, S) \o Numbers(msg_rx \o k, S)
  <2>1. msg_rx \in Seq(Messages) /\ k \in Seq(Messages)  BY <1>1
  <2> QED  BY Zenon, <1>2, <1>4, <2>1 DEF Three
<1> QED  BY Zenon, <1>3, <1>5 DEF h, S, k

(* It keeps the invariant.                                                 *)
LEMMA SendToShardsStep ==
  IInv => \A o \in Sources : SendToShards(o) => IInv'
(* The same in the next state.                                             *)
<1>WaysEndNext. TypeOK' => WaysHaveEnds'
  <2>1. (TypeOK => WaysHaveEnds)'  BY WaysEnd, PTL
  <2> QED  BY Zenon, <2>1

(* send_to_shards moves messages of a source to the channel, in order.     *)
<1>SentWaits. ASSUME TypeOK, Placed, SessionIsBounded, NEW o \in Sources, SendToShards(o),
                     NEW s \in Sources, NEW levels
              PROVE  Numbers(msg_rx' \o shard_back_log'[s], Of(s, levels))
                       = Numbers(msg_rx \o shard_back_log[s], Of(s, levels))
  <2> USE <1>SentWaits
  <2> DEFINE S == Of(s, levels)
             k == shard_back_log[o]
             a == Sent(msg_rx, ChannelSize, k)
             b == Left(msg_rx, ChannelSize, k)
             m == msg_rx
  <2>1. /\ m \in Seq(Messages) /\ shard_back_log[s] \in Seq(Messages) /\ k \in Seq(Messages)
        /\ shard_back_log \in [Sources -> Seq(Messages)]
    BY DEF TypeOK
  <2>2. ChannelSize \in Nat /\ Len(m) =< ChannelSize  BY Sizes DEF SessionIsBounded
  <2>3. a \in Seq(Messages) /\ b \in Seq(Messages) /\ a \o b = k  BY <2>1, <2>2, Passed
  <2>4. Range(a) \subseteq Of(o, QoS)
    <3>1. Range(a) \cup Range(b) = Range(k)  BY <2>1, <2>2, PassedRange
    <3> QED  BY Zenon, <3>1 DEF Placed
  <2>5. msg_rx' = m \o a /\ shard_back_log' = [shard_back_log EXCEPT ![o] = b]
    BY Zenon DEF SendToShards
  <2> HIDE DEF a, b, m
  <2>6. CASE s = o
    <3>1. shard_back_log'[s] = b  BY Zenon, <2>1, <2>5, <2>6
    <3>2. Assoc(Messages)  BY Zenon, Associative
    <3>3. (m \o a) \o b = m \o (a \o b)  BY Zenon, <2>1, <2>3, <3>2 DEF Assoc
    <3> QED  BY Zenon, <2>3, <2>5, <2>6, <3>1, <3>3 DEF m
  <2>7. CASE s # o
    <3> DEFINE l == shard_back_log[s]
    <3>1. shard_back_log'[s] = l  BY Zenon, <2>1, <2>5, <2>7
    <3>2. Of(o, QoS) \cap S = {}  BY Zenon, <2>7 DEF Of
    <3>3. Numbers(m \o a, S) = Numbers(m, S)
      <4>1. m \in Seq(Messages) /\ a \in Seq(Messages)  BY <2>1, <2>3
      <4> HIDE DEF S
      <4> QED  BY Zenon, <2>4, <3>2, <4>1, OtherLevel
    <3>4. m \o a \in Seq(Messages)  BY Zenon, <2>1, <2>3, MessagesConcat
    <3>5. Alike(S, m \o a, m)  BY Zenon, <2>1, <3>3, <3>4, StayAlike
    <3>6. Numbers((m \o a) \o l, S) = Numbers(m \o l, S)  BY Zenon, <2>1, <3>5 DEF Alike
    <3> QED  BY Zenon, <2>5, <3>1, <3>6 DEF m
  <2> QED  BY Zenon, <2>6, <2>7

<1> SUFFICES ASSUME IInv, NEW o \in Sources, SendToShards(o) PROVE IInv'  OBVIOUS
<1>0. TypeOK /\ Placed /\ SessionIsBounded /\ Numbered /\ AckedIsTaken /\ RoutedAsDocumented
  BY Zenon DEF IInv
<1> DEFINE k == shard_back_log[o]
           a == Sent(msg_rx, ChannelSize, k)
           b == Left(msg_rx, ChannelSize, k)
<1>1. /\ setup' = setup /\ inp_seqno' = inp_seqno /\ received' = received
      /\ next_packet_id' = next_packet_id /\ qos0_back_log' = qos0_back_log
      /\ back_log' = back_log /\ qos12_unacks' = qos12_unacks /\ lost' = lost
      /\ miot_rx' = miot_rx /\ acked' = acked /\ panicked' = panicked
      /\ connected' = connected /\ live' = live
      /\ msg_rx' = msg_rx \o a /\ shard_back_log' = [shard_back_log EXCEPT ![o] = b]
  BY DEF SendToShards, session
<1>2. /\ msg_rx \in Seq(Messages) /\ k \in Seq(Messages)
      /\ shard_back_log \in [Sources -> Seq(Messages)]
  BY <1>0 DEF TypeOK
<1>3. ChannelSize \in Nat /\ Len(msg_rx) =< ChannelSize  BY <1>0, Sizes DEF SessionIsBounded
<1>4. /\ a \in Seq(Messages) /\ b \in Seq(Messages)
      /\ msg_rx \o a \in Seq(Messages) /\ Len(msg_rx \o a) =< ChannelSize
  BY <1>2, <1>3, Passed
<1>5. Range(a) \cup Range(b) = Range(k)  BY <1>2, <1>3, PassedRange
<1>6. Range(msg_rx \o a) = Range(msg_rx) \cup Range(a)  BY <1>2, <1>4, RangeConcatenation
<1> HIDE DEF a, b, k
<1>7. shard_back_log' \in [Sources -> Seq(Messages)]  BY Zenon, <1>1, <1>2, <1>4
<1>8. TypeOK'  BY Zenon, <1>0, <1>1, <1>4, <1>7 DEF TypeOK
<1>9. /\ shard_back_log'[o] = b
      /\ \A s \in Sources : s # o => shard_back_log'[s] = shard_back_log[s]
  BY Zenon, <1>1, <1>2
<1>10. \A s \in Sources : Range(shard_back_log'[s]) \subseteq Range(shard_back_log[s])
  BY Zenon, <1>5, <1>9 DEF k
<1>11. Placed'  BY Zenon, <1>0, <1>1, <1>10 DEF Placed
<1>12. SessionIsBounded'
  BY Zenon, <1>0, <1>1, <1>4 DEF SessionIsBounded, Batch, ChannelSize, BackLogLimit
<1>13. \A s \in Sources : Waiting(s)' = Waiting(s)  BY <1>0, <1>SentWaits DEF Waiting
<1>14. \A s \in Sources : Rising(Waiting(s)')  BY Zenon, <1>0, <1>13 DEF Numbered
<1>15. AckedIsTaken'
  <2> SUFFICES ASSUME NEW s \in Sources, NEW m \in Range(msg_rx' \o shard_back_log'[s]), m.src = s
               PROVE  m.n > acked'[s]
    BY Zenon DEF AckedIsTaken
  <2>1. shard_back_log'[s] \in Seq(Messages) /\ msg_rx' \in Seq(Messages)
        /\ shard_back_log[s] \in Seq(Messages)
    BY Zenon, <1>1, <1>2, <1>4, <1>7
  <2>2. Range(msg_rx' \o shard_back_log'[s]) = Range(msg_rx') \cup Range(shard_back_log'[s])
    BY <2>1, RangeConcatenation
  <2>3. Range(msg_rx \o shard_back_log[s]) = Range(msg_rx) \cup Range(shard_back_log[s])
    BY <1>2, <2>1, RangeConcatenation
  <2>4. m \in Range(msg_rx) \cup Range(shard_back_log[s])
    <3>1. CASE m \in Range(a)
      <4>1. Range(k) \subseteq Of(o, QoS)  BY Zenon, <1>0 DEF Placed, k
      <4>2. m \in Range(k)  BY Zenon, <1>5, <3>1
      <4>3. s = o  BY Zenon, <4>1, <4>2 DEF Of
      <4> QED  BY Zenon, <4>2, <4>3 DEF k
    <3> QED  BY Zenon, <1>1, <1>6, <1>10, <2>2, <3>1
  <2> QED  BY Zenon, <1>0, <1>1, <2>3, <2>4 DEF AckedIsTaken
<1>16. RoutedAsDocumented'
  <2>1. \A s \in Sources : Documented(s, setup, shard_back_log[s])  BY Zenon, <1>0, DocumentedIs
  <2>2. \A s \in Sources : Documented(s, setup', shard_back_log'[s])
    BY Zenon, <1>1, <1>10, <2>1 DEF Documented
  <2> QED  BY Zenon, <2>2, DocumentedNext
<1>17. ASSUME NEW s \in Sources, NEW levels PROVE Way(s, levels)' = Way(s, levels)
  <2>1. Way(s, levels) = Numbers(Ahead(s), Of(s, levels))
                           \o Numbers(msg_rx \o shard_back_log[s], Of(s, levels))
    BY Zenon, <1>0, WaysEnd DEF WaysHaveEnds
  <2>2. Way(s, levels)' = Numbers(Ahead(s)', Of(s, levels))
                            \o Numbers(msg_rx' \o shard_back_log'[s], Of(s, levels))
    BY Zenon, <1>8, <1>WaysEndNext DEF WaysHaveEnds
  <2>3. Ahead(s)' = Ahead(s)  BY Zenon, <1>1 DEF Ahead
  <2>4. Numbers(msg_rx' \o shard_back_log'[s], Of(s, levels))
          = Numbers(msg_rx \o shard_back_log[s], Of(s, levels))
    BY <1>0, <1>SentWaits
  <2> QED  BY Zenon, <2>1, <2>2, <2>3, <2>4
<1>18. AtLimit => AtLimit'  BY Zenon, <1>1 DEF AtLimit, BackLogLimit, Batch
<1>19. \A s \in Sources : Way(s, QoS0)' = Way(s, QoS0) /\ Way(s, QoS12)' = Way(s, QoS12)
  BY Zenon, <1>17
<1>20. InOrder' /\ Numbered' /\ Conserved'  BY <1>1, <1>8, <1>14, <1>18, <1>19, SameWays
<1> QED  BY Zenon, <1>8, <1>11, <1>12, <1>15, <1>16, <1>20 DEF IInv

(* A message behind a queue that is behind another: its number is last, if *)
(* it is one of a set.                                                     *)
PutLast(k, m, v) ==
  \A S : Numbers(v \o Append(k, m), S)
           = IF m \in S THEN Append(Numbers(v \o k, S), m.n) ELSE Numbers(v \o k, S)

(* A source puts a message behind what it has yet to send.                 *)
Puts(o, m) ==
  /\ m \in Of(o, QoS) /\ shard_back_log' = [shard_back_log EXCEPT ![o] = Append(@, m)]
  /\ UNCHANGED <<msg_rx, miot_rx, qos0_back_log, back_log, received>>

(* The message is the last on its way.                                     *)
IsLast(s, o, m) ==
  /\ \A levels : Way(s, levels)' = IF m \in Of(s, levels) THEN Append(Way(s, levels), m.n)
                                   ELSE Way(s, levels)
  /\ Waiting(s)' = IF s = o THEN Append(Waiting(s), m.n) ELSE Waiting(s)

(***************************************************************************)
(* A source publishes.                                                     *)
(***************************************************************************)
(* rx_publish keeps the invariant: what it routes is behind all else.      *)
LEMMA RxPublishStep ==
  IInv => \A o \in Sources : \A p \in setup.publishes[o] : RxPublish(o, p) => IInv'
(* A number above all of a sequence, behind it.                            *)
<1>Topped. ASSUME NEW w \in Seq(Nat), NEW n \in Nat, Rising(w), Range(w) \subseteq 1 .. n
           PROVE  /\ Append(w, n + 1) \in Seq(Nat) /\ Rising(Append(w, n + 1))
                  /\ Range(Append(w, n + 1)) = Range(w) \cup {n + 1}
  <2> USE <1>Topped
  <2> DEFINE b == <<n + 1>>
  <2>0. Append(w, n + 1) \in Seq(Nat) /\ Append(w, n + 1) = w \o b  OBVIOUS
  <2>1. b \in Seq(Nat)  OBVIOUS
  <2>2. DOMAIN b = {1} /\ b[1] = n + 1  OBVIOUS
  <2>3. Range(b) = {n + 1}  BY Zenon, <2>2 DEF Range
  <2>4. Rising(b)  BY <2>2 DEF Rising
  <2> HIDE DEF b
  <2>5. Range(w \o b) = Range(w) \cup Range(b)  BY <2>1, RangeConcatenation
  <2>6. \A x \in Range(w), y \in Range(b) : x < y
    <3>1. \A x \in 1 .. n : x < n + 1  OBVIOUS
    <3> QED  BY Zenon, <2>3, <3>1
  <2>7. Rising(w \o b)  BY <2>1, <2>4, <2>6, RisingParts
  <2> QED  BY Zenon, <2>0, <2>3, <2>5, <2>7

(* By NumbersAppend.                                                       *)
<1>PutBehind.
    \A k \in Seq(Messages), m \in Messages : \A v \in Seq(Messages) : PutLast(k, m, v)
  <2> SUFFICES ASSUME NEW k \in Seq(Messages), NEW m \in Messages, NEW v \in Seq(Messages), NEW S
               PROVE  Numbers(v \o Append(k, m), S)
                        = IF m \in S THEN Append(Numbers(v \o k, S), m.n) ELSE Numbers(v \o k, S)
    BY Zenon DEF PutLast
  <2>1. v \o Append(k, m) = Append(v \o k, m) /\ v \o k \in Seq(Messages)
    <3> DEFINE M == Messages
    <3> HIDE DEF M
    <3>1. v \in Seq(M) /\ k \in Seq(M) /\ m \in M  BY Zenon DEF M
    <3>2. v \o Append(k, m) = Append(v \o k, m) /\ v \o k \in Seq(M)  BY <3>1
    <3> QED  BY Zenon, <3>2 DEF M
  <2> DEFINE w == v \o k
  <2>2. w \in Seq(Messages)  BY <2>1
  <2> HIDE DEF w
  <2>3. Numbers(Append(w, m), S) = IF m \in S THEN Append(Numbers(w, S), m.n) ELSE Numbers(w, S)
    BY Zenon, <2>2, NumbersAppend
  <2> QED  BY Zenon, <2>1, <2>3 DEF w

(* As rx_publish does it.                                                  *)
<1>PublishedIsLast.
    \A o \in Sources : \A m : TypeOK /\ Puts(o, m) => \A s \in Sources : IsLast(s, o, m)
  <2> SUFFICES ASSUME NEW o \in Sources, NEW m, TypeOK, Puts(o, m), NEW s \in Sources
               PROVE  IsLast(s, o, m)
    BY Zenon
  <2> DEFINE v == Ahead(s) \o msg_rx
             k == shard_back_log[s]
  <2>1. /\ received[s] \in Seq(Messages) /\ miot_rx \in Seq(Messages)
        /\ qos0_back_log \in Seq(Messages) /\ back_log \in Seq(Messages)
        /\ msg_rx \in Seq(Messages) /\ k \in Seq(Messages)
        /\ shard_back_log \in [Sources -> Seq(Messages)]
    BY DEF TypeOK
  <2>2. v \in Seq(Messages)  BY Zenon, <2>1, MessagesConcat DEF Ahead
  <2>3. /\ msg_rx' = msg_rx /\ miot_rx' = miot_rx /\ qos0_back_log' = qos0_back_log
        /\ back_log' = back_log /\ received' = received
        /\ shard_back_log' = [shard_back_log EXCEPT ![o] = Append(@, m)] /\ m \in Of(o, QoS)
    BY DEF Puts
  <2>4. \A levels : Way(s, levels) = Numbers(v \o k, Of(s, levels))  BY Zenon DEF Way, Ahead
  <2>5. \A levels : Way(s, levels)' = Numbers(v \o shard_back_log'[s], Of(s, levels))
    BY Zenon, <2>3 DEF Way, Ahead
  <2>6. /\ Waiting(s) = Numbers(msg_rx \o k, Of(s, QoS))
        /\ Waiting(s)' = Numbers(msg_rx \o shard_back_log'[s], Of(s, QoS))
    BY Zenon, <2>3 DEF Waiting
  <2>7. m \in Messages /\ m.src = o  BY Zenon, <2>3 DEF Of
  <2> HIDE DEF v, k
  <2>8. CASE s = o
    <3>1. shard_back_log'[s] = Append(k, m)  BY Zenon, <2>1, <2>3, <2>8 DEF k
    <3>2. PutLast(k, m, v) /\ PutLast(k, m, msg_rx)
      <4>1. /\ k \in Seq(Messages) /\ v \in Seq(Messages) /\ msg_rx \in Seq(Messages)
            /\ m \in Messages
        BY <2>1, <2>2, <2>7
      <4> QED  BY Zenon, <4>1, <1>PutBehind
    <3>3. ASSUME NEW levels
          PROVE  Way(s, levels)' = IF m \in Of(s, levels) THEN Append(Way(s, levels), m.n)
                                   ELSE Way(s, levels)
      <4> DEFINE S == Of(s, levels)
      <4>1. /\ Way(s, levels) = Numbers(v \o k, S)
            /\ Way(s, levels)' = Numbers(v \o Append(k, m), S)
        BY Zenon, <2>4, <2>5, <3>1
      <4> HIDE DEF S
      <4>2. Numbers(v \o Append(k, m), S)
              = IF m \in S THEN Append(Numbers(v \o k, S), m.n) ELSE Numbers(v \o k, S)
        BY Zenon, <3>2 DEF PutLast
      <4> QED  BY Zenon, <4>1, <4>2 DEF S
    <3>4. Waiting(s)' = Append(Waiting(s), m.n)
      BY Zenon, <2>3, <2>6, <2>8, <3>1, <3>2 DEF PutLast
    <3> QED  BY Zenon, <2>8, <3>3, <3>4 DEF IsLast
  <2>9. CASE s # o
    <3>1. shard_back_log'[s] = k  BY Zenon, <2>1, <2>3, <2>9 DEF k
    <3>2. \A levels : m \notin Of(s, levels)  BY Zenon, <2>7, <2>9 DEF Of
    <3> QED  BY Zenon, <2>4, <2>5, <2>6, <2>9, <3>1, <3>2 DEF IsLast
  <2> QED  BY Zenon, <2>8, <2>9

(* A number above all of both levels, on one of them.                      *)
<1>GrowthKeepsOrder.
    ASSUME NEW s, OrderlyOf(s), inp_seqno[s] \in Nat, inp_seqno'[s] = inp_seqno[s] + 1,
           Way(s, QoS0) \in Seq(Nat), Way(s, QoS12) \in Seq(Nat),
           \/ Way(s, QoS0)' = Append(Way(s, QoS0), inp_seqno'[s]) /\ Way(s, QoS12)' = Way(s, QoS12)
           \/ Way(s, QoS0)' = Way(s, QoS0) /\ Way(s, QoS12)' = Append(Way(s, QoS12), inp_seqno'[s])
           \/ Way(s, QoS0)' = Way(s, QoS0) /\ Way(s, QoS12)' = Way(s, QoS12)
    PROVE  OrderlyOf(s)'
  <2> USE <1>GrowthKeepsOrder
  <2> DEFINE n == inp_seqno[s]
             a == Way(s, QoS0)
             b == Way(s, QoS12)
  <2>1. /\ n \in Nat /\ a \in Seq(Nat) /\ b \in Seq(Nat) /\ Rising(a) /\ Rising(b)
        /\ Range(a) \subseteq 1 .. n /\ Range(b) \subseteq 1 .. n /\ Range(a) \cap Range(b) = {}
        /\ inp_seqno'[s] = n + 1
    BY Zenon DEF OrderlyOf
  <2> HIDE DEF n, a, b
  <2>2. 1 .. n \subseteq 1 .. n + 1 /\ n + 1 \in 1 .. n + 1 /\ n + 1 \notin 1 .. n  BY <2>1
  <2>3. /\ Rising(Append(a, n + 1)) /\ Range(Append(a, n + 1)) = Range(a) \cup {n + 1}
        /\ Rising(Append(b, n + 1)) /\ Range(Append(b, n + 1)) = Range(b) \cup {n + 1}
    BY <2>1, <1>Topped
  <2>4. CASE Way(s, QoS0)' = Append(a, n + 1) /\ Way(s, QoS12)' = b
    BY Zenon, <2>1, <2>2, <2>3, <2>4 DEF OrderlyOf
  <2>5. CASE Way(s, QoS0)' = a /\ Way(s, QoS12)' = Append(b, n + 1)
    BY Zenon, <2>1, <2>2, <2>3, <2>5 DEF OrderlyOf
  <2>6. CASE Way(s, QoS0)' = a /\ Way(s, QoS12)' = b
    BY Zenon, <2>1, <2>2, <2>6 DEF OrderlyOf
  <2> QED  BY Zenon, <2>1, <2>4, <2>5, <2>6 DEF a, b

(* A number more, or one that is skipped.                                  *)
<1>GrowthKeepsMessages.
    ASSUME NEW s, ConservedOf(s), inp_seqno[s] \in Nat, inp_seqno'[s] = inp_seqno[s] + 1,
           Lost(s)' = Lost(s), setup' = setup, AtLimit => AtLimit',
           \/ Range(Way(s, QoS)') = Range(Way(s, QoS)) \cup {inp_seqno'[s]}
           \/ Skips(s) /\ Way(s, QoS)' = Way(s, QoS)
    PROVE  ConservedOf(s)'
  <2> USE <1>GrowthKeepsMessages
  <2> DEFINE n == inp_seqno[s]
             R == Range(Way(s, QoS))
             D == Lost(s)
  <2>1. /\ R \cap D = {} /\ (D # {} => AtLimit) /\ R \cup D \subseteq 1 .. n
        /\ (~Skips(s) => R \cup D = 1 .. n)
        /\ inp_seqno'[s] = n + 1 /\ n \in Nat
    BY Zenon DEF ConservedOf
  <2>2. Skips(s)' <=> Skips(s)  BY Zenon DEF Skips
  <2> HIDE DEF n, R, D
  <2>3. 1 .. n + 1 = (1 .. n) \cup {n + 1} /\ n + 1 \notin 1 .. n  BY <2>1
  <2>4. Lost(s)' = D  BY Zenon DEF D
  <2>5. CASE Range(Way(s, QoS)') = R \cup {n + 1}
    <3>1. Range(Way(s, QoS)') \cap D = {}  BY Zenon, <2>1, <2>3, <2>5
    <3>2. Range(Way(s, QoS)') \cup D \subseteq 1 .. n + 1  BY Zenon, <2>1, <2>3, <2>5
    <3>3. ~Skips(s) => Range(Way(s, QoS)') \cup D = 1 .. n + 1  BY Zenon, <2>1, <2>3, <2>5
    <3> QED  BY Zenon, <2>1, <2>2, <2>4, <3>1, <3>2, <3>3 DEF ConservedOf
  <2>6. CASE Skips(s) /\ Way(s, QoS)' = Way(s, QoS)
    BY Zenon, <2>1, <2>2, <2>3, <2>4, <2>6 DEF ConservedOf, R
  <2> QED  BY Zenon, <2>1, <2>5, <2>6 DEF R

(* The ways of the sources when one publishes.                             *)
<1>PublishWays.
    ASSUME IInv, NEW o \in Sources, NEW p \in setup.publishes[o], RxPublish(o, p),
           NEW s \in Sources
    PROVE  OrderlyOf(s)' /\ Rising(Waiting(s)') /\ (ConservedOf(s) => ConservedOf(s)')
  <2> USE <1>PublishWays
  <2>0. TypeOK /\ InOrder /\ Numbered  BY Zenon DEF IInv
  <2>1. /\ setup' = setup /\ msg_rx' = msg_rx /\ miot_rx' = miot_rx /\ received' = received
        /\ qos0_back_log' = qos0_back_log /\ back_log' = back_log /\ lost' = lost
        /\ qos12_unacks' = qos12_unacks
    BY DEF RxPublish, session
  <2>2. OrderlyOf(s) /\ Rising(Waiting(s)) /\ inp_seqno[s] \in Nat
    BY Zenon, <2>0, OrderlyIs DEF TypeOK
  <2>3. Lost(s)' = Lost(s) /\ (AtLimit => AtLimit')
    BY Zenon, <2>1 DEF Lost, AtLimit, BackLogLimit, Batch
  <2>4. /\ inp_seqno'[o] = inp_seqno[o] + 1
        /\ \A x \in Sources : x # o => inp_seqno'[x] = inp_seqno[x]
        /\ \/ Skips(o) /\ shard_back_log' = shard_back_log
           \/ \E m \in Of(o, QoS) :
                /\ m.n = inp_seqno'[o]
                /\ shard_back_log' = [shard_back_log EXCEPT ![o] = Append(@, m)]
    BY Zenon, <2>0, PublishDoes DEF Published
  <2>5. Way(s, QoS0) \in Seq(Nat) /\ Way(s, QoS12) \in Seq(Nat) /\ Way(s, QoS) \in Seq(Nat)
    BY <2>0, WayTyped
  <2>6. ASSUME s # o, \A levels : Way(s, levels)' = Way(s, levels), Waiting(s)' = Waiting(s)
        PROVE  OrderlyOf(s)' /\ Rising(Waiting(s)') /\ (ConservedOf(s) => ConservedOf(s)')
    <3>1. inp_seqno'[s] = inp_seqno[s]  BY Zenon, <2>4, <2>6
    <3>2. Skips(s)' <=> Skips(s)  BY Zenon, <2>1 DEF Skips
    <3>3. /\ Way(s, QoS0)' = Way(s, QoS0) /\ Way(s, QoS12)' = Way(s, QoS12)
          /\ Way(s, QoS)' = Way(s, QoS)
      BY Zenon, <2>6
    <3>4. OrderlyOf(s)'  BY Zenon, <2>2, <3>1, <3>3 DEF OrderlyOf
    <3>5. ConservedOf(s) => ConservedOf(s)'  BY Zenon, <2>3, <3>1, <3>2, <3>3 DEF ConservedOf
    <3>6. Rising(Waiting(s)')  BY Zenon, <2>2, <2>6
    <3> QED  BY Zenon, <3>4, <3>5, <3>6
  <2>7. CASE Skips(o) /\ shard_back_log' = shard_back_log
    <3>1. (\A levels : Way(s, levels)' = Way(s, levels)) /\ Waiting(s)' = Waiting(s)
      BY Zenon, <2>1, <2>7 DEF Way, Waiting
    <3>2. CASE s = o
      <4>1. OrderlyOf(s)'
        <5>1. inp_seqno'[s] = inp_seqno[s] + 1  BY Zenon, <2>4, <3>2
        <5>2. Way(s, QoS0)' = Way(s, QoS0) /\ Way(s, QoS12)' = Way(s, QoS12)  BY Zenon, <3>1
        <5> QED  BY <2>2, <2>5, <5>1, <5>2, <1>GrowthKeepsOrder
      <4>2. ASSUME ConservedOf(s) PROVE ConservedOf(s)'
        <5>1. inp_seqno'[s] = inp_seqno[s] + 1 /\ Skips(s)  BY Zenon, <2>4, <2>7, <3>2
        <5>2. Way(s, QoS)' = Way(s, QoS)  BY Zenon, <3>1
        <5> QED  BY <2>1, <2>2, <2>3, <4>2, <5>1, <5>2, <1>GrowthKeepsMessages
      <4> QED  BY Zenon, <2>2, <3>1, <4>1, <4>2
    <3> QED  BY Zenon, <2>6, <3>1, <3>2
  <2>8. ASSUME NEW m \in Of(o, QoS), m.n = inp_seqno'[o],
               shard_back_log' = [shard_back_log EXCEPT ![o] = Append(@, m)]
        PROVE  OrderlyOf(s)' /\ Rising(Waiting(s)') /\ (ConservedOf(s) => ConservedOf(s)')
    <3>1. /\ \A levels : Way(s, levels)' = IF m \in Of(s, levels) THEN Append(Way(s, levels), m.n)
                                           ELSE Way(s, levels)
          /\ Waiting(s)' = IF s = o THEN Append(Waiting(s), m.n) ELSE Waiting(s)
      <4>1. Puts(o, m)  BY <2>1, <2>8 DEF Puts
      <4> QED  BY Zenon, <2>0, <4>1, <1>PublishedIsLast DEF IsLast
    <3>2. CASE s # o
      <4>1. \A levels : m \notin Of(s, levels)  BY Zenon, <3>2 DEF Of
      <4> QED  BY Zenon, <2>6, <3>1, <3>2, <4>1
    <3>3. CASE s = o
      <4> DEFINE n == inp_seqno[s]
      <4>1. n \in Nat /\ inp_seqno'[s] = n + 1 /\ m.n = n + 1  BY Zenon, <2>2, <2>4, <2>8, <3>3
      <4>2. \/ m \in Of(s, QoS0) /\ m \notin Of(s, QoS12)
            \/ m \in Of(s, QoS12) /\ m \notin Of(s, QoS0)
        <5>1. m \in Messages /\ m.src = s /\ m.qos \in QoS  BY Zenon, <2>8, <3>3 DEF Of
        <5>2. \/ m.qos \in QoS0 /\ m.qos \notin QoS12
              \/ m.qos \in QoS12 /\ m.qos \notin QoS0
          BY <5>1 DEF QoS, QoS0, QoS12
        <5> QED  BY Zenon, <5>1, <5>2 DEF Of
      <4>3. OrderlyOf(s)'
        <5>1. \/ Way(s, QoS0)' = Append(Way(s, QoS0), n + 1) /\ Way(s, QoS12)' = Way(s, QoS12)
              \/ Way(s, QoS0)' = Way(s, QoS0) /\ Way(s, QoS12)' = Append(Way(s, QoS12), n + 1)
          BY Zenon, <3>1, <4>1, <4>2
        <5> QED  BY <2>2, <2>5, <4>1, <5>1, <1>GrowthKeepsOrder
      <4>4. Way(s, QoS)' = Append(Way(s, QoS), n + 1)  BY Zenon, <2>8, <3>1, <3>3, <4>1
      <4>5. ASSUME ConservedOf(s) PROVE ConservedOf(s)'
        <5> DEFINE w == Way(s, QoS)
        <5>1. Range(Append(w, n + 1)) = Range(w) \cup {n + 1}
          <6> HIDE DEF n, w
          <6>1. w \in Seq(Nat) /\ n + 1 \in Nat  BY <2>5, <4>1 DEF w
          <6> QED  BY <6>1, RangeAppend
        <5>2. Range(Way(s, QoS)') = Range(Way(s, QoS)) \cup {inp_seqno'[s]}
          BY Zenon, <4>1, <4>4, <5>1
        <5> QED  BY <2>1, <2>2, <2>3, <4>1, <4>5, <5>2, <1>GrowthKeepsMessages
      <4>6. Rising(Waiting(s)')
        <5> DEFINE w == Waiting(s)
                   h == Numbers(Ahead(s), Of(s, QoS))
        <5>1. Way(s, QoS) = h \o w  BY Zenon, <2>0, WaysEnd DEF WaysHaveEnds, Waiting
        <5>2. Range(Way(s, QoS)) \subseteq 1 .. n
          <6>1. Range(Way(s, QoS)) = Range(Way(s, QoS0)) \cup Range(Way(s, QoS12))
            BY Zenon, <2>0, LevelsAreAll DEF WayOfLevels
          <6> QED  BY Zenon, <2>2, <6>1 DEF OrderlyOf
        <5>3. w \in Seq(Nat) /\ h \in Seq(Nat)
          <6>1. /\ received[s] \in Seq(Messages) /\ miot_rx \in Seq(Messages)
                /\ qos0_back_log \in Seq(Messages) /\ back_log \in Seq(Messages)
                /\ msg_rx \in Seq(Messages) /\ shard_back_log[s] \in Seq(Messages)
            BY <2>0 DEF TypeOK
          <6> QED  BY Zenon, <6>1, MessagesConcat, NumbersTyped DEF Waiting, Ahead
        <5> HIDE DEF w, h
        <5>4. Range(h \o w) = Range(h) \cup Range(w)  BY <5>3, RangeConcatenation
        <5>5. Range(w) \subseteq 1 .. n  BY Zenon, <5>1, <5>2, <5>4
        <5>6. Rising(w)  BY Zenon, <2>2 DEF w
        <5> HIDE DEF n
        <5>7. Rising(Append(w, n + 1))  BY <4>1, <5>3, <5>5, <5>6, <1>Topped
        <5> QED  BY Zenon, <3>1, <3>3, <4>1, <5>7 DEF w
      <4> QED  BY Zenon, <4>3, <4>5, <4>6
    <3> QED  BY Zenon, <3>2, <3>3
  <2> QED  BY Zenon, <2>4, <2>7, <2>8

<1> SUFFICES ASSUME IInv, NEW o \in Sources, NEW p \in setup.publishes[o], RxPublish(o, p)
             PROVE  IInv'
  OBVIOUS
<1>0. /\ TypeOK /\ Placed /\ SessionIsBounded /\ Numbered /\ InOrder /\ Conserved
      /\ AckedIsTaken /\ RoutedAsDocumented
  BY Zenon DEF IInv
<1>1. /\ setup' = setup /\ received' = received /\ msg_rx' = msg_rx
      /\ next_packet_id' = next_packet_id /\ qos0_back_log' = qos0_back_log
      /\ back_log' = back_log /\ qos12_unacks' = qos12_unacks /\ lost' = lost
      /\ miot_rx' = miot_rx /\ acked' = acked /\ panicked' = panicked
      /\ connected' = connected /\ live' = live
  BY DEF RxPublish, session
<1>2. /\ inp_seqno'[o] = inp_seqno[o] + 1 /\ inp_seqno' \in [Sources -> Nat]
      /\ \A s \in Sources : s # o => inp_seqno'[s] = inp_seqno[s]
      /\ \/ Skips(o) /\ shard_back_log' = shard_back_log
         \/ \E m \in Of(o, QoS) :
              /\ m.n = inp_seqno'[o] /\ Documented(o, setup, <<m>>)
              /\ shard_back_log' = [shard_back_log EXCEPT ![o] = Append(@, m)]
  BY Zenon, <1>0, PublishDoes DEF Published
<1>3. shard_back_log \in [Sources -> Seq(Messages)] /\ msg_rx \in Seq(Messages)
  BY <1>0 DEF TypeOK
<1>4. \A s \in Sources : acked[s] \in Nat /\ inp_seqno[s] \in Nat /\ acked[s] =< inp_seqno[s]
  BY Zenon, <1>0 DEF TypeOK, Numbered
(* What holds of every source's back log.                                  *)
<1>5. ASSUME NEW s \in Sources
      PROVE  /\ shard_back_log'[s] \in Seq(Messages)
             /\ \A x \in Range(shard_back_log'[s]) : x \in Range(shard_back_log[s])
                                                     \/ (s = o /\ x.n = inp_seqno'[o])
             /\ Range(shard_back_log'[s]) \subseteq Of(s, QoS)
             /\ Documented(s, setup, shard_back_log'[s])
  <2>1. Range(shard_back_log[s]) \subseteq Of(s, QoS)  BY Zenon, <1>0 DEF Placed
  <2>2. Documented(s, setup, shard_back_log[s])  BY Zenon, <1>0, DocumentedIs
  <2>3. CASE shard_back_log'[s] = shard_back_log[s]  BY Zenon, <1>3, <2>1, <2>2, <2>3
  <2>4. ASSUME s = o, NEW m \in Of(o, QoS), m.n = inp_seqno'[o], Documented(o, setup, <<m>>),
               shard_back_log' = [shard_back_log EXCEPT ![o] = Append(@, m)]
        PROVE  /\ shard_back_log'[s] \in Seq(Messages)
               /\ \A x \in Range(shard_back_log'[s]) : x \in Range(shard_back_log[s])
                                                       \/ (s = o /\ x.n = inp_seqno'[o])
               /\ Range(shard_back_log'[s]) \subseteq Of(s, QoS)
               /\ Documented(s, setup, shard_back_log'[s])
    <3> DEFINE k == shard_back_log[s]
    <3>1. shard_back_log'[s] = Append(k, m)  BY Zenon, <1>3, <2>4
    <3>2. k \in Seq(Messages) /\ m \in Messages  BY Zenon, <1>3, <2>4 DEF Of
    <3>3. Append(k, m) \in Seq(Messages) /\ Range(Append(k, m)) = Range(k) \cup {m}
      <4> DEFINE M == Messages
      <4> HIDE DEF M, k
      <4>1. k \in Seq(M) /\ m \in M  BY Zenon, <3>2 DEF M
      <4>2. Append(k, m) \in Seq(M)  BY <4>1
      <4>3. Range(Append(k, m)) = Range(k) \cup {m}  BY <4>1, RangeAppend
      <4> QED  BY Zenon, <4>2, <4>3 DEF M
    <3>4. m \in Range(<<m>>)
      <4>1. DOMAIN <<m>> = {1} /\ <<m>>[1] = m  BY SMT
      <4> QED  BY Zenon, <4>1 DEF Range
    <3> HIDE DEF k
    <3>5. Documented(s, setup, Append(k, m))
      <4>1. Documented(s, setup, k)  BY Zenon, <2>2 DEF k
      <4> QED  BY Zenon, <2>4, <3>3, <3>4, <4>1 DEF Documented
    <3>6. Range(Append(k, m)) \subseteq Of(s, QoS)  BY Zenon, <2>1, <2>4, <3>3 DEF k
    <3>7. \A x \in Range(Append(k, m)) : x \in Range(k) \/ (s = o /\ x.n = inp_seqno'[o])
      BY Zenon, <2>4, <3>3
    <3> QED  BY Zenon, <3>1, <3>3, <3>5, <3>6, <3>7 DEF k
  <2>5. CASE s # o
    <3>1. shard_back_log'[s] = shard_back_log[s]  BY Zenon, <1>2, <1>3, <2>5
    <3> QED  BY Zenon, <2>3, <3>1
  <2>6. CASE Skips(o) /\ shard_back_log' = shard_back_log
    <3>1. shard_back_log'[s] = shard_back_log[s]  BY Zenon, <2>6
    <3> QED  BY Zenon, <2>3, <3>1
  <2> QED  BY Zenon, <1>2, <2>4, <2>5, <2>6
<1>6. TypeOK'
  <2>1. shard_back_log' \in [Sources -> Seq(Messages)]
    <3>1. \E f : DOMAIN f = Sources /\ shard_back_log' = f
      BY Zenon, <1>2, <1>3
    <3>2. shard_back_log' = [s \in Sources |-> shard_back_log'[s]]
      BY Zenon, <1>2, <1>3
    <3> QED  BY Zenon, <1>5, <3>2
  <2> QED  BY Zenon, <1>0, <1>1, <1>2, <2>1 DEF TypeOK
<1>7. Placed'  BY Zenon, <1>0, <1>1, <1>5 DEF Placed
<1>8. SessionIsBounded'
  BY Zenon, <1>0, <1>1 DEF SessionIsBounded, Batch, ChannelSize, BackLogLimit
<1>9. RoutedAsDocumented'
  <2>1. \A s \in Sources : Documented(s, setup', shard_back_log'[s])  BY Zenon, <1>1, <1>5
  <2> QED  BY Zenon, <2>1, DocumentedNext
<1>10. AckedIsTaken'
  <2> SUFFICES ASSUME NEW s \in Sources, NEW m \in Range(msg_rx' \o shard_back_log'[s]), m.src = s
               PROVE  m.n > acked'[s]
    BY Zenon DEF AckedIsTaken
  <2>1. shard_back_log'[s] \in Seq(Messages) /\ shard_back_log[s] \in Seq(Messages)
    BY Zenon, <1>3, <1>5
  <2>2. /\ Range(msg_rx \o shard_back_log'[s]) = Range(msg_rx) \cup Range(shard_back_log'[s])
        /\ Range(msg_rx \o shard_back_log[s]) = Range(msg_rx) \cup Range(shard_back_log[s])
    BY <1>3, <2>1, RangeConcatenation
  <2>3. CASE m \in Range(msg_rx \o shard_back_log[s])  BY Zenon, <1>0, <1>1, <2>3 DEF AckedIsTaken
  <2>4. CASE s = o /\ m.n = inp_seqno'[o]
    <3>1. m.n = inp_seqno[s] + 1  BY Zenon, <1>2, <2>4
    <3>2. acked[s] \in Nat /\ inp_seqno[s] \in Nat /\ acked[s] =< inp_seqno[s]  BY Zenon, <1>4
    <3>3. m.n > acked[s]  BY <3>1, <3>2
    <3> QED  BY Zenon, <1>1, <3>3
  <2> QED  BY Zenon, <1>1, <1>5, <2>2, <2>3, <2>4
<1>11. ASSUME NEW s \in Sources
       PROVE  OrderlyOf(s)' /\ Rising(Waiting(s)') /\ (ConservedOf(s) => ConservedOf(s)')
  BY <1>PublishWays
<1>12. InOrder' /\ Numbered'
  <2>1. ASSUME NEW s \in Sources PROVE acked'[s] =< inp_seqno'[s]
    <3>1. acked[s] \in Nat /\ inp_seqno[s] \in Nat /\ acked[s] =< inp_seqno[s]  BY Zenon, <1>4
    <3>2. inp_seqno'[s] = inp_seqno[s] \/ inp_seqno'[s] = inp_seqno[s] + 1  BY Zenon, <1>2
    <3>3. acked[s] =< inp_seqno'[s]  BY <3>1, <3>2
    <3> QED  BY Zenon, <1>1, <3>3
  <2> QED  BY Zenon, <1>11, <2>1, OrderlyNext
<1>13. Conserved'
  <2>1. ~panicked => \A s \in Sources : ConservedOf(s)  BY Zenon, <1>0, ConservedIs
  <2>2. ~panicked' => \A s \in Sources : ConservedOf(s)'  BY Zenon, <1>1, <1>11, <2>1
  <2> QED  BY Zenon, <2>2, ConservedNext
<1> QED  BY Zenon, <1>6, <1>7, <1>8, <1>9, <1>10, <1>12, <1>13 DEF IInv

(***************************************************************************)
(* The theorems.                                                           *)
(***************************************************************************)
(* The invariant holds of an idle shard with a new session.                *)
LEMMA Initially == Init => IInv
<1> SUFFICES ASSUME Init PROVE IInv  OBVIOUS
<1>1. <<>> \in Seq(Messages) /\ 0 \in Nat  OBVIOUS
<1>2. /\ \A s \in Sources : /\ inp_seqno[s] = 0 /\ acked[s] = 0
                            /\ shard_back_log[s] = <<>> /\ received[s] = <<>>
      /\ msg_rx = <<>> /\ miot_rx = <<>> /\ qos0_back_log = <<>> /\ back_log = <<>>
      /\ qos12_unacks = {} /\ lost = {}
  BY Zenon DEF Init
<1>3. TypeOK
  <2>1. /\ inp_seqno \in [Sources -> Nat] /\ acked \in [Sources -> Nat]
        /\ shard_back_log \in [Sources -> Seq(Messages)]
        /\ received \in [Sources -> Seq(Messages)]
    BY Zenon, <1>1 DEF Init
  <2>2. next_packet_id \in 0 .. IdSpace - 1  BY DeliveryAssumption DEF Init
  <2>3. IsFiniteSet({})  BY FS_EmptySet
  <2>4. {connected, live, panicked} \subseteq BOOLEAN  BY Zenon DEF Init
  <2> QED  BY Zenon, <1>1, <1>2, <2>1, <2>2, <2>3, <2>4 DEF TypeOK, Init
<1>4. Placed  BY Zenon, <1>2, RangeEmpty DEF Placed
<1>5. <<>> \o <<>> = <<>> /\ Len(<<>>) = 0 /\ Rising(<<>>)  BY DEF Rising
<1>6. ASSUME NEW s \in Sources
      PROVE  (\A levels : Way(s, levels) = <<>>) /\ Waiting(s) = <<>>
  BY Zenon, <1>2, <1>5, NumbersEmpty DEF Way, Waiting
<1>7. InOrder  BY Zenon, <1>5, <1>6 DEF InOrder
<1>8. Numbered
  <2>1. 0 =< 0  OBVIOUS
  <2> QED  BY Zenon, <1>2, <1>5, <1>6, <2>1, RangeEmpty DEF Numbered
<1>9. Conserved
  <2> SUFFICES ASSUME NEW s \in Sources PROVE ConservedOf(s)  BY Zenon, ConservedIs
  <2>1. Range(Way(s, QoS)) = {} /\ Lost(s) = {}  BY Zenon, <1>2, <1>6, RangeEmpty DEF Lost
  <2>2. 1 .. inp_seqno[s] = {}
    <3>1. inp_seqno[s] = 0  BY Zenon, <1>2
    <3> QED  BY <3>1
  <2> QED  BY Zenon, <2>1, <2>2 DEF ConservedOf
<1>10. SessionIsBounded
  <2>1. /\ Batch \in Nat \ {0} /\ ChannelSize \in Nat /\ BackLogLimit \in Nat
        /\ setup.receive_max \in Nat \ {0}
    BY <1>3, Sizes
  <2>2. Cardinality({}) = 0  BY FS_EmptySet
  <2> QED  BY <1>2, <1>5, <2>1, <2>2 DEF SessionIsBounded
<1>11. AckedIsTaken /\ RoutedAsDocumented
  BY Zenon, <1>2, <1>5, RangeEmpty DEF AckedIsTaken, RoutedAsDocumented
<1> QED  BY Zenon, <1>3, <1>4, <1>7, <1>8, <1>9, <1>10, <1>11 DEF IInv

(* Every step keeps it.                                                    *)
LEMMA Inductive == IInv /\ [Next]_vars => IInv'
<1> SUFFICES ASSUME IInv, [Next]_vars PROVE IInv'  OBVIOUS
<1>1. ASSUME NEW s \in Sources, NEW p \in setup.publishes[s], RxPublish(s, p) PROVE IInv'
  BY Zenon, <1>1, RxPublishStep
<1>2. ASSUME NEW s \in Sources, SendToShards(s) PROVE IInv'
  BY Zenon, <1>2, SendToShardsStep
<1>3. CASE Turn  BY Zenon, <1>3, TurnStep
<1>4. connected \in BOOLEAN /\ live \in BOOLEAN /\ TRUE \in BOOLEAN /\ FALSE \in BOOLEAN
  BY Zenon DEF IInv, TypeOK
<1>5. CASE ConnectionFails
  <2>1. /\ connected' \in BOOLEAN /\ live' \in BOOLEAN
        /\ UNCHANGED <<setup, inp_seqno, shard_back_log, msg_rx, session, miot_rx, received,
                       acked, panicked>>
    BY Zenon, <1>4, <1>5 DEF ConnectionFails
  <2> QED  BY <2>1, ConnectionStep
<1>6. CASE HandleFlushConnection
  <2>1. /\ connected' \in BOOLEAN /\ live' \in BOOLEAN
        /\ UNCHANGED <<setup, inp_seqno, shard_back_log, msg_rx, session, miot_rx, received,
                       acked, panicked>>
    BY Zenon, <1>4, <1>6 DEF HandleFlushConnection
  <2> QED  BY <2>1, ConnectionStep
<1>7. CASE TryRecvs  BY Zenon, <1>7, TryRecvsStep
<1>8. CASE UNCHANGED vars
  <2>1. /\ connected' \in BOOLEAN /\ live' \in BOOLEAN
        /\ UNCHANGED <<setup, inp_seqno, shard_back_log, msg_rx, session, miot_rx, received,
                       acked, panicked>>
    BY Zenon, <1>4, <1>8 DEF vars
  <2> QED  BY <2>1, ConnectionStep
<1> QED  BY Zenon, <1>1, <1>2, <1>3, <1>5, <1>6, <1>7, <1>8 DEF Next

(* The invariant holds in every state.                                     *)
THEOREM Invariance == Spec => []IInv
BY Initially, Inductive, PTL DEF Spec

(* Messages of a publisher's shard at one level of QoS reach the client in *)
(* the order and as often as they were routed, for all limits, batch sizes *)
(* and numbers of shards: out_qos0 and out_qos_active put what a full      *)
(* queue does not take back in front.                                      *)
THEOREM DeliveredInOrder == Spec => []InOrder
<1>1. IInv => InOrder  BY Zenon DEF IInv
<1> QED  BY Invariance, <1>1, PTL

(* Every message that was routed is on its way, was received or was        *)
(* dropped at a limit of the session; send_to_shards and the session's     *)
(* queues lose none when they are full.                                    *)
THEOREM NothingDisappears == Spec => []Conserved
<1>1. IInv => Conserved  BY Zenon DEF IInv
<1> QED  BY Invariance, <1>1, PTL

(* The back logs, the channel, the queue and the unacknowledged messages   *)
(* of a session never exceed their limits by more than a turn's messages.  *)
THEOREM BoundedSession == Spec => []SessionIsBounded
<1>1. IInv => SessionIsBounded  BY Zenon DEF IInv
<1> QED  BY Invariance, <1>1, PTL

(* A LocalAck of return_local_acks never covers a message that has not     *)
(* been taken by the client's shard.                                       *)
THEOREM AcksAreOfTaken == Spec => []AckedIsTaken
<1>1. IInv => AckedIsTaken  BY Zenon DEF IInv
<1> QED  BY Invariance, <1>1, PTL

(* match_subscribers, route_qos and new_routed make the message that the   *)
(* comment on match_subscribers promises, for every sequence of            *)
(* subscriptions that match.                                               *)
THEOREM DocumentedRouting == Spec => []RoutedAsDocumented
<1>1. IInv => RoutedAsDocumented  BY Zenon DEF IInv
<1> QED  BY Invariance, <1>1, PTL
=============================================================================

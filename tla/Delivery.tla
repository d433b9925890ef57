------------------------------- MODULE Delivery -------------------------------
(***************************************************************************)
(* Delivery of PUBLISH to one client: sessions on other shards match a     *)
(* PUBLISH against the client's subscriptions and route one message to the *)
(* client's shard; a turn of that shard takes the messages from its        *)
(* channel and hands them to the client's session; the session passes them *)
(* to the miot thread within the limits of its back logs and of the        *)
(* client.                                                                 *)
(*                                                                         *)
(* The module is about the receiving side.  Of the routing side it has     *)
(* what becomes of the message: the bookkeeping for acknowledgements       *)
(* (book_index, book_routed_timestamps) panics the first time it is        *)
(* called, and the properties are what the rest promises beyond it.        *)
(* Nothing leaves qos12_unacks, since handle_packets is todo!() for the    *)
(* packets that would acknowledge a message.                               *)
(***************************************************************************)
EXTENDS Naturals, Sequences, FiniteSets, FiniteSetsExt, Functions, QueueOps

CONSTANTS
  Sources,  \* shards whose sessions publish to the client
  Setups,   \* the configurations and workloads that are looked at
  MaxQoS,   \* mqtt_maximum_qos
  IdSpace   \* number of values of a PacketID

QoS == 0 .. 2
Subscriptions == [qos : QoS, no_local : BOOLEAN, rap : BOOLEAN]
Publishes == [qos : QoS, retain : BOOLEAN, own : BOOLEAN]

(* A message has no packet identifier until into_packet gives it one.      *)
NoId == IdSpace
Messages ==
  [src : Sources, n : Nat, qos : QoS, retain : BOOLEAN, ack_needed : BOOLEAN,
   packet_id : 0 .. NoId]

(* mqtt_pkt_batch_size and mqtt_receive_maximum; and for each source, the  *)
(* subscriptions of the client that its topic matches, what it publishes,  *)
(* and how often (a bound).                                                *)
Setup(c) ==
  /\ c.batch \in Nat \ {0} /\ c.receive_max \in Nat \ {0}
  /\ \A s \in Sources : /\ c.messages[s] \in Nat
                       /\ c.matches[s] \in Seq(Subscriptions) \ {<<>>}
                       /\ c.publishes[s] \subseteq Publishes

ASSUME DeliveryAssumption ==
  /\ IsFiniteSet(Sources)
  /\ MaxQoS \in QoS /\ IdSpace \in Nat \ {0, 1}
  /\ \A c \in Setups : Setup(c)

VARIABLES
  setup,           \* one of Setups
  inp_seqno,       \* source -> messages it has published so far
  shard_back_log,  \* source -> messages it has yet to send
  msg_rx,          \* the channel of the client's shard
  connected,       \* the miot thread has the connection
  live,            \* the shard has the session
  next_packet_id, qos0_back_log, back_log, qos12_unacks,
  lost,            \* messages the session was given and did not keep
  miot_rx,         \* the session's queue to the miot thread
  received,        \* source -> what was taken from that queue, in order
  acked,           \* source -> the last LocalAck it was sent
  panicked

session == <<next_packet_id, qos0_back_log, back_log, qos12_unacks, lost>>
vars == <<setup, inp_seqno, shard_back_log, msg_rx, connected, live, session, miot_rx,
          received, acked, panicked>>

(* Shard::spawn_active: the channel holds a batch for every shard.         *)
Batch == setup.batch
ChannelSize == Batch * (Cardinality(Sources) + 1)
BackLogLimit == 4 * Batch

(* Session::start_active of the client, on an idle shard.                  *)
Init ==
  /\ setup \in Setups
  /\ inp_seqno = [s \in Sources |-> 0]
  /\ shard_back_log = [s \in Sources |-> <<>>]
  /\ msg_rx = <<>> /\ miot_rx = <<>> /\ received = [s \in Sources |-> <<>>]
  /\ connected = TRUE /\ live = TRUE /\ panicked = FALSE
  /\ next_packet_id = 1
  /\ qos0_back_log = <<>> /\ back_log = <<>> /\ qos12_unacks = {} /\ lost = {}
  /\ acked = [s \in Sources |-> 0]

(* What a queue of some size takes of a list of items, and what it leaves: *)
(* MsgTx::try_sends and PktTx::try_sends.                                  *)
Fits(queue, size, items) == Min({size - Len(queue), Len(items)})
Sent(queue, size, items) == SubSeq(items, 1, Fits(queue, size, items))
Left(queue, size, items) == SubSeq(items, Fits(queue, size, items) + 1, Len(items))

(***************************************************************************)
(* Routing.                                                                *)
(***************************************************************************)
(* One more subscription of the client that matches.                       *)
Merged(old, subscr) ==
  [no_local |-> old.no_local /\ subscr.no_local, rap |-> old.rap \/ subscr.rap,
   qos |-> Max({old.qos, subscr.qos})]

(* Mutant of MatchSubscribers: the QoS is that of the first subscription.  *)
MatchSubscribersFirst(subscrs) ==
  LET upTo[i \in DOMAIN subscrs] ==
        IF i = 1 THEN subscrs[1]
        ELSE [Merged(upTo[i - 1], subscrs[i]) EXCEPT !.qos = subscrs[1].qos]
  IN  upTo[Len(subscrs)]

(* Shard::match_subscribers for one client: a fold over the subscriptions  *)
(* in the order the trie yields them.                                      *)
MatchSubscribers(subscrs) ==
  LET upTo[i \in DOMAIN subscrs] ==
        IF i = 1 THEN subscrs[1] ELSE Merged(upTo[i - 1], subscrs[i])
  IN  upTo[Len(subscrs)]

(* Subscription::route_qos                                                 *)
RouteQoS(subscr, publish) == Min({MaxQoS, publish.qos, subscr.qos})

(* Message::new_routed                                                     *)
Routed(s, n, subscr, publish) ==
  [src |-> s, n |-> n, qos |-> RouteQoS(subscr, publish),
   retain |-> subscr.rap /\ publish.retain, ack_needed |-> publish.qos > 0,
   packet_id |-> NoId]

(* Session::rx_publish of a publisher's session, for a PUBLISH that is not *)
(* a duplicate.                                                            *)
RxPublish(s, publish) ==
  /\ ~panicked /\ inp_seqno[s] < setup.messages[s]
  /\ publish.qos =< MaxQoS
  /\ inp_seqno' = [inp_seqno EXCEPT ![s] = @ + 1]
  /\ LET subscr == MatchSubscribers(setup.matches[s])
     IN  shard_back_log' =
           IF subscr.no_local /\ publish.own THEN shard_back_log
           ELSE [shard_back_log EXCEPT ![s] =
                   Append(@, Routed(s, inp_seqno'[s], subscr, publish))]
  /\ UNCHANGED <<setup, msg_rx, connected, live, session, miot_rx, received, acked, panicked>>

(* Mutant of SendToShards: what the channel does not take is forgotten.    *)
SendToShardsOnce(s) ==
  /\ ~panicked /\ shard_back_log[s] # <<>>
  /\ msg_rx' = msg_rx \o Sent(msg_rx, ChannelSize, shard_back_log[s])
  /\ shard_back_log' = [shard_back_log EXCEPT ![s] = <<>>]
  /\ UNCHANGED <<setup, inp_seqno, connected, live, session, miot_rx, received, acked,
                 panicked>>

(* Mutant of SendToShards: only what is routed in this turn is sent.       *)
SendToShardsWaits(s) ==
  /\ ~panicked /\ shard_back_log[s] # <<>>
  /\ Fits(msg_rx, ChannelSize, shard_back_log[s]) = Len(shard_back_log[s])
  /\ msg_rx' = msg_rx \o shard_back_log[s]
  /\ shard_back_log' = [shard_back_log EXCEPT ![s] = <<>>]
  /\ UNCHANGED <<setup, inp_seqno, connected, live, session, miot_rx, received, acked,
                 panicked>>

(* Shard::send_to_shards, in every turn of a source.                       *)
SendToShards(s) ==
  /\ ~panicked /\ shard_back_log[s] # <<>>
  /\ msg_rx' = msg_rx \o Sent(msg_rx, ChannelSize, shard_back_log[s])
  /\ shard_back_log' = [shard_back_log EXCEPT ![s] = Left(msg_rx, ChannelSize, @)]
  /\ UNCHANGED <<setup, inp_seqno, connected, live, session, miot_rx, received, acked,
                 panicked>>

(***************************************************************************)
(* The session.  st is what a turn changes of it and of its connection.    *)
(***************************************************************************)
Session ==
  [next_packet_id |-> next_packet_id, qos0_back_log |-> qos0_back_log,
   back_log |-> back_log, qos12_unacks |-> qos12_unacks, lost |-> lost, miot_rx |-> miot_rx,
   connected |-> connected, live |-> live]

SetSession(st) ==
  /\ next_packet_id' = st.next_packet_id
  /\ qos0_back_log' = st.qos0_back_log /\ back_log' = st.back_log
  /\ qos12_unacks' = st.qos12_unacks /\ lost' = st.lost
  /\ miot_rx' = st.miot_rx /\ connected' = st.connected /\ live' = st.live

(* The messages are dropped, and the session with them if the miot thread  *)
(* still had the connection: remove_connection, handle_flush_connection.   *)
SlowClient(st, msgs) ==
  [st EXCEPT !.lost = @ \cup Range(msgs), !.live = @ /\ ~st.connected,
             !.connected = FALSE]

(* Mutant of OutQoS0: new messages are flushed ahead of the back log.      *)
OutQoS0NewFirst(st, msgs) ==
  IF msgs = <<>> THEN st
  ELSE IF Len(st.qos0_back_log) > BackLogLimit THEN SlowClient(st, msgs)
  ELSE LET all == msgs \o st.qos0_back_log
       IN  [st EXCEPT !.miot_rx = @ \o Sent(@, Batch, all),
                      !.qos0_back_log = Left(st.miot_rx, Batch, all)]

(* SessionState::out_qos0, called when there are messages.                 *)
OutQoS0(st, msgs) ==
  IF msgs = <<>> THEN st
  ELSE IF Len(st.qos0_back_log) > BackLogLimit THEN SlowClient(st, msgs)
  ELSE LET all == st.qos0_back_log \o msgs
       IN  [st EXCEPT !.miot_rx = @ \o Sent(@, Batch, all),
                      !.qos0_back_log = Left(st.miot_rx, Batch, all)]

(* into_packet: consecutive packet ids, which wrap at the width of a u16.  *)
WithIds(st, msgs) ==
  [i \in DOMAIN msgs |->
     [msgs[i] EXCEPT !.packet_id = (st.next_packet_id + i - 1) % IdSpace]]

(* A map keyed by packet id, without the keys of some messages.            *)
Without(map, msgs) ==
  {m \in map : \A x \in msgs : x.packet_id # m.packet_id}

(* The end of out_qos_active.  back_log is a map keyed by out_seqno, which *)
(* incr_out_seqno gives to messages as they are taken from the channel: in *)
(* the order of its keys, new messages come last, and those that are put   *)
(* back come first.                                                        *)
FlushBatch(st, all) ==
  LET first == SubSeq(all, 1, Min({Batch, Len(all)}))
      left == Left(st.miot_rx, Batch, first)
      unacks == Without(st.qos12_unacks, Range(first)) \cup Range(first)
  IN  [st EXCEPT !.miot_rx = @ \o Sent(@, Batch, first),
                 !.back_log = left \o SubSeq(all, Len(first) + 1, Len(all)),
                 !.qos12_unacks = Without(unacks, Range(left))]

(* Mutant of OutQoS: the limit of the client is not looked at.             *)
OutQoSUnlimited(st, msgs) ==
  IF msgs = <<>> THEN st
  ELSE IF Len(st.back_log) > BackLogLimit THEN SlowClient(st, msgs)
  ELSE FlushBatch([st EXCEPT !.next_packet_id = (@ + Len(msgs)) % IdSpace],
                  st.back_log \o WithIds(st, msgs))

(* SessionState::out_qos_active.                                           *)
OutQoS(st, msgs) ==
  IF msgs = <<>> THEN st
  ELSE IF Len(st.back_log) > BackLogLimit THEN SlowClient(st, msgs)
  ELSE IF Cardinality(st.qos12_unacks) >= setup.receive_max
       THEN [st EXCEPT !.lost = @ \cup Range(msgs)]
  ELSE FlushBatch([st EXCEPT !.next_packet_id = (@ + Len(msgs)) % IdSpace],
                  st.back_log \o WithIds(st, msgs))

(***************************************************************************)
(* A turn of the client's shard.                                           *)
(***************************************************************************)
QoS0 == {0}
QoS12 == {1, 2}
AtQoS(levels) == {m \in Messages : m.qos \in levels}
Of(s, levels) == {m \in Messages : m.src = s /\ m.qos \in levels}

(* Mutant of Acks: what the source has routed is acknowledged.             *)
AcksRouted(msgs, s) == <<[n |-> inp_seqno[s]]>>

(* The messages a turn acknowledges: commit_messages_active books its own  *)
(* after out_messages has booked those of QoS-0, and the last one stays.   *)
Acks(msgs, s) ==
  LET of(levels) == Select(msgs, {m \in Of(s, levels) : m.ack_needed})
  IN  of(QoS0) \o of(QoS12)

(* Shard::out_messages hands the session what is of QoS-0, and             *)
(* commit_messages_active the rest.                                        *)
OutMessages(msgs) == OutQoS0(Session, msgs)
CommitMessages(st, msgs) == OutQoS(st, msgs)

(* Shard::return_local_acks.                                               *)
ReturnLocalAcks ==
  acked' = [s \in Sources |->
              LET acks == Acks(msg_rx, s)
              IN  IF acks = <<>> THEN acked[s] ELSE acks[Len(acks)].n]

(* out_messages, commit_messages and return_local_acks in a turn.  A       *)
(* message for a session that is gone is unreachable!().                   *)
Turn ==
  /\ ~panicked /\ msg_rx # <<>>
  /\ msg_rx' = <<>>
  /\ \/ /\ ~live
        /\ panicked' = TRUE
        /\ UNCHANGED <<connected, live, session, miot_rx, acked>>
     \/ /\ live
        /\ \E qos0 \in {Select(msg_rx, AtQoS(QoS0))}, qos12 \in {Select(msg_rx, AtQoS(QoS12))} :
           \E st \in {OutMessages(qos0)} :
             \/ /\ st.live \/ qos12 = <<>>
                /\ \E st12 \in {CommitMessages(st, qos12)} : SetSession(st12)
                /\ ReturnLocalAcks
                /\ UNCHANGED panicked
             \/ /\ ~st.live /\ qos12 # <<>>
                /\ SetSession(st)
                /\ panicked' = TRUE
                /\ UNCHANGED acked
  /\ UNCHANGED <<setup, inp_seqno, shard_back_log, received>>

(* The connection fails in the miot thread, which posts FlushConnection.   *)
ConnectionFails ==
  /\ ~panicked /\ connected
  /\ connected' = FALSE
  /\ UNCHANGED <<setup, inp_seqno, shard_back_log, msg_rx, live, session, miot_rx, received,
                 acked, panicked>>

(* Shard::handle_flush_connection of that request.                         *)
HandleFlushConnection ==
  /\ ~panicked /\ ~connected /\ live
  /\ live' = FALSE
  /\ UNCHANGED <<setup, inp_seqno, shard_back_log, msg_rx, connected, session, miot_rx,
                 received, acked, panicked>>

(* PktRx::try_recvs of the miot thread, and of the flusher once the shard  *)
(* has given it the connection.                                            *)
TryRecvs ==
  /\ ~panicked /\ (connected \/ ~live) /\ miot_rx # <<>>
  /\ received' = [s \in Sources |->
                  received[s] \o Select(miot_rx, Of(s, QoS))]
  /\ miot_rx' = <<>>
  /\ UNCHANGED <<setup, inp_seqno, shard_back_log, msg_rx, connected, live, session, acked,
                 panicked>>

Next ==
  \/ \E s \in Sources : \/ \E p \in setup.publishes[s] : RxPublish(s, p)
                        \/ SendToShards(s)
  \/ Turn
  \/ ConnectionFails \/ HandleFlushConnection \/ TryRecvs

Spec == Init /\ [][Next]_vars

(* The ticker wakes every shard, and a shard sends and receives in every   *)
(* turn.                                                                   *)
FairSpec ==
  /\ Spec
  /\ WF_vars(Turn)
  /\ \A s \in Sources : WF_vars(SendToShards(s))

(***************************************************************************)
(* Properties.                                                             *)
(***************************************************************************)
(* The numbers of the messages that are in a set, in their order.          *)
Numbers(msgs, S) ==
  Flatten([i \in DOMAIN msgs |-> IF msgs[i] \in S THEN <<msgs[i].n>> ELSE <<>>])

(* Where the messages of a source at some levels are, from the client back *)
(* to the source.                                                          *)
Way(s, levels) ==
  Numbers(received[s] \o miot_rx \o qos0_back_log \o back_log \o msg_rx
            \o shard_back_log[s], Of(s, levels))

(* Messages of one publisher's shard at one level of QoS (0, or above) are *)
(* never reordered nor duplicated on their way through the channels, the   *)
(* back logs and the session's queue to the client, whatever is pushed     *)
(* back when a queue is full.                                              *)
InOrder ==
  \A s \in Sources : Rising(Way(s, QoS0)) /\ Rising(Way(s, QoS12))

(* A limit of the session is reached.                                      *)
AtLimit ==
  \/ Cardinality(qos12_unacks) >= setup.receive_max
  \/ Len(qos0_back_log) > BackLogLimit
  \/ Len(back_log) > BackLogLimit

(* No message disappears: one that was routed is on its way, or reached    *)
(* the client, or is one the session has dropped; and a dropped one is     *)
(* nowhere else.  The session drops one only at a limit: as many messages  *)
(* are unacknowledged as the client may be sent, or a back log is over     *)
(* four batches and the connection is closed for it.  A message is skipped *)
(* only if it is the client's own and every matching subscription is       *)
(* no_local.                                                               *)
Conserved ==
  ~panicked => \A s \in Sources :
    LET way == Range(Way(s, QoS))
        dropped == {m.n : m \in {x \in lost : x.src = s}}
        skips == /\ \A i \in DOMAIN setup.matches[s] : setup.matches[s][i].no_local
                 /\ \E p \in setup.publishes[s] : p.own
    IN  /\ way \cap dropped = {}
        /\ dropped # {} => AtLimit
        /\ way \cup dropped \subseteq 1 .. inp_seqno[s]
        /\ ~skips => way \cup dropped = 1 .. inp_seqno[s]

(* However long publishers and a slow client go on, what a session holds   *)
(* and what waits in its channels is bounded.  The check of                *)
(* mqtt_receive_maximum is made once for a batch, so that the              *)
(* unacknowledged messages may exceed it by a batch less one; the back     *)
(* logs exceed their limit by one turn's messages.                         *)
SessionIsBounded ==
  /\ Len(msg_rx) =< ChannelSize /\ Len(miot_rx) =< Batch
  /\ Cardinality(qos12_unacks) =< setup.receive_max + Batch - 1
  /\ Len(qos0_back_log) =< BackLogLimit + ChannelSize
  /\ Len(back_log) =< BackLogLimit + ChannelSize

(* A LocalAck tells a shard that its messages up to a number have been     *)
(* taken: no message up to it is still in the channel or at the source.    *)
AckedIsTaken ==
  \A s \in Sources :
    \A m \in Range(msg_rx \o shard_back_log[s]) : m.src = s => m.n > acked[s]

(* One message is routed for all the client's subscriptions that match, as *)
(* the comment on match_subscribers has it: at the smallest of the         *)
(* server's, the PUBLISH's and the largest subscription's QoS, and with    *)
(* the retain flag only if some subscription has retain_as_published;      *)
(* and none is routed of the client's own to no_local subscriptions.       *)
RoutedAsDocumented ==
  \A s \in Sources :
    LET subs == Range(setup.matches[s])
    IN  \A m \in Range(shard_back_log[s]) : \E p \in setup.publishes[s] :
          /\ m.ack_needed <=> p.qos > 0
          /\ m.qos =< MaxQoS /\ m.qos =< p.qos /\ \E x \in subs : m.qos =< x.qos
          /\ m.qos \in {MaxQoS, p.qos} \/ \A x \in subs : m.qos >= x.qos
          /\ m.retain <=> p.retain /\ \E x \in subs : x.rap
          /\ p.own => \E x \in subs : ~x.no_local

(* Every message that is published is taken by the client's shard, once    *)
(* publishers pause, however often the channel was full; unless the shard  *)
(* panics.                                                                 *)
RoutedIsTaken ==
  \A s \in Sources : (shard_back_log[s] # <<>>) ~> (panicked \/ shard_back_log[s] = <<>>)
=============================================================================

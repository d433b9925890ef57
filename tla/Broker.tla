-------------------------------- MODULE Broker --------------------------------
(***************************************************************************)
(* The broker's threads and its clients, composed: the life of a           *)
(* connection from accept to close, take over of a session by a newer      *)
(* connection of the same client, and shutdown.                            *)
(***************************************************************************)
EXTENDS ClusterThread, ShardThread, MiotThread

(* A client sends a packet, closes or resets its connection.  A packet     *)
(* sent before a miot thread reads the socket waits in the kernel, so      *)
(* sending starts there.                                                   *)
ClientSends(k) ==
  /\ peer[k] = "open" /\ place[k] = "conns" /\ ~aborted
  /\ sent[k] < MaxSend
  /\ sent' = [sent EXCEPT ![k] = @ + 1]
  /\ \E p \in Sends : net' = [net EXCEPT ![k] = Append(@, p)]
  /\ UNCHANGED <<peer, wire, place, up, down, session, acks, sq, sh, miot, cq, cl, aborted>>

ClientEnds(k) ==
  /\ peer[k] \in {"open", "fin"} /\ place[k] # "closed" /\ ~aborted
  /\ \E e \in Endings \ {peer[k]} : peer' = [peer EXCEPT ![k] = e]
  /\ UNCHANGED <<sent, net, wire, place, up, down, session, acks, sq, sh, miot, cq, cl, aborted>>

Client(k) == ClientSends(k) \/ ClientEnds(k)

Handshakes(k) == HandOver(k) \/ HandshakeFails(k)

ClusterStep ==
  \/ DrainCluster \/ HandleAddConnection \/ HandleClose
  \/ CloseShard \/ JoinShard \/ ExitCluster

ShardStep(s) ==
  \/ Drain(s) \/ AddSession(s) \/ FlushRequest(s) \/ Removed(s) \/ InsertSession(s)
  \/ RoutePackets(s) \/ DisconnectNext(s) \/ CommitAcks(s) \/ EndIteration(s)
  \/ CloseRequest(s) \/ ExitShard(s) \/ MiotGone(s)

MiotServes(s) == AddConnection(s) \/ RemoveConnection(s) \/ CloseMiot(s)

Pumps(k) == SocketReset(k) \/ SocketToSession(k) \/ SocketFin(k) \/ SessionToSocket(k)

(* Nothing is left to do: the process aborted, or the cluster was closed   *)
(* and no handshake is left.                                               *)
Terminated ==
  /\ aborted \/ (ClusterGone /\ \A k \in Conns : place[k] # "handshake")
  /\ UNCHANGED vars

Next ==
  \/ \E k \in Conns : AcceptConn(k) \/ Handshakes(k) \/ Client(k) \/ Pumps(k) \/ SocketTimeout(k)
  \/ AskClose
  \/ ClusterStep
  \/ \E s \in Shards : ShardStep(s) \/ MiotServes(s) \/ FlushConnection(s)
  \/ Terminated

Spec == Init /\ [][Next]_vars

(* Every thread runs: the ticker wakes the cluster and the shards every    *)
(* 10ms and a shard wakes its miot thread in each iteration; a handshake   *)
(* has its own thread, and a timeout.  Clients, the idle timeout and the   *)
(* application's close are not fair.                                       *)
FairSpec ==
  /\ Spec
  /\ WF_vars(ClusterStep)
  /\ \A s \in Shards :
       WF_vars(ShardStep(s)) /\ WF_vars(MiotServes(s)) /\ WF_vars(FlushConnection(s))
  /\ \A k \in Conns : WF_vars(Handshakes(k)) /\ WF_vars(Pumps(k))
-----------------------------------------------------------------------------
(* The types of the state that control depends on, and of all of it.       *)
ControlTypeOK ==
  /\ place \in [Conns -> Places]
  /\ session \in [Clients -> Conns \cup {NoConn}]
  /\ sq \in [Shards -> Seq(Requests)]
  /\ sh \in [Shards -> ShardStates]
  /\ cq \in Seq(Requests)
  /\ cl \in ClusterStates

DataTypeOK ==
  /\ peer \in [Conns -> Peers]
  /\ sent \in [Conns -> 0 .. MaxSend]
  /\ net \in [Conns -> Seq(Packets)]
  /\ wire \in [Conns -> Seq({"REFUSED", "CONNACK", "PINGRESP", "DISCONNECT"})]
  /\ up \in [Conns -> Seq(Packets)]
  /\ down \in [Conns -> Seq({"CONNACK", "PINGRESP"})]
  /\ acks \in [Clients -> Nat]
  /\ miot \in [Shards -> Miots]
  /\ aborted \in BOOLEAN

TypeOK == ControlTypeOK /\ DataTypeOK

Held == {sh[s].held : s \in Shards}

(* No session is leaked: the connection of a filed session is served by    *)
(* the miot thread, waits in a FlushConnection, or has just been handed to *)
(* the shard, so something will still end the session, unless the shard    *)
(* itself is closing.  The shard's sessions map and the miot's conns map   *)
(* are kept in step only by messages.                                      *)
NoSessionLeaks ==
  \A c \in Clients : session[c] # NoConn =>
    \/ place[session[c]] \in {"conns", "queued"}
    \/ session[c] \in Held
    \/ sh[ShardOf[c]].pc = "close"

(* The flusher's loop ends: its only exits on a writable socket are the    *)
(* drop of the session's queue, so a shard must never ask it to flush a    *)
(* socket whose session is alive.  The shard would wait for it, and the    *)
(* cluster for the shard.                                                  *)
FlushEnds ==
  \A s \in Shards : sh[s].pc = "flush" => ~SessionLives(sh[s].held)

(* Two connections of one client never have living sessions at once, even  *)
(* while handle_add_session waits for the miot and flusher threads.        *)
OneSessionPerClient ==
  \A j, k \in Conns :
    j # k /\ ClientOf[j] = ClientOf[k] => ~(SessionLives(j) /\ SessionLives(k))

(* What a client sees: a refusal and nothing else, or CONNACK before       *)
(* anything else, at most one PINGRESP per packet it sent (the one in      *)
(* place i is number i - 1), and DISCONNECT last.  Four threads write to   *)
(* the connection in turn.                                                 *)
Legal(w, n) ==
  \/ w \in {<<>>, <<"REFUSED">>}
  \/ /\ w[1] = "CONNACK"
     /\ \A i \in 2 .. Len(w) - 1 : w[i] = "PINGRESP"
     /\ Len(w) > 1 => w[Len(w)] \in {"PINGRESP", "DISCONNECT"}
     /\ \A i \in 2 .. Len(w) : w[i] = "PINGRESP" => i - 1 <= n

WireProtocol == \A k \in Conns : Legal(wire[k], sent[k])

(* A handshake's blocking AddConnection is answered: the cluster, the      *)
(* shard, the miot thread and the flusher do not wait in a circle.         *)
HandOverEnds ==
  \A k \in Conns :
    place[k] \in {"cluster", "shard"} ~> place[k] \notin {"cluster", "shard"} \/ aborted

(* A connection that the client has closed is closed by the broker too,    *)
(* and keeps no session, unless its miot thread has died.                  *)
ClosedIsReleased ==
  \A k \in Conns :
    peer[k] = "fin" ~>
      \/ place[k] = "closed" /\ ~SessionLives(k)
      \/ peer[k] = "rst" \/ miot[Shard(k)] = "dead" \/ aborted

(* Cluster::close_wait returns, whatever the threads are doing when it is  *)
(* called: each of them is asked to close and joined in turn.              *)
CloseReturns == cl.asked ~> ClusterGone \/ aborted
-----------------------------------------------------------------------------
(* FlushConnection of a socket drops at most the session of that socket:   *)
(* the broker shuts down only connections that are broken.                 *)
FlushDropsOwnSession ==
  \A s \in Shards :
    sh[s].pc = "drain" /\ sh[s].batch # <<>> /\ Head(sh[s].batch).type = "flush" =>
      LET k == Head(sh[s].batch).conn IN session[ClientOf[k]] \in {k, NoConn}

(* commit_acks finds a session for every client that route_packets saw.    *)
CommitFindsSessions ==
  \A s \in Shards :
    sh[s].pc = "failed" /\ sh[s].todo = {} => sh[s].acked \subseteq Sessions(s)
-----------------------------------------------------------------------------
(* No, and at most one, AddSession in a channel or batch.                  *)
NoAdd(q) == \A i \in 1 .. Len(q) : q[i].type # "add"
OneAdd(q) ==
  \A i, j \in 1 .. Len(q) : q[i].type = "add" /\ q[j].type = "add" => i = j

(* A request that shard s may find: of its own clients, and an AddSession  *)
(* is of a socket the miot thread does not have.                           *)
Ours(s, r) ==
  /\ r.type # "close" => r.conn \in Conns /\ Shard(r.conn) = s
  /\ r.type = "add" => place[r.conn] # "conns"

AllOurs(s, q) == \A i \in 1 .. Len(q) : Ours(s, q[i])

(* The shard is in the middle of handle_add_session.                       *)
InAdd(st) ==
  \/ st.pc \in {"add", "insert"}
  \/ st.pc \in {"remove", "removed", "flush"} /\ st.ret = "add"

(* An AddSession is under way at shard s.                                  *)
Adding(s) == ~NoAdd(sq[s]) \/ ~NoAdd(sh[s].batch) \/ sh[s].new # NoConn

(* The queues of shard s.                                                  *)
QueuesOK(s) ==
  /\ AllOurs(s, sq[s]) /\ AllOurs(s, sh[s].batch)
  /\ OneAdd(sq[s]) /\ OneAdd(sh[s].batch)
  /\ NoAdd(sq[s]) \/ (NoAdd(sh[s].batch) /\ sh[s].new = NoConn)
  /\ NoAdd(sh[s].batch) \/ sh[s].new = NoConn

(* The control state of shard s and the sessions it is about.              *)
ControlOK(s) ==
  LET st == sh[s]
  IN /\ st.ret \in {"poll", "drain", "add", "failed", "slow"}
     /\ st.new # NoConn <=> InAdd(st)
     /\ st.new # NoConn => /\ Shard(st.new) = s
                           /\ session[ClientOf[st.new]] = NoConn
                           /\ st.pc # "insert" => place[st.new] # "conns"
     /\ \A c \in st.todo : ShardOf[c] = s
     /\ st.pc = "remove" => st.rm \in Clients /\ ShardOf[st.rm] = s
     /\ st.pc \in {"removed", "flush"} /\ st.held # NoConn =>
          Shard(st.held) = s /\ st.held # st.new
     /\ st.pc = "flush" =>
          st.held # NoConn /\ session[ClientOf[st.held]] # st.held

(* The cluster waits while an AddSession is under way, of which there is   *)
(* one at most.                                                            *)
OneAtATime ==
  /\ \A s \in Shards : Adding(s) => cl.pc = "shard"
  /\ \A s, t \in Shards : Adding(s) /\ Adding(t) => s = t

ClusterOK ==
  /\ \A i \in 1 .. Len(cq) : cq[i].type = "add" => cq[i].conn \in Conns
  /\ \A i \in 1 .. Len(cl.batch) :
       cl.batch[i].type = "add" => cl.batch[i].conn \in Conns

(* The inductive invariant of BrokerProofs, for FlushEnds and              *)
(* OneSessionPerClient.  Both rest on the cluster waiting for the answer   *)
(* to its AddSession: at most one is under way, so the connection that a   *)
(* shard is adding is in no other request, and not yet with the miot       *)
(* thread when that gives up the client's old socket.                      *)
IInv ==
  /\ ControlTypeOK /\ ClusterOK /\ OneAtATime
  /\ \A s \in Shards : QueuesOK(s) /\ ControlOK(s)

(* A connection that has passed the cluster: a shard or the miot thread    *)
(* has it, or has had it.                                                  *)
Passed(k) == place[k] \notin {"none", "handshake", "cluster"}

(* The sockets in the requests of q have.                                  *)
PassedIn(q) == \A i \in 1 .. Len(q) : q[i].conn # NoConn => Passed(q[i].conn)

(* The sockets in the hands of shard s.                                    *)
ShardOwns(s) ==
  /\ PassedIn(sq[s]) /\ PassedIn(sh[s].batch)
  /\ sh[s].new # NoConn => Passed(sh[s].new)
  /\ sh[s].held # NoConn => Passed(sh[s].held)

(* The sockets in the requests of q wait for the cluster, each once.       *)
Waiting(q) == \A i \in 1 .. Len(q) : q[i].conn # NoConn => place[q[i].conn] = "cluster"
Once(q) ==
  \A i, j \in 1 .. Len(q) : q[i].conn # NoConn /\ q[i].conn = q[j].conn => i = j
Disjoint(q, b) ==
  \A i \in 1 .. Len(q), j \in 1 .. Len(b) : q[i].conn # NoConn => q[i].conn # b[j].conn

(* The sockets in the hands of the cluster.                                *)
ClusterOwns ==
  /\ Waiting(cq) /\ Waiting(cl.batch)
  /\ Once(cq) /\ Once(cl.batch) /\ Disjoint(cq, cl.batch)

(* A shard has a socket of a RemoveConnection or a FlushConnection only    *)
(* while it deals with it, and files a session whose socket is not lost.   *)
HeldOK(s) ==
  /\ sh[s].held # NoConn => sh[s].pc \in {"removed", "flush"}
  /\ sh[s].pc = "insert" => place[sh[s].new] \in {"conns", "queued"}

(* A session is filed under its own client.                                *)
Filed(c) == session[c] # NoConn => ClientOf[session[c]] = c

(* The miot threads serve at most one socket of a client.                  *)
OneInConns ==
  \A j, k \in Conns :
    ClientOf[j] = ClientOf[k] /\ place[j] = "conns" /\ place[k] = "conns" => j = k

(* Who owns which socket, as the inductive invariant of BrokerProofs for   *)
(* NoSessionLeaks needs it: a socket is in one request of the cluster at   *)
(* most and comes to a shard once, so no step of a thread takes away the   *)
(* socket of a session that another thread has filed.                      *)
SocketsOwned ==
  /\ ClusterOwns /\ OneInConns
  /\ \A s \in Shards : ShardOwns(s) /\ HeldOK(s)
  /\ \A c \in Clients : Filed(c)

(* The requests of q are about sockets that wait in them.                  *)
Placed(q) ==
  \A i \in 1 .. Len(q) :
    /\ q[i].type = "add" => place[q[i].conn] = "shard"
    /\ q[i].type = "flush" => place[q[i].conn] = "queued"

(* The requests of shard s, and where the sockets it works on are.         *)
RequestsPlaced(s) ==
  /\ Placed(sq[s]) /\ Placed(sh[s].batch)
  /\ Once(sq[s]) /\ Once(sh[s].batch) /\ Disjoint(sq[s], sh[s].batch)
  /\ sh[s].new # NoConn /\ sh[s].pc # "insert" => place[sh[s].new] = "shard"
  /\ sh[s].held # NoConn => place[sh[s].held] = "held"

(* Connection k has had no session yet, or has or had one and is open.     *)
Early(k) ==
  \/ place[k] \in {"none", "handshake", "cluster"}
  \/ place[k] = "shard" /\ sh[Shard(k)].new # k
Taken(k) ==
  \/ place[k] \in {"conns", "queued", "held"}
  \/ place[k] = "shard" /\ sh[Shard(k)].new = k

(* What the broker has written, or is about to.                            *)
Answers(q) ==
  /\ q # <<>> /\ q[1] = "CONNACK"
  /\ \A i \in 2 .. Len(q) : q[i] = "PINGRESP"

(* The PINGRESPs that the session of connection k has recorded.            *)
Owed(k) == IF session[ClientOf[k]] = k THEN acks[ClientOf[k]] ELSE 0

(* Nothing has been written, queued or read.                               *)
Fresh(k) ==
  /\ wire[k] = <<>> /\ down[k] = <<>> /\ up[k] = <<>>
  /\ Len(net[k]) <= sent[k]

(* CONNACK and PINGRESPs are written or queued, and the client's packets   *)
(* have one of them each, or are on their way to one.                      *)
Opened(k) ==
  /\ Answers(wire[k] \o down[k])
  /\ Len(wire[k]) + Len(down[k]) + Len(up[k]) + Len(net[k]) + Owed(k) <= sent[k] + 1

(* What is written to connection k is in order and accounted for, as the   *)
(* inductive invariant of WireProofs for WireProtocol needs it: until its  *)
(* AddSession is handled nothing is written or queued, from then on every  *)
(* packet of the client is in one queue, or has been answered or dropped.  *)
Accounted(k) == (Early(k) => Fresh(k)) /\ (Taken(k) => Opened(k))

(* The requests with their sockets, the answers with the packets.          *)
Balanced ==
  /\ \A s \in Shards : RequestsPlaced(s)
  /\ \A k \in Conns : Accounted(k)
  /\ \A c \in Clients : session[c] = NoConn => acks[c] = 0

(* The cluster waits for the answer to each AddSession, so a shard adds    *)
(* one connection at a time, which is in no other request and not with     *)
(* the miot thread; what is at the flusher has no session; each socket has *)
(* one owner, each packet is accounted for; and the state has its types.   *)
Consistent == TypeOK /\ IInv /\ SocketsOwned /\ Balanced
=============================================================================

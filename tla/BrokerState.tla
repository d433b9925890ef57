----------------------------- MODULE BrokerState -----------------------------
(***************************************************************************)
(* The state shared by the models of the broker's threads: the cluster     *)
(* with its listener and handshakes, and per shard a shard thread and its  *)
(* miot thread, which owns the sockets; one flusher for all.               *)
(*                                                                         *)
(* A socket is owned by one thread or request at a time (Rust moves it),   *)
(* so the model records only its place.  A blocking request is two steps:  *)
(* the caller moves to a waiting pc, and the callee's serving action       *)
(* answers it, after any steps of its own; answers are consumed at once,   *)
(* since nobody else can see them in flight.                               *)
(*                                                                         *)
(* A panic of a shard, of the flusher or of the cluster ends the process:  *)
(* unwinding drops the handle of a thread that was not closed, whose Drop  *)
(* panics again.  A miot thread owns no handle and dies alone.             *)
(***************************************************************************)
EXTENDS Naturals, Sequences, FiniteSets

CONSTANTS Clients,    \* client identifiers
          Conns,      \* TCP connections, each used once
          Shards,
          ClientOf,   \* the client identifier in the CONNECT of a connection
          ShardOf,    \* Rebalancer::session_partition
          MaxSend,    \* packets a client sends on one connection
          Sends,      \* the kinds of packets clients send
          Endings,    \* how clients end connections, besides DISCONNECT
          NoConn, NoClient

(* Packets by what Session::handle_packets does with them: answer a        *)
(* PINGREQ, end the session on a DISCONNECT, or panic: SUBSCRIBE and every *)
(* PUBLISH that is no duplicate reach an accessor of the shard while its   *)
(* inner is Inner::Init, and UNSUBSCRIBE, PUBACK, PUBREC, PUBREL, PUBCOMP  *)
(* and AUTH are todo!().  A "bad" packet fails in MQTTRead.                *)
Packets == {"pingreq", "disconnect", "panics", "bad"}

ASSUME BrokerAssumption ==
  /\ ClientOf \in [Conns -> Clients]
  /\ ShardOf \in [Clients -> Shards]
  /\ MaxSend \in Nat
  /\ Sends \subseteq Packets
  /\ Endings \subseteq {"fin", "rst"}
  /\ NoConn \notin Conns /\ NoClient \notin Clients

VARIABLES
  peer,      \* the remote end of each connection
  sent,      \* how many packets the client has sent
  net,       \* packets sent by the client and not yet read
  wire,      \* packets the broker has written to the connection
  place,     \* who owns the broker's end of the connection
  up,        \* Socket.rd.session_tx to Session.session_rx
  down,      \* Session.miot_tx to Socket.wt.miot_rx
  session,   \* Shard.sessions: the connection of each client's session
  acks,      \* Session.out_acks, as the number of PINGRESPs
  sq,        \* control channel of each shard
  sh,        \* control state of each shard thread
  miot,      \* state of each miot thread
  cq,        \* control channel of the cluster
  cl,        \* control state of the cluster thread
  aborted    \* the process has aborted

sockVars == <<peer, sent, net, wire, place, up, down>>
vars == <<sockVars, session, acks, sq, sh, miot, cq, cl, aborted>>

Peers == {"none", "open", "fin", "rst"}

Places == {"none", "handshake", "cluster", "shard", "conns", "queued", "held", "closed"}

Miots == {"run", "dead", "closed"}

ShardPcs == { "poll", "drain", "remove", "removed", "flush", "add", "insert",
              "failed", "slow", "close", "exited" }

Requests == [type : {"add", "flush"}, conn : Conns] \cup [type : {"close"}, conn : {NoConn}]

Add(k) == [type |-> "add", conn |-> k]
Flush(k) == [type |-> "flush", conn |-> k]
Close == [type |-> "close", conn |-> NoConn]

ShardStates ==
  [ pc    : ShardPcs,
    batch : Seq(Requests),           \* requests taken from the channel
    new   : Conns \cup {NoConn},     \* connection of the AddSession at work
    todo  : SUBSET Clients,          \* clients still to be disconnected
    acked : SUBSET Clients,          \* keys of ack_out_seqnos
    rm    : Clients \cup {NoClient}, \* client of the RemoveConnection at work
    held  : Conns \cup {NoConn},     \* socket handed to the flusher
    ret   : ShardPcs ]               \* where the shard goes on afterwards

ClusterStates ==
  [ pc    : {"main", "shard", "closing", "join", "exited", "panicked"},
    batch : Seq(Requests),
    left  : SUBSET Shards,           \* shards still to be closed
    asked : BOOLEAN ]                \* the application has called close_wait

Shard(k) == ShardOf[ClientOf[k]]

(* Miot.conns: the connection filed under a client, if any.                *)
InConns(c) == {k \in Conns : ClientOf[k] = c /\ place[k] = "conns"}

(* The session of connection k lives, in the map or in the hands of        *)
(* handle_add_session: both ends of its queues that it owns are open.      *)
SessionLives(k) ==
  \/ session[ClientOf[k]] = k
  \/ sh[Shard(k)].new = k

(* TcpStream::peer_addr fails once the connection has been reset, and      *)
(* every caller unwraps it.                                                *)
PeerAddr(k) == peer[k] # "rst"

Abort == aborted' = TRUE

(* The sockets in a sequence of requests.                                  *)
SocketsIn(reqs) == {reqs[i].conn : i \in DOMAIN reqs} \ {NoConn}

(* Dropping sockets closes the connections.                                *)
Dropped(ks) == [k \in Conns |-> IF k \in ks THEN "closed" ELSE place[k]]

Init ==
  /\ peer = [k \in Conns |-> "none"]
  /\ sent = [k \in Conns |-> 0]
  /\ net = [k \in Conns |-> <<>>]
  /\ wire = [k \in Conns |-> <<>>]
  /\ place = [k \in Conns |-> "none"]
  /\ up = [k \in Conns |-> <<>>]
  /\ down = [k \in Conns |-> <<>>]
  /\ session = [c \in Clients |-> NoConn]
  /\ acks = [c \in Clients |-> 0]
  /\ sq = [s \in Shards |-> <<>>]
  /\ sh = [s \in Shards |->
             [ pc |-> "poll", batch |-> <<>>, new |-> NoConn, todo |-> {},
               acked |-> {}, rm |-> NoClient, held |-> NoConn, ret |-> "poll" ]]
  /\ miot = [s \in Shards |-> "run"]
  /\ cq = <<>>
  /\ cl = [pc |-> "main", batch |-> <<>>, left |-> Shards, asked |-> FALSE]
  /\ aborted = FALSE
=============================================================================

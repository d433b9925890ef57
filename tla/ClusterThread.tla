---------------------------- MODULE ClusterThread ----------------------------
(***************************************************************************)
(* The cluster thread, the listener and the handshake threads.  The        *)
(* cluster serves the AddConnection of the handshakes, one at a time and   *)
(* each through a blocking AddSession, and the application's Close, which  *)
(* ends the listener, the ticker, every shard and the flusher in turn.     *)
(* A handshake waits for the answer to its request and does nothing with   *)
(* it, so it is over once it has handed the connection over.               *)
(***************************************************************************)
EXTENDS BrokerState

ListenerOpen == cl.pc \in {"main", "shard"}

ClusterGone == cl.pc \in {"exited", "panicked"}

(* Listener::accept_conn, and the handshake thread it spawns.              *)
AcceptConn(k) ==
  /\ ListenerOpen /\ ~aborted
  /\ place[k] = "none"
  /\ place' = [place EXCEPT ![k] = "handshake"]
  /\ peer' = [peer EXCEPT ![k] = "open"]
  /\ UNCHANGED <<sent, net, wire, up, down, session, acks, sq, sh, miot, cq, cl, aborted>>

(* Handshake::main_loop reads a valid CONNECT and hands over to the        *)
(* cluster; the request fails, and drops the socket, if the cluster is     *)
(* gone.                                                                   *)
HandOver(k) ==
  /\ place[k] = "handshake" /\ ~aborted
  /\ PeerAddr(k)
  /\ IF ClusterGone
       THEN /\ place' = [place EXCEPT ![k] = "closed"]
            /\ UNCHANGED cq
       ELSE /\ place' = [place EXCEPT ![k] = "cluster"]
            /\ cq' = Append(cq, Add(k))
  /\ UNCHANGED <<peer, sent, net, wire, up, down, session, acks, sq, sh, miot, cl, aborted>>

(* Handshake::main_loop gives up.  No CONNECT in time, or no valid one, is *)
(* answered with a CONNACK; a closed or reset connection is an error that  *)
(* the loop takes for impossible, so its thread panics.                    *)
HandshakeFails(k) ==
  /\ place[k] = "handshake" /\ ~aborted
  /\ place' = [place EXCEPT ![k] = "closed"]
  /\ wire' = IF peer[k] = "open" THEN [wire EXCEPT ![k] = <<"REFUSED">>] ELSE wire
  /\ UNCHANGED <<peer, sent, net, up, down, session, acks, sq, sh, miot, cq, cl, aborted>>

(* Cluster::close_wait, called by the application.                         *)
AskClose ==
  /\ ~cl.asked /\ ~aborted
  /\ cl' = [cl EXCEPT !.asked = TRUE]
  /\ cq' = Append(cq, Close)
  /\ UNCHANGED <<sockVars, session, acks, sq, sh, miot, aborted>>

(* pending_requests: everything in the channel, in order.                  *)
DrainCluster ==
  /\ cl.pc = "main" /\ ~aborted
  /\ cl.batch = <<>> /\ cq # <<>>
  /\ cl' = [cl EXCEPT !.batch = cq]
  /\ cq' = <<>>
  /\ UNCHANGED <<sockVars, session, acks, sq, sh, miot, aborted>>

Handling(type) ==
  /\ cl.pc = "main" /\ ~aborted
  /\ cl.batch # <<>> /\ Head(cl.batch).type = type

(* Mutant of HandleAddConnection: the cluster posts and does not wait.     *)
HandleAddConnectionPosts ==
  /\ Handling("add")
  /\ LET k == Head(cl.batch).conn
     IN /\ place' = [place EXCEPT ![k] = "shard"]
        /\ sq' = [sq EXCEPT ![Shard(k)] = Append(@, Add(k))]
        /\ cl' = [cl EXCEPT !.batch = Tail(@)]
  /\ UNCHANGED <<peer, sent, net, wire, up, down, session, acks, sh, miot, cq, aborted>>

(* handle_add_connection: AddSession to the shard of the client.           *)
HandleAddConnection ==
  /\ Handling("add")
  /\ LET k == Head(cl.batch).conn
     IN IF PeerAddr(k)
          THEN /\ place' = [place EXCEPT ![k] = "shard"]
               /\ sq' = [sq EXCEPT ![Shard(k)] = Append(@, Add(k))]
               /\ cl' = [cl EXCEPT !.pc = "shard", !.batch = Tail(@)]
               /\ UNCHANGED aborted
          ELSE Abort /\ UNCHANGED <<place, sq, cl>>
  /\ UNCHANGED <<peer, sent, net, wire, up, down, session, acks, sh, miot, cq>>

(* handle_close: the listener and the ticker are closed, ...               *)
HandleClose ==
  /\ Handling("close")
  /\ cl' = [cl EXCEPT !.pc = "closing", !.batch = Tail(@)]
  /\ UNCHANGED <<sockVars, session, acks, sq, sh, miot, cq, aborted>>

(* ... then the shards, one after the other, ...                           *)
CloseShard ==
  /\ cl.pc = "closing" /\ ~aborted
  /\ \E s \in cl.left :
       /\ sq' = [sq EXCEPT ![s] = Append(@, Close)]
       /\ cl' = [cl EXCEPT !.pc = "join", !.left = @ \ {s}]
  /\ UNCHANGED <<sockVars, session, acks, sh, miot, cq, aborted>>

JoinShard ==
  /\ cl.pc = "join" /\ ~aborted
  /\ \A s \in Shards \ cl.left : sh[s].pc = "exited"
  /\ cl' = [cl EXCEPT !.pc = "closing"]
  /\ UNCHANGED <<sockVars, session, acks, sq, sh, miot, cq, aborted>>

(* ... then the flusher.  The rest of the batch is handled all the same:   *)
(* an AddConnection finds the cluster closed and panics, which close_wait  *)
(* passes on to the application.  The channel is dropped with the thread.  *)
ExitCluster ==
  /\ cl.pc = "closing" /\ ~aborted
  /\ cl.left = {}
  /\ cl' = [cl EXCEPT !.pc = IF cl.batch = <<>> THEN "exited" ELSE "panicked", !.batch = <<>>]
  /\ place' = Dropped(SocketsIn(cl.batch) \cup SocketsIn(cq))
  /\ cq' = <<>>
  /\ UNCHANGED <<peer, sent, net, wire, up, down, session, acks, sq, sh, miot, aborted>>
=============================================================================

------------------------------ MODULE MiotThread ------------------------------
(***************************************************************************)
(* The miot thread of a shard: it owns the sockets of the shard's clients, *)
(* reads packets for the sessions, writes theirs, and serves the shard's   *)
(* AddConnection, RemoveConnection and Close.  A socket that fails goes to *)
(* the shard in a FlushConnection, which the shard does not answer.        *)
(*                                                                         *)
(* One step reads or writes for one connection: connections share nothing, *)
(* so a pass over all of them is a run of these steps.  The kernel takes   *)
(* every write, and the packet queues never fill.                          *)
(***************************************************************************)
EXTENDS BrokerState

(* Mutant of FailConnection: the socket is dropped, the shard not told.    *)
FailConnectionSilently(k) ==
  /\ place' = [place EXCEPT ![k] = "closed"]
  /\ UNCHANGED sq

(* handle_remove_connection, then Shard::flush_connection.                 *)
FailConnection(k) ==
  /\ place' = [place EXCEPT ![k] = "queued"]
  /\ sq' = [sq EXCEPT ![Shard(k)] = Append(@, Flush(k))]

Serving(k) == place[k] = "conns" /\ miot[Shard(k)] = "run" /\ ~aborted

(* A pass of the thread over the connection finds it reset.                *)
SocketReset(k) ==
  /\ Serving(k)
  /\ ~PeerAddr(k)
  /\ miot' = [miot EXCEPT ![Shard(k)] = "dead"]
  /\ UNCHANGED <<sockVars, session, acks, sq, sh, cq, cl, aborted>>

(* socket_to_session: the next packet goes to the session, or fails the    *)
(* connection when it cannot be parsed or the session is gone.             *)
SocketToSession(k) ==
  /\ Serving(k)
  /\ PeerAddr(k)
  /\ net[k] # <<>>
  /\ net' = [net EXCEPT ![k] = Tail(@)]
  /\ IF Head(net[k]) = "bad" \/ ~SessionLives(k)
       THEN FailConnection(k) /\ UNCHANGED up
       ELSE /\ up' = [up EXCEPT ![k] = Append(@, Head(net[k]))]
            /\ UNCHANGED <<place, sq>>
  /\ UNCHANGED <<peer, sent, wire, down, session, acks, sh, miot, cq, cl, aborted>>

(* socket_to_session: the client has closed its end.                       *)
SocketFin(k) ==
  /\ Serving(k)
  /\ peer[k] = "fin" /\ net[k] = <<>>
  /\ FailConnection(k)
  /\ UNCHANGED <<peer, sent, net, wire, up, down, session, acks, sh, miot, cq, cl, aborted>>

(* socket_to_session: nothing came for sock_mqtt_read_timeout seconds; an  *)
(* idle connection is in MQTTRead::Init and runs that timeout too.         *)
SocketTimeout(k) ==
  /\ Serving(k)
  /\ peer[k] = "open" /\ net[k] = <<>>
  /\ FailConnection(k)
  /\ UNCHANGED <<peer, sent, net, wire, up, down, session, acks, sh, miot, cq, cl, aborted>>

(* session_to_socket: write what the session has queued; once its end of   *)
(* the queue is dropped and the queue is empty, fail the connection.       *)
SessionToSocket(k) ==
  /\ Serving(k)
  /\ PeerAddr(k)
  /\ \/ /\ SessionLives(k)
        /\ down[k] # <<>>
        /\ wire' = [wire EXCEPT ![k] = @ \o down[k]]
        /\ down' = [down EXCEPT ![k] = <<>>]
        /\ UNCHANGED <<place, sq>>
     \/ /\ ~SessionLives(k)
        /\ FailConnection(k)
        /\ UNCHANGED <<wire, down>>
  /\ UNCHANGED <<peer, sent, net, up, session, acks, sh, miot, cq, cl, aborted>>

(* handle_add_connection: conns.insert drops the socket it replaces.       *)
AddConnection(s) ==
  /\ sh[s].pc = "add"
  /\ miot[s] = "run" /\ ~aborted
  /\ LET k == sh[s].new
         c == ClientOf[k]
     IN IF PeerAddr(k)
          THEN /\ place' = [Dropped(InConns(c)) EXCEPT ![k] = "conns"]
               /\ sh' = [sh EXCEPT ![s].pc = "insert"]
               /\ UNCHANGED miot
          ELSE /\ miot' = [miot EXCEPT ![s] = "dead"]
               /\ UNCHANGED <<place, sh>>
  /\ UNCHANGED <<peer, sent, net, wire, up, down, session, acks, sq, cq, cl, aborted>>

(* handle_remove_connection for the shard: the socket filed under the      *)
(* client, if there is one, is handed over.                                *)
RemoveConnection(s) ==
  /\ sh[s].pc = "remove"
  /\ miot[s] = "run" /\ ~aborted
  /\ LET ks == InConns(sh[s].rm)
     IN IF \A k \in ks : PeerAddr(k)
          THEN /\ place' = [k \in Conns |-> IF k \in ks THEN "held" ELSE place[k]]
               /\ sh' = [sh EXCEPT ![s].pc = "removed",
                                   ![s].held = IF ks = {} THEN NoConn
                                               ELSE CHOOSE k \in ks : TRUE]
               /\ UNCHANGED miot
          ELSE /\ miot' = [miot EXCEPT ![s] = "dead"]
               /\ UNCHANGED <<place, sh>>
  /\ UNCHANGED <<peer, sent, net, wire, up, down, session, acks, sq, cq, cl, aborted>>

(* handle_close: every socket is dropped.                                  *)
CloseMiot(s) ==
  /\ sh[s].pc = "close"
  /\ miot[s] = "run" /\ ~aborted
  /\ LET ks == {k \in Conns : place[k] = "conns" /\ Shard(k) = s}
     IN IF \A k \in ks : PeerAddr(k)
          THEN /\ place' = Dropped(ks)
               /\ miot' = [miot EXCEPT ![s] = "closed"]
          ELSE /\ miot' = [miot EXCEPT ![s] = "dead"]
               /\ UNCHANGED place
  /\ UNCHANGED <<peer, sent, net, wire, up, down, session, acks, sq, sh, cq, cl, aborted>>
=============================================================================

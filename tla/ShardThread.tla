----------------------------- MODULE ShardThread -----------------------------
(***************************************************************************)
(* The loop of an active shard and the flusher that serves it.  An         *)
(* iteration takes the pending requests and handles them, routes the       *)
(* packets of every session, disconnects the sessions that failed, commits *)
(* acknowledgements and pushes them to the sockets.  Messages between      *)
(* shards are left out: no PUBLISH survives route_packets to become one.   *)
(*                                                                         *)
(* Each blocking request to the miot or flusher thread ends a step.        *)
(***************************************************************************)
EXTENDS BrokerState

At(s, pc) == sh[s].pc = pc /\ ~aborted

Goto(s, pc) == sh' = [sh EXCEPT ![s].pc = pc]

(* The shard goes on after a RemoveConnection and a flush.                 *)
Resume(s) ==
  sh' = [sh EXCEPT ![s].pc = sh[s].ret, ![s].held = NoConn,
                   ![s].rm = NoClient, ![s].ret = "poll"]

(* Mutant of Drain: only the first request of the batch is kept.           *)
DrainOne(s) ==
  /\ At(s, "poll")
  /\ sh' = [sh EXCEPT ![s].pc = "drain", ![s].batch = IF sq[s] = <<>> THEN <<>> ELSE <<Head(sq[s])>>]
  /\ sq' = [sq EXCEPT ![s] = <<>>]
  /\ UNCHANGED <<sockVars, session, acks, miot, cq, cl, aborted>>

(* pending_requests: everything in the channel, in order.                  *)
Drain(s) ==
  /\ At(s, "poll")
  /\ sh' = [sh EXCEPT ![s].pc = "drain", ![s].batch = sq[s]]
  /\ sq' = [sq EXCEPT ![s] = <<>>]
  /\ UNCHANGED <<sockVars, session, acks, miot, cq, cl, aborted>>

(* The shard drops the session of client c.                                *)
DropSession(c) ==
  /\ session' = [session EXCEPT ![c] = NoConn]
  /\ acks' = [acks EXCEPT ![c] = 0]

(* Mutant of AddSession: an existing session is not dropped.               *)
AddSessionBeside(s) ==
  /\ At(s, "drain")
  /\ sh[s].batch # <<>> /\ Head(sh[s].batch).type = "add"
  /\ LET k == Head(sh[s].batch).conn
     IN /\ down' = [down EXCEPT ![k] = <<"CONNACK">>]
        /\ sh' = [sh EXCEPT ![s].batch = Tail(@), ![s].new = k, ![s].pc = "add"]
  /\ UNCHANGED <<peer, sent, net, wire, place, up, session, acks, sq, miot, cq, cl, aborted>>

(* handle_add_session, up to its first blocking request: CONNACK goes into *)
(* the new queue, and an existing session of the client is dropped.        *)
AddSession(s) ==
  /\ At(s, "drain")
  /\ sh[s].batch # <<>> /\ Head(sh[s].batch).type = "add"
  /\ LET k == Head(sh[s].batch).conn
         c == ClientOf[k]
     IN IF PeerAddr(k)
          THEN /\ down' = [down EXCEPT ![k] = <<"CONNACK">>]
               /\ sh' = [sh EXCEPT ![s].batch = Tail(@),
                                   ![s].new = k,
                                   ![s].pc = IF session[c] = NoConn THEN "add" ELSE "remove",
                                   ![s].rm = IF session[c] = NoConn THEN NoClient ELSE c,
                                   ![s].ret = IF session[c] = NoConn THEN "poll" ELSE "add"]
               /\ DropSession(c)
               /\ UNCHANGED aborted
          ELSE Abort /\ UNCHANGED <<down, sh, session, acks>>
  /\ UNCHANGED <<peer, sent, net, wire, place, up, sq, miot, cq, cl>>

(* Mutant of StartFlush: the session is left in the map.                   *)
StartFlushOnly(s, k, ret, batch) ==
  /\ UNCHANGED <<session, acks>>
  /\ place' = [place EXCEPT ![k] = "held"]
  /\ sh' = [sh EXCEPT ![s].pc = "flush", ![s].held = k, ![s].ret = ret, ![s].batch = batch]

(* handle_flush_connection, up to the flusher: the session filed under the *)
(* client identifier of the socket is dropped.                             *)
StartFlush(s, k, ret, batch) ==
  /\ DropSession(ClientOf[k])
  /\ place' = [place EXCEPT ![k] = "held"]
  /\ sh' = [sh EXCEPT ![s].pc = "flush", ![s].held = k, ![s].ret = ret, ![s].batch = batch]

FlushRequest(s) ==
  /\ At(s, "drain")
  /\ sh[s].batch # <<>> /\ Head(sh[s].batch).type = "flush"
  /\ StartFlush(s, Head(sh[s].batch).conn, "drain", Tail(sh[s].batch))
  /\ UNCHANGED <<peer, sent, net, wire, up, down, sq, miot, cq, cl, aborted>>

(* The answer to RemoveConnection: a socket is flushed, no socket leaves   *)
(* nothing to do.  On a take over the text of the error names the peer of  *)
(* the new connection.                                                     *)
Removed(s) ==
  /\ At(s, "removed")
  /\ LET named == {sh[s].new} \ {NoConn}
     IN \/ /\ sh[s].held = NoConn
           /\ Resume(s)
           /\ UNCHANGED <<session, acks, place, aborted>>
        \/ /\ sh[s].held # NoConn
           /\ \A k \in named : PeerAddr(k)
           /\ StartFlush(s, sh[s].held, sh[s].ret, sh[s].batch)
           /\ UNCHANGED aborted
        \/ /\ sh[s].held # NoConn
           /\ \E k \in named : ~PeerAddr(k)
           /\ Abort
           /\ UNCHANGED <<session, acks, place, sh>>
  /\ UNCHANGED <<peer, sent, net, wire, up, down, sq, miot, cq, cl>>

(* Mutant of FlushConnection: DISCONNECT overtakes the queue.              *)
FlushDisconnectsFirst(s) ==
  /\ At(s, "flush")
  /\ LET k == sh[s].held
     IN /\ wire' = [wire EXCEPT ![k] = (@ \o <<"DISCONNECT">>) \o down[k]]
        /\ down' = [down EXCEPT ![k] = <<>>]
        /\ place' = [place EXCEPT ![k] = "closed"]
  /\ Resume(s)
  /\ UNCHANGED <<peer, sent, net, up, session, acks, sq, miot, cq, cl, aborted>>

(* Flusher::handle_flush_connection: write what is left in the queue until *)
(* the session's end of it is dropped, write DISCONNECT, drop the socket.  *)
(* While the session's end is alive and the socket writable the loop has   *)
(* no way out, so the step has that as its guard.                          *)
FlushConnection(s) ==
  /\ At(s, "flush")
  /\ LET k == sh[s].held
     IN IF PeerAddr(k)
          THEN /\ ~SessionLives(k)
               /\ wire' = [wire EXCEPT ![k] = @ \o Append(down[k], "DISCONNECT")]
               /\ down' = [down EXCEPT ![k] = <<>>]
               /\ up' = [up EXCEPT ![k] = <<>>]
               /\ place' = [place EXCEPT ![k] = "closed"]
               /\ net' = [net EXCEPT ![k] = <<>>]
               /\ Resume(s)
               /\ UNCHANGED aborted
          ELSE Abort /\ UNCHANGED <<wire, down, up, net, place, sh>>
  /\ UNCHANGED <<peer, sent, session, acks, sq, miot, cq, cl>>

(* Mutant of InsertSession: the cluster gets no answer.                    *)
InsertSessionSilently(s) ==
  /\ At(s, "insert")
  /\ session' = [session EXCEPT ![ClientOf[sh[s].new]] = sh[s].new]
  /\ sh' = [sh EXCEPT ![s].pc = "drain", ![s].new = NoConn]
  /\ UNCHANGED <<sockVars, acks, sq, miot, cq, cl, aborted>>

(* The end of handle_add_session: the session is filed, the cluster gets   *)
(* its answer.                                                             *)
InsertSession(s) ==
  /\ At(s, "insert")
  /\ LET k == sh[s].new
     IN /\ session' = [session EXCEPT ![ClientOf[k]] = k]
        /\ cl' = [cl EXCEPT !.pc = "main"]
  /\ sh' = [sh EXCEPT ![s].pc = "drain", ![s].new = NoConn]
  /\ UNCHANGED <<sockVars, acks, sq, miot, cq, aborted>>

(* The clients that have a session in shard s.                             *)
Sessions(s) == {c \in Clients : ShardOf[c] = s /\ session[c] # NoConn}

(* The first packet at which Session::handle_packets stops, if any.        *)
StopsAt(pkts) ==
  LET stops == {i \in DOMAIN pkts : pkts[i] # "pingreq"}
  IN IF stops = {} THEN "none"
     ELSE pkts[CHOOSE i \in stops : \A j \in stops : i <= j]

(* route_packets over all sessions.  A session fails on DISCONNECT, when   *)
(* its socket is dropped or, with nothing to read, when keep alive expires *)
(* (expired).  It fails before its PINGRESPs are recorded.                 *)
RoutePackets(s) ==
  /\ At(s, "drain")
  /\ sh[s].batch = <<>>
  /\ LET live == Sessions(s)
         pkts(c) == up[session[c]]
         idle == {c \in live : pkts(c) = <<>>}
         ended == {c \in live : \/ StopsAt(pkts(c)) = "disconnect"
                                \/ place[session[c]] = "closed"}
     IN \/ /\ \E c \in live : StopsAt(pkts(c)) = "panics"
           /\ Abort
           /\ UNCHANGED <<up, acks, sh>>
        \/ /\ \A c \in live : StopsAt(pkts(c)) # "panics"
           /\ \E expired \in SUBSET idle :
                sh' = [sh EXCEPT ![s].pc = "failed",
                                 ![s].todo = ended \cup expired,
                                 ![s].acked = live]
           /\ acks' = [c \in Clients |->
                         IF c \in live /\ StopsAt(pkts(c)) = "none"
                           THEN acks[c] + Len(pkts(c)) ELSE acks[c]]
           /\ up' = [k \in Conns |->
                       IF \E c \in live : session[c] = k THEN <<>> ELSE up[k]]
           /\ UNCHANGED aborted
  /\ UNCHANGED <<peer, sent, net, wire, place, down, session, sq, miot, cq, cl>>

(* The loops of route_packets and of out_acks_flush over the sessions to   *)
(* be disconnected: take the next one's socket from the miot thread.       *)
DisconnectNext(s) ==
  /\ sh[s].pc \in {"failed", "slow"} /\ ~aborted
  /\ \E c \in sh[s].todo :
       sh' = [sh EXCEPT ![s].todo = @ \ {c}, ![s].rm = c,
                        ![s].pc = "remove", ![s].ret = sh[s].pc]
  /\ UNCHANGED <<sockVars, session, acks, sq, miot, cq, cl, aborted>>

(* commit_acks panics on a client without a session; out_acks_flush then   *)
(* moves the PINGRESPs of every session to its socket, and finds sessions  *)
(* whose socket is dropped.                                                *)
CommitAcks(s) ==
  /\ At(s, "failed")
  /\ sh[s].todo = {}
  /\ LET live == Sessions(s)
         gone == {c \in live : acks[c] > 0 /\ place[session[c]] = "closed"}
         acking == {c \in live : acks[c] > 0} \ gone
     IN \/ /\ ~(sh[s].acked \subseteq live)
           /\ Abort
           /\ UNCHANGED <<down, acks, sh>>
        \/ /\ sh[s].acked \subseteq live
           /\ down' = [k \in Conns |->
                         IF session[ClientOf[k]] = k /\ ClientOf[k] \in acking
                           THEN down[k] \o [i \in 1 .. acks[ClientOf[k]] |-> "PINGRESP"]
                           ELSE down[k]]
           /\ acks' = [c \in Clients |-> IF c \in acking THEN 0 ELSE acks[c]]
           /\ sh' = [sh EXCEPT ![s].pc = "slow", ![s].todo = gone, ![s].acked = {}]
           /\ UNCHANGED aborted
  /\ UNCHANGED <<peer, sent, net, wire, place, up, session, sq, miot, cq, cl>>

EndIteration(s) ==
  /\ At(s, "slow")
  /\ sh[s].todo = {}
  /\ Goto(s, "poll")
  /\ UNCHANGED <<sockVars, session, acks, sq, miot, cq, cl, aborted>>

(* handle_close_active, up to the close of the miot thread.                *)
CloseRequest(s) ==
  /\ At(s, "drain")
  /\ sh[s].batch # <<>> /\ Head(sh[s].batch).type = "close"
  /\ sh' = [sh EXCEPT ![s].pc = "close", ![s].batch = Tail(@)]
  /\ UNCHANGED <<sockVars, session, acks, sq, miot, cq, cl, aborted>>

(* The rest of handle_close_active and of the loop of drain_control_chan,  *)
(* which handles every request of the batch: a FlushConnection after the   *)
(* Close finds no active shard and panics.  Then the thread ends and its   *)
(* channel is dropped.                                                     *)
ExitShard(s) ==
  /\ At(s, "close")
  /\ miot[s] = "closed"
  /\ session' = [c \in Clients |-> IF ShardOf[c] = s THEN NoConn ELSE session[c]]
  /\ acks' = [c \in Clients |-> IF ShardOf[c] = s THEN 0 ELSE acks[c]]
  /\ IF sh[s].batch = <<>>
       THEN /\ Goto(s, "exited")
            /\ sq' = [sq EXCEPT ![s] = <<>>]
            /\ place' = Dropped(SocketsIn(sq[s]))
            /\ UNCHANGED aborted
       ELSE Abort /\ UNCHANGED <<sh, sq, place>>
  /\ UNCHANGED <<peer, sent, net, wire, up, down, miot, cq, cl>>

(* A request to a miot thread that died.                                   *)
MiotGone(s) ==
  /\ sh[s].pc \in {"remove", "add", "close"}
  /\ miot[s] = "dead" /\ ~aborted
  /\ Abort
  /\ UNCHANGED <<sockVars, session, acks, sq, sh, miot, cq, cl>>
=============================================================================

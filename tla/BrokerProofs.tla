----------------------------- MODULE BrokerProofs -----------------------------
(***************************************************************************)
(* Proofs that, for any number of clients, connections and shards, a       *)
(* client never has two living sessions, the flusher is never asked for a  *)
(* socket whose session lives, and no session is lost: the requests under  *)
(* way first, and then the owners of sockets and sessions.                 *)
(***************************************************************************)
EXTENDS Broker, TLAPS

(***************************************************************************)
(* Requests in sequences.                                                  *)
(***************************************************************************)
(* What Head and Tail leave of a batch.                                    *)
LEMMA TailOfBatch ==
  ASSUME NEW q \in Seq(Requests), q # <<>>
  PROVE  /\ Head(q) \in Requests /\ Head(q) = q[1] /\ 1 \in 1 .. Len(q)
         /\ Tail(q) \in Seq(Requests) /\ Len(Tail(q)) = Len(q) - 1
         /\ \A i \in 1 .. Len(Tail(q)) : i + 1 \in 1 .. Len(q) /\ Tail(q)[i] = q[i + 1]
         /\ OneAdd(q) => OneAdd(Tail(q))
         /\ OneAdd(q) /\ Head(q).type = "add" => NoAdd(Tail(q))
         /\ NoAdd(q) => NoAdd(Tail(q))
<1>1. Len(q) \in Nat \ {0}  OBVIOUS
<1>2. Head(q) \in Requests /\ Head(q) = q[1] /\ 1 \in 1 .. Len(q)
  BY <1>1
<1>3. Tail(q) \in Seq(Requests) /\ Len(Tail(q)) = Len(q) - 1
  BY <1>1
<1>4. \A i \in 1 .. Len(Tail(q)) : i + 1 \in 1 .. Len(q) /\ Tail(q)[i] = q[i + 1]
  BY <1>1, <1>3
<1>5. OneAdd(q) => OneAdd(Tail(q))  BY <1>1, <1>3, <1>4 DEF OneAdd
<1>6. OneAdd(q) /\ Head(q).type = "add" => NoAdd(Tail(q))
  BY <1>1, <1>2, <1>3, <1>4 DEF OneAdd, NoAdd
<1>7. NoAdd(q) => NoAdd(Tail(q))  BY <1>1, <1>3, <1>4 DEF NoAdd
<1> QED  BY <1>2, <1>3, <1>4, <1>5, <1>6, <1>7

(* What a post adds to a channel.                                          *)
LEMMA Posted ==
  ASSUME NEW q \in Seq(Requests), NEW r \in Requests
  PROVE  /\ Append(q, r) \in Seq(Requests)
         /\ \A i \in 1 .. Len(Append(q, r)) :
              Append(q, r)[i] = r \/ (i \in 1 .. Len(q) /\ Append(q, r)[i] = q[i])
         /\ r.type # "add" /\ OneAdd(q) => OneAdd(Append(q, r))
         /\ r.type # "add" /\ NoAdd(q) => NoAdd(Append(q, r))
         /\ NoAdd(q) => OneAdd(Append(q, r))
<1>1. /\ Append(q, r) \in Seq(Requests)
      /\ Len(Append(q, r)) = Len(q) + 1
      /\ \A i \in 1 .. Len(q) : Append(q, r)[i] = q[i]
      /\ Append(q, r)[Len(q) + 1] = r
  OBVIOUS
<1>2. Len(q) \in Nat  OBVIOUS
<1> QED  BY <1>1, <1>2 DEF OneAdd, NoAdd

(* The requests of the model.                                              *)
LEMMA MadeRequests ==
  /\ Close \in Requests /\ Close.type = "close"
  /\ \A k \in Conns : /\ Add(k) \in Requests /\ Add(k).type = "add" /\ Add(k).conn = k
                      /\ Flush(k) \in Requests /\ Flush(k).type = "flush"
                      /\ Flush(k).conn = k
BY DEF Close, Add, Flush, Requests

(* An empty channel.                                                       *)
LEMMA EmptyQueue == <<>> \in Seq(Requests) /\ NoAdd(<<>>) /\ OneAdd(<<>>) /\ Len(<<>>) = 0
BY DEF NoAdd, OneAdd

(***************************************************************************)
(* The initial states, and steps that leave a shard alone.                 *)
(***************************************************************************)
(* The initial state has its types.                                        *)
LEMMA TypesInitially == Init => ControlTypeOK
<1> SUFFICES ASSUME Init PROVE ControlTypeOK  OBVIOUS
<1>1. /\ place \in [Conns -> Places]
      /\ session \in [Clients -> Conns \cup {NoConn}]
  BY DEF Init, Places
<1>2. sq \in [Shards -> Seq(Requests)] /\ cq \in Seq(Requests)  BY DEF Init
<1>3. sh \in [Shards -> ShardStates]  BY DEF Init, ShardStates, ShardPcs
<1>4. cl \in ClusterStates  BY DEF Init, ClusterStates
<1> QED  BY <1>1, <1>2, <1>3, <1>4 DEF ControlTypeOK

(* Initially, no requests and no sessions.                                 *)
LEMMA Initially == Init => IInv
<1> SUFFICES ASSUME Init PROVE IInv  OBVIOUS
<1>1. ControlTypeOK  BY TypesInitially
<1>2. ClusterOK  BY EmptyQueue DEF Init, ClusterOK
<1>3. \A s \in Shards : ~Adding(s)  BY EmptyQueue DEF Init, Adding
<1>4. OneAtATime  BY <1>3 DEF OneAtATime
<1>5. \A s \in Shards : QueuesOK(s)  BY EmptyQueue DEF Init, QueuesOK, AllOurs
<1>6. \A s \in Shards : ControlOK(s)  BY DEF Init, ControlOK, InAdd
<1> QED  BY <1>1, <1>2, <1>4, <1>5, <1>6 DEF IInv

(* The miot thread gets no more sockets of shard t.                        *)
NoNewConns(t) ==
  \A k \in Conns : Shard(k) = t /\ place'[k] = "conns" => place[k] = "conns"

(* A shard is not disturbed while its own state is the same, its clients'  *)
(* sessions at most go, and the miot thread gets no more of its sockets.   *)
Undisturbed(t) ==
  /\ sh'[t] = sh[t]
  /\ \A c \in Clients : ShardOf[c] = t => session'[c] \in {session[c], NoConn}
  /\ NoNewConns(t)

(* A shard's requests stay its own when the first one is taken.            *)
LEMMA AllOursTail ==
  ASSUME NEW t \in Shards, NEW q \in Seq(Requests), q # <<>>, AllOurs(t, q)
  PROVE  AllOurs(t, Tail(q)) /\ Ours(t, Head(q))
BY TailOfBatch DEF AllOurs

(* What the invariant says of one shard.                                   *)
LEMMA Known ==
  ASSUME IInv, NEW s \in Shards
  PROVE  /\ place \in [Conns -> Places] /\ session \in [Clients -> Conns \cup {NoConn}]
         /\ sq \in [Shards -> Seq(Requests)] /\ sh \in [Shards -> ShardStates]
         /\ cl \in ClusterStates
         /\ sh[s] \in ShardStates /\ sh[s].batch \in Seq(Requests)
         /\ sh[s].new \in Conns \cup {NoConn} /\ sh[s].held \in Conns \cup {NoConn}
         /\ ControlOK(s) /\ QueuesOK(s)
<1>1. sh[s] \in ShardStates  BY DEF IInv, ControlTypeOK
<1> QED  BY <1>1 DEF IInv, ControlTypeOK, ShardStates

(***************************************************************************)
(* The steps.                                                              *)
(***************************************************************************)
(* The invariant is inductive.  First come facts about what leaves a shard *)
(* alone and about its queues, then one step for each group of actions.    *)
LEMMA Inductive == IInv /\ [Next]_vars => IInv'
(* An undisturbed shard keeps its control state right.                     *)
<1>ControlKept. ASSUME IInv, NEW t \in Shards, Undisturbed(t)
                PROVE  ControlOK(t)'
  <2> USE <1>ControlKept
  <2> DEFINE st == sh[t]
  <2>1. st \in ShardStates /\ session \in [Clients -> Conns \cup {NoConn}]
    BY DEF IInv, ControlTypeOK
  <2>2. ControlOK(t)  BY DEF IInv
  <2>3. \A k \in Conns : ClientOf[k] \in Clients  BY BrokerAssumption
  <2>4. NoConn \notin Conns  BY BrokerAssumption
  <2>5. \A k \in Conns : Shard(k) = ShardOf[ClientOf[k]]  BY DEF Shard
  <2>6. st.new \in Conns \cup {NoConn} /\ st.held \in Conns \cup {NoConn}
    BY <2>1 DEF ShardStates
  <2>7. st.new # NoConn =>
          /\ session'[ClientOf[st.new]] = NoConn
          /\ place'[st.new] = "conns" => place[st.new] = "conns"
    BY <2>2, <2>3, <2>5, <2>6 DEF ControlOK, Undisturbed, NoNewConns
  <2>8. st.pc = "flush" => session'[ClientOf[st.held]] # st.held
    BY <2>2, <2>3, <2>4, <2>5, <2>6 DEF ControlOK, Undisturbed, NoNewConns
  <2> QED  BY <2>2, <2>7, <2>8 DEF ControlOK, InAdd, Undisturbed, Shard

(* A shard's requests stay its own while they wait, ...                    *)
<1>AllOursKept. ASSUME NEW t \in Shards, NoNewConns(t), NEW q \in Seq(Requests), AllOurs(t, q)
                PROVE  AllOurs(t, q)'
  <2> USE <1>AllOursKept
  <2> SUFFICES ASSUME NEW i \in 1 .. Len(q) PROVE Ours(t, q[i])'
    BY DEF AllOurs
  <2>1. q[i] \in Requests  OBVIOUS
  <2>2. Ours(t, q[i])  BY DEF AllOurs
  <2> QED  BY <2>1, <2>2 DEF Ours, NoNewConns, Requests, Shard

(* ... and when one is posted.                                             *)
<1>AllOursPosted. ASSUME NEW t \in Shards, NoNewConns(t), NEW q \in Seq(Requests), AllOurs(t, q),
                         NEW r \in Requests, Ours(t, r)'
                  PROVE  AllOurs(t, Append(q, r))'
  <2> USE <1>AllOursPosted
  <2> SUFFICES ASSUME NEW i \in 1 .. Len(Append(q, r)) PROVE Ours(t, Append(q, r)[i])'
    BY DEF AllOurs
  <2>1. CASE Append(q, r)[i] = r  BY <2>1
  <2>2. CASE i \in 1 .. Len(q) /\ Append(q, r)[i] = q[i]
    BY <2>2, <1>AllOursKept DEF AllOurs
  <2> QED  BY <2>1, <2>2, Posted

(* The queues of a shard, when its channel stays and it takes at most the  *)
(* first request of its batch.                                             *)
<1>QueuesKept. ASSUME IInv, NEW t \in Shards, NoNewConns(t), sq'[t] = sq[t],
                      \/ sh'[t].batch = sh[t].batch
                      \/ sh[t].batch # <<>> /\ sh'[t].batch = Tail(sh[t].batch),
                      sh'[t].new \in {sh[t].new, NoConn}
               PROVE  QueuesOK(t)' /\ (Adding(t)' => Adding(t))
  <2> USE <1>QueuesKept
  <2> DEFINE b == sh[t].batch
             c == sh'[t].batch
  <2>1. sq[t] \in Seq(Requests) /\ b \in Seq(Requests)
    BY DEF IInv, ControlTypeOK, ShardStates
  <2>2. QueuesOK(t)  BY DEF IInv
  <2>3. AllOurs(t, c) /\ c \in Seq(Requests)
    BY Zenon, <2>1, <2>2, AllOursTail, TailOfBatch DEF QueuesOK
  <2>4. AllOurs(t, sq[t])'
    BY <2>1, <2>2, <1>AllOursKept DEF QueuesOK
  <2>5. AllOurs(t, sh[t].batch)'
    BY <2>3, <1>AllOursKept
  <2>6. (OneAdd(b) => OneAdd(c)) /\ (NoAdd(b) => NoAdd(c))
    BY <2>1, TailOfBatch
  <2> QED  BY <2>2, <2>4, <2>5, <2>6 DEF QueuesOK, Adding

(* The queues of a shard, when a request is posted to it: an AddSession    *)
(* only when none is under way.                                            *)
<1>QueuesPosted. ASSUME IInv, NEW t \in Shards, Undisturbed(t), NEW r \in Requests,
                        sq'[t] = Append(sq[t], r), Ours(t, r)', r.type = "add" => ~Adding(t)
                 PROVE  QueuesOK(t)' /\ (r.type # "add" => (Adding(t)' => Adding(t)))
  <2> USE <1>QueuesPosted
  <2> DEFINE q == sq[t]
             b == sh[t].batch
  <2>1. q \in Seq(Requests) /\ b \in Seq(Requests)
    BY DEF IInv, ControlTypeOK, ShardStates
  <2>2. QueuesOK(t)  BY DEF IInv
  <2>3. sh'[t] = sh[t] /\ NoNewConns(t)  BY DEF Undisturbed
  <2>4. AllOurs(t, q) /\ AllOurs(t, b)  BY <2>2 DEF QueuesOK
  <2>5. AllOurs(t, sh[t].batch)'  BY <2>1, <2>3, <2>4, <1>AllOursKept
  <2>6. AllOurs(t, sq[t])'  BY <2>1, <2>3, <2>4, <1>AllOursPosted
  <2>7. /\ r.type # "add" /\ OneAdd(q) => OneAdd(sq'[t])
        /\ r.type # "add" /\ NoAdd(q) => NoAdd(sq'[t])
        /\ NoAdd(q) => OneAdd(sq'[t])
    BY <2>1, Posted
  <2> QED  BY <2>2, <2>3, <2>5, <2>6, <2>7 DEF QueuesOK, Adding

(* No AddSession gets under way, and the cluster stays where it is.        *)
<1>AddsKept. ASSUME IInv, \A t \in Shards : Adding(t)' => Adding(t), cl'.pc = cl.pc
             PROVE  OneAtATime'
  BY <1>AddsKept DEF IInv, OneAtATime

(* A step that disturbs no shard and touches no channel.                   *)
<1>Quiet. ASSUME IInv, sh' = sh, sq' = sq, cq' = cq, cl' = cl,
                 place' \in [Conns -> Places],
                 \A k \in Conns : place'[k] = "conns" => place[k] = "conns",
                 session' \in [Clients -> Conns \cup {NoConn}],
                 \A c \in Clients : session'[c] \in {session[c], NoConn}
          PROVE  IInv'
  <2> USE <1>Quiet
  <2>1. ControlTypeOK' /\ ClusterOK'  BY DEF IInv, ControlTypeOK, ClusterOK
  <2>2. \A t \in Shards : Undisturbed(t)  BY DEF Undisturbed, NoNewConns
  <2>3. \A t \in Shards : ControlOK(t)'  BY <2>2, <1>ControlKept
  <2>4. \A t \in Shards : QueuesOK(t)' /\ (Adding(t)' => Adding(t))
    BY <2>2, <1>QueuesKept DEF Undisturbed
  <2> QED  BY <2>1, <2>3, <2>4, <1>AddsKept DEF IInv

(* A step of one shard.                                                    *)
<1>ShardActs. ASSUME IInv, NEW s \in Shards, NEW r \in ShardStates, sh' = [sh EXCEPT ![s] = r],
                     place' \in [Conns -> Places],
                     \A k \in Conns : Shard(k) # s /\ place'[k] = "conns" => place[k] = "conns",
                     session' \in [Clients -> Conns \cup {NoConn}],
                     \A c \in Clients : ShardOf[c] # s => session'[c] = session[c],
                     sq' \in [Shards -> Seq(Requests)],
                     \A t \in Shards : t # s => sq'[t] = sq[t],
                     cq' = cq, cl' \in ClusterStates, cl'.batch = cl.batch,
                     cl'.pc = cl.pc \/ (Adding(s) /\ ~Adding(s)'),
                     Adding(s)' => Adding(s), QueuesOK(s)', ControlOK(s)'
              PROVE  IInv'
  <2> USE <1>ShardActs
  <2>1. sh' \in [Shards -> ShardStates] /\ \A t \in Shards : t # s => sh'[t] = sh[t]
    BY DEF IInv, ControlTypeOK
  <2>2. ControlTypeOK'  BY <2>1 DEF IInv, ControlTypeOK
  <2>3. ClusterOK'  BY DEF IInv, ClusterOK
  <2>4. \A t \in Shards : t # s => Undisturbed(t)  BY <2>1 DEF Undisturbed, NoNewConns
  <2>5. \A t \in Shards : t # s => ControlOK(t)'  BY <2>4, <1>ControlKept
  <2>6. \A t \in Shards : t # s => QueuesOK(t)' /\ (Adding(t)' => Adding(t))
    BY <2>4, <1>QueuesKept DEF Undisturbed
  <2>7. OneAtATime'
    <3>1. CASE cl'.pc = cl.pc  BY <3>1, <2>6, <1>AddsKept
    <3>2. CASE Adding(s) /\ ~Adding(s)'
      BY Zenon, <3>2, <2>6 DEF IInv, OneAtATime
    <3> QED  BY <3>1, <3>2
  <2> QED  BY <2>2, <2>3, <2>5, <2>6, <2>7 DEF IInv

(***************************************************************************)
(* The steps of the handshakes, the clients and the miot threads.          *)
(***************************************************************************)
(* Steps of handshakes, clients and resets: no shard notices.              *)
<1>QuietSteps. ASSUME IInv, NEW k \in Conns,
                      \/ AcceptConn(k) \/ HandshakeFails(k) \/ ClientSends(k)
                      \/ ClientEnds(k) \/ SocketReset(k)
               PROVE  IInv'
  <2> USE <1>QuietSteps
  <2>1. place \in [Conns -> Places] /\ session \in [Clients -> Conns \cup {NoConn}]
    BY DEF IInv, ControlTypeOK
  <2>2. sh' = sh /\ sq' = sq /\ cq' = cq /\ cl' = cl /\ session' = session
    BY DEF AcceptConn, HandshakeFails, ClientSends, ClientEnds, SocketReset
  <2>3. /\ place' \in [Conns -> Places]
        /\ \A j \in Conns : place'[j] = "conns" => place[j] = "conns"
    BY <2>1 DEF AcceptConn, HandshakeFails, ClientSends, ClientEnds, SocketReset,
                sockVars, Places
  <2> QED  BY <2>1, <2>2, <2>3, <1>Quiet

(* handle_remove_connection and the FlushConnection it posts.              *)
<1>Fails. ASSUME IInv, NEW k \in Conns, FailConnection(k), sh' = sh, cq' = cq, cl' = cl,
                 session' = session
          PROVE  IInv'
  <2> USE <1>Fails
  <2> DEFINE s == Shard(k)
  <2>1. s \in Shards  BY BrokerAssumption DEF Shard
  <2>2. /\ place \in [Conns -> Places] /\ sq \in [Shards -> Seq(Requests)]
        /\ Flush(k) \in Requests /\ Flush(k).type = "flush" /\ Flush(k).conn = k
    BY MadeRequests DEF IInv, ControlTypeOK
  <2>3. /\ place' \in [Conns -> Places]
        /\ \A j \in Conns : place'[j] = "conns" => place[j] = "conns"
    BY <2>2 DEF FailConnection, Places
  <2>4. sq'[s] = Append(sq[s], Flush(k)) /\ \A t \in Shards : t # s => sq'[t] = sq[t]
    BY <2>1, <2>2 DEF FailConnection
  <2>5. sq' \in [Shards -> Seq(Requests)]
    BY <2>1, <2>2, Posted DEF FailConnection
  <2>6. ControlTypeOK' /\ ClusterOK'
    BY <2>3, <2>5 DEF IInv, ControlTypeOK, ClusterOK
  <2>7. \A t \in Shards : Undisturbed(t)  BY <2>3 DEF Undisturbed, NoNewConns
  <2>8. \A t \in Shards : ControlOK(t)'  BY <2>7, <1>ControlKept
  <2>9. Ours(s, Flush(k))'  BY <2>2 DEF Ours, Shard
  <2>10. \A t \in Shards : QueuesOK(t)' /\ (Adding(t)' => Adding(t))
    <3>1. QueuesOK(s)' /\ (Adding(s)' => Adding(s))
      BY <2>1, <2>2, <2>4, <2>7, <2>9, <1>QueuesPosted
    <3>2. ASSUME NEW t \in Shards, t # s PROVE QueuesOK(t)' /\ (Adding(t)' => Adding(t))
      BY <3>2, <2>4, <2>7, <1>QueuesKept DEF Undisturbed
    <3> QED  BY <3>1, <3>2
  <2> QED  BY <2>6, <2>8, <2>10, <1>AddsKept DEF IInv

(* The miot thread reads, writes, or gives up a socket.                    *)
<1>MiotSteps. ASSUME IInv, NEW k \in Conns,
                     SocketToSession(k) \/ SocketFin(k) \/ SocketTimeout(k) \/ SessionToSocket(k)
              PROVE  IInv'
  <2> USE <1>MiotSteps
  <2>1. sh' = sh /\ cq' = cq /\ cl' = cl /\ session' = session
    BY Zenon DEF SocketToSession, SocketFin, SocketTimeout, SessionToSocket
  <2>2. FailConnection(k) \/ (place' = place /\ sq' = sq)
    BY Zenon DEF SocketToSession, SocketFin, SocketTimeout, SessionToSocket
  <2>3. CASE FailConnection(k)  BY <2>1, <2>3, <1>Fails
  <2>4. CASE place' = place /\ sq' = sq
    BY <2>1, <2>4, <1>Quiet DEF IInv, ControlTypeOK
  <2> QED  BY <2>2, <2>3, <2>4

(***************************************************************************)
(* The steps of the cluster.                                               *)
(***************************************************************************)
(* A step of the cluster that posts nothing to the shards, and that does   *)
(* not wait for one.                                                       *)
<1>ClusterActs. ASSUME IInv, sh' = sh, sq' = sq, session' = session,
                       place' \in [Conns -> Places],
                       \A k \in Conns : place'[k] = "conns" => place[k] = "conns",
                       cq' \in Seq(Requests), cl' \in ClusterStates, ClusterOK',
                       cl'.pc = cl.pc \/ cl.pc # "shard"
                PROVE  IInv'
  <2> USE <1>ClusterActs
  <2>1. ControlTypeOK'  BY DEF IInv, ControlTypeOK
  <2>2. \A t \in Shards : Undisturbed(t)  BY DEF Undisturbed, NoNewConns
  <2>3. \A t \in Shards : ControlOK(t)'  BY <2>2, <1>ControlKept
  <2>4. \A t \in Shards : QueuesOK(t)' /\ (Adding(t)' => Adding(t))
    BY <2>2, <1>QueuesKept DEF Undisturbed
  <2>5. OneAtATime'  BY <2>4 DEF IInv, OneAtATime
  <2> QED  BY <2>1, <2>3, <2>4, <2>5 DEF IInv

(* A handshake posts its AddConnection to the cluster.                     *)
<1>HandOverStep. ASSUME IInv, NEW k \in Conns, HandOver(k)
                 PROVE  IInv'
  <2> USE <1>HandOverStep
  <2>1. /\ place \in [Conns -> Places] /\ cq \in Seq(Requests) /\ cl \in ClusterStates
        /\ Add(k) \in Requests /\ Add(k).conn = k
    BY MadeRequests DEF IInv, ControlTypeOK
  <2>2. sh' = sh /\ sq' = sq /\ session' = session /\ cl' = cl  BY DEF HandOver
  <2>3. /\ place' \in [Conns -> Places]
        /\ \A j \in Conns : place'[j] = "conns" => place[j] = "conns"
    BY <2>1 DEF HandOver, Places
  <2>4. cq' = cq \/ cq' = Append(cq, Add(k))  BY DEF HandOver
  <2>5. cq' \in Seq(Requests)  BY <2>1, <2>4, Posted
  <2>6. ClusterOK'  BY SMTT(30), <2>1, <2>2, <2>4, Posted DEF IInv, ClusterOK
  <2> QED  BY <2>1, <2>2, <2>3, <2>5, <2>6, <1>ClusterActs

(* The application posts Close to the cluster.                             *)
<1>AskCloseStep. ASSUME IInv, AskClose
                 PROVE  IInv'
  <2> USE <1>AskCloseStep
  <2>1. /\ place \in [Conns -> Places] /\ cq \in Seq(Requests) /\ cl \in ClusterStates
        /\ Close \in Requests /\ Close.type = "close"
    BY MadeRequests DEF IInv, ControlTypeOK
  <2>2. /\ sh' = sh /\ sq' = sq /\ session' = session /\ place' = place
        /\ cl' = [cl EXCEPT !.asked = TRUE] /\ cq' = Append(cq, Close)
    BY DEF AskClose, sockVars
  <2>3. cl' \in ClusterStates  BY Zenon, <2>1, <2>2 DEF ClusterStates
  <2>4. cl'.pc = cl.pc /\ cl'.batch = cl.batch  BY <2>1, <2>2 DEF ClusterStates
  <2>5. cq' \in Seq(Requests)  BY <2>1, <2>2, Posted
  <2>6. ClusterOK'  BY SMTT(30), <2>1, <2>2, <2>4, Posted DEF IInv, ClusterOK
  <2> QED  BY <2>1, <2>2, <2>3, <2>4, <2>5, <2>6, <1>ClusterActs

(* The cluster takes what is in its channel.                               *)
<1>DrainClusterStep. ASSUME IInv, DrainCluster
                     PROVE  IInv'
  <2> USE <1>DrainClusterStep
  <2>1. place \in [Conns -> Places] /\ cq \in Seq(Requests) /\ cl \in ClusterStates
    BY DEF IInv, ControlTypeOK
  <2>2. /\ sh' = sh /\ sq' = sq /\ session' = session /\ place' = place
        /\ cl' = [cl EXCEPT !.batch = cq] /\ cq' = <<>>
    BY DEF DrainCluster, sockVars
  <2>3. cl' \in ClusterStates /\ cl'.pc = cl.pc /\ cl'.batch = cq
    BY <2>1, <2>2 DEF ClusterStates
  <2>4. ClusterOK'  BY <2>2, <2>3, EmptyQueue DEF IInv, ClusterOK
  <2> QED  BY <2>1, <2>2, <2>3, <2>4, EmptyQueue, <1>ClusterActs

(* The cluster starts to close; it is not waiting for a shard.             *)
<1>HandleCloseStep. ASSUME IInv, HandleClose
                    PROVE  IInv'
  <2> USE <1>HandleCloseStep
  <2>1. place \in [Conns -> Places] /\ cq \in Seq(Requests) /\ cl \in ClusterStates
    BY DEF IInv, ControlTypeOK
  <2>2. /\ sh' = sh /\ sq' = sq /\ session' = session /\ place' = place /\ cq' = cq
        /\ cl.pc = "main" /\ cl.batch # <<>>
        /\ cl' = [cl EXCEPT !.pc = "closing", !.batch = Tail(@)]
    BY DEF HandleClose, Handling, sockVars
  <2>3. cl.batch \in Seq(Requests)  BY <2>1 DEF ClusterStates
  <2>4. cl' \in ClusterStates /\ cl'.batch = Tail(cl.batch)
    BY Zenon, <2>1, <2>2, <2>3, TailOfBatch DEF ClusterStates
  <2>5. ClusterOK'  BY <2>2, <2>3, <2>4, TailOfBatch DEF IInv, ClusterOK
  <2> QED  BY <2>1, <2>2, <2>4, <2>5, <1>ClusterActs

(* The cluster has joined a shard that it closed.                          *)
<1>JoinShardStep. ASSUME IInv, JoinShard
                  PROVE  IInv'
  <2> USE <1>JoinShardStep
  <2>1. place \in [Conns -> Places] /\ cq \in Seq(Requests) /\ cl \in ClusterStates
    BY DEF IInv, ControlTypeOK
  <2>2. /\ sh' = sh /\ sq' = sq /\ session' = session /\ place' = place /\ cq' = cq
        /\ cl.pc = "join" /\ cl' = [cl EXCEPT !.pc = "closing"]
    BY DEF JoinShard, sockVars
  <2>3. cl' \in ClusterStates /\ cl'.batch = cl.batch  BY <2>1, <2>2 DEF ClusterStates
  <2>4. ClusterOK'  BY <2>2, <2>3 DEF IInv, ClusterOK
  <2> QED  BY <2>1, <2>2, <2>3, <2>4, <1>ClusterActs

(* The cluster ends and drops the sockets it still has.                    *)
<1>ExitClusterStep. ASSUME IInv, ExitCluster
                    PROVE  IInv'
  <2> USE <1>ExitClusterStep
  <2>1. place \in [Conns -> Places] /\ cq \in Seq(Requests) /\ cl \in ClusterStates
    BY DEF IInv, ControlTypeOK
  <2>2. /\ sh' = sh /\ sq' = sq /\ session' = session /\ cq' = <<>> /\ cl.pc = "closing"
        /\ cl' = [cl EXCEPT !.pc = IF cl.batch = <<>> THEN "exited" ELSE "panicked",
                            !.batch = <<>>]
    BY DEF ExitCluster
  <2>3. cl' \in ClusterStates /\ cl'.batch = <<>>
    BY Zenon, <2>1, <2>2, EmptyQueue DEF ClusterStates
  <2>4. /\ place' \in [Conns -> Places]
        /\ \A j \in Conns : place'[j] = "conns" => place[j] = "conns"
    BY <2>1 DEF ExitCluster, Dropped, Places
  <2>5. ClusterOK'  BY <2>2, <2>3, EmptyQueue DEF ClusterOK
  <2> QED  BY <2>2, <2>3, <2>4, <2>5, EmptyQueue, <1>ClusterActs

(* A request posted to shard s by the cluster, which waits for nothing     *)
(* else.                                                                   *)
<1>ClusterPosts. ASSUME IInv, NEW s \in Shards, NEW r \in Requests, sq' = [sq EXCEPT ![s] = Append(@, r)],
                        Ours(s, r)', sh' = sh, session' = session, cq' = cq,
                        place' \in [Conns -> Places],
                        \A k \in Conns : place'[k] = "conns" => place[k] = "conns",
                        cl' \in ClusterStates, ClusterOK', cl.pc # "shard",
                        r.type = "add" => cl'.pc = "shard"
                 PROVE  IInv'
  <2> USE <1>ClusterPosts
  <2>1. sq \in [Shards -> Seq(Requests)]  BY DEF IInv, ControlTypeOK
  <2>2. sq'[s] = Append(sq[s], r) /\ \A t \in Shards : t # s => sq'[t] = sq[t]
    BY <2>1
  <2>3. sq' \in [Shards -> Seq(Requests)]  BY <2>1, Posted
  <2>4. ControlTypeOK'  BY <2>3 DEF IInv, ControlTypeOK
  <2>5. \A t \in Shards : ~Adding(t)  BY DEF IInv, OneAtATime
  <2>6. \A t \in Shards : Undisturbed(t)  BY DEF Undisturbed, NoNewConns
  <2>7. \A t \in Shards : ControlOK(t)'  BY <2>6, <1>ControlKept
  <2>8. QueuesOK(s)' /\ (r.type # "add" => ~Adding(s)')
    BY <2>2, <2>5, <2>6, <1>QueuesPosted
  <2>9. \A t \in Shards : t # s => QueuesOK(t)' /\ ~Adding(t)'
    BY <2>2, <2>5, <2>6, <1>QueuesKept DEF Undisturbed
  <2>10. OneAtATime'  BY <2>8, <2>9 DEF OneAtATime
  <2> QED  BY <2>4, <2>7, <2>8, <2>9, <2>10 DEF IInv

(* The cluster posts Close to a shard.                                     *)
<1>CloseShardStep. ASSUME IInv, CloseShard
                   PROVE  IInv'
  <2> USE <1>CloseShardStep
  <2>1. place \in [Conns -> Places] /\ cl \in ClusterStates
    BY DEF IInv, ControlTypeOK
  <2>2. PICK s \in cl.left : /\ sq' = [sq EXCEPT ![s] = Append(@, Close)]
                             /\ cl' = [cl EXCEPT !.pc = "join", !.left = @ \ {s}]
    BY Zenon DEF CloseShard
  <2>3. sh' = sh /\ session' = session /\ place' = place /\ cq' = cq /\ cl.pc = "closing"
    BY DEF CloseShard, sockVars
  <2>4. s \in Shards  BY <2>1 DEF ClusterStates
  <2>5. cl' \in ClusterStates /\ cl'.batch = cl.batch  BY Zenon, <2>1, <2>2 DEF ClusterStates
  <2>6. ClusterOK'  BY <2>3, <2>5 DEF IInv, ClusterOK
  <2>7. Ours(s, Close)'  BY MadeRequests DEF Ours
  <2> QED  BY Zenon, <2>1, <2>2, <2>3, <2>4, <2>5, <2>6, <2>7, MadeRequests, <1>ClusterPosts

(* The cluster posts AddSession to a shard and waits: none was under way.  *)
<1>HandleAddConnectionStep. ASSUME IInv, HandleAddConnection
                            PROVE  IInv'
  <2> USE <1>HandleAddConnectionStep
  <2>1. place \in [Conns -> Places] /\ cl \in ClusterStates /\ cl.batch \in Seq(Requests)
    BY DEF IInv, ControlTypeOK, ClusterStates
  <2>2. cl.pc = "main" /\ cl.batch # <<>> /\ Head(cl.batch).type = "add"
    BY DEF HandleAddConnection, Handling
  <2>3. PICK k \in Conns : k = Head(cl.batch).conn
    BY <2>1, <2>2, TailOfBatch DEF IInv, ClusterOK
  <2>4. Shard(k) \in Shards  BY BrokerAssumption DEF Shard
  <2>5. sh' = sh /\ session' = session /\ cq' = cq  BY DEF HandleAddConnection
  <2>6. CASE PeerAddr(k)
    <3>1. /\ place' = [place EXCEPT ![k] = "shard"]
          /\ sq' = [sq EXCEPT ![Shard(k)] = Append(@, Add(k))]
          /\ cl' = [cl EXCEPT !.pc = "shard", !.batch = Tail(@)]
      BY <2>3, <2>6 DEF HandleAddConnection
    <3>2. cl' \in ClusterStates /\ cl'.batch = Tail(cl.batch) /\ cl'.pc = "shard"
      BY Zenon, <2>1, <2>2, <3>1, TailOfBatch DEF ClusterStates
    <3>3. ClusterOK'  BY SMTT(30), <2>1, <2>2, <2>5, <3>2, TailOfBatch DEF IInv, ClusterOK
    <3>4. /\ place' \in [Conns -> Places]
          /\ \A j \in Conns : place'[j] = "conns" => place[j] = "conns"
      BY <2>1, <3>1 DEF Places
    <3>5. place'[k] = "shard"  BY <2>1, <3>1
    <3>6. Ours(Shard(k), Add(k))'  BY <3>5, MadeRequests DEF Ours, Shard
    <3> QED
      BY Zenon, <2>2, <2>4, <2>5, <3>1, <3>2, <3>3, <3>4, <3>6, MadeRequests, <1>ClusterPosts
  <2>7. CASE ~PeerAddr(k)
    <3>1. place' = place /\ sq' = sq /\ cl' = cl  BY <2>3, <2>7 DEF HandleAddConnection
    <3> QED  BY <2>1, <2>5, <3>1, <1>Quiet DEF IInv, ControlTypeOK
  <2> QED  BY <2>3, <2>6, <2>7

(* A shard that is not in the middle of a request to another thread.       *)
<1>Settled. ASSUME NEW s \in Shards,
                   sh'[s].pc \in {"poll", "drain", "failed", "slow", "close", "exited"},
                   sh'[s].new = NoConn, sh'[s].ret \in {"poll", "drain", "add", "failed", "slow"},
                   \A c \in sh'[s].todo : ShardOf[c] = s
            PROVE  ControlOK(s)'
  BY <1>Settled DEF ControlOK, InAdd

(* A step of a settled shard that leaves its channel alone, adds no        *)
(* session of its own and no socket.                                       *)
<1>SettledActs. ASSUME IInv, NEW s \in Shards, NEW r \in ShardStates, sh' = [sh EXCEPT ![s] = r],
                       r.pc \in {"poll", "drain", "failed", "slow", "close", "exited"},
                       r.new = NoConn, r.ret \in {"poll", "drain", "add", "failed", "slow"},
                       \A c \in r.todo : ShardOf[c] = s,
                       \/ r.batch = sh[s].batch
                       \/ sh[s].batch # <<>> /\ r.batch = Tail(sh[s].batch),
                       place' = place, session' = session, sq' = sq, cq' = cq, cl' = cl
                PROVE  IInv'
  <2> USE <1>SettledActs
  <2>1. sh'[s] = r  BY Known
  <2>2. ControlOK(s)'  BY <2>1, <1>Settled
  <2>3. NoNewConns(s)  BY DEF NoNewConns
  <2>4. QueuesOK(s)' /\ (Adding(s)' => Adding(s))  BY <2>1, <2>3, <1>QueuesKept
  <2> QED  BY Zenon, <2>2, <2>4, Known, <1>ShardActs

(* pending_requests moves the channel, and its AddSession, to the batch.   *)
<1>DrainStep. ASSUME IInv, NEW s \in Shards, Drain(s)
              PROVE  IInv'
  <2> USE <1>DrainStep
  <2> DEFINE r == [sh[s] EXCEPT !.pc = "drain", !.batch = sq[s]]
  <2>1. sh[s] \in ShardStates /\ sq[s] \in Seq(Requests) /\ sh[s].pc = "poll"
    BY Known DEF Drain, At
  <2>2. sh' = [sh EXCEPT ![s] = r] /\ sq' = [sq EXCEPT ![s] = <<>>]
    BY Zenon, Known DEF Drain
  <2>3. r \in ShardStates  BY <2>1, Zenon DEF ShardStates, ShardPcs
  <2>4. /\ r.pc = "drain" /\ r.batch = sq[s] /\ r.new = sh[s].new /\ r.todo = sh[s].todo
        /\ r.ret = sh[s].ret
    BY <2>1 DEF ShardStates
  <2>5. place' = place /\ session' = session /\ cq' = cq /\ cl' = cl
    BY DEF Drain, sockVars
  <2> HIDE DEF r
  <2>6. sh'[s] = r  BY <2>2, Known
  <2>7. ControlOK(s) /\ QueuesOK(s)  BY Known
  <2>8. sh[s].new = NoConn  BY <2>1, <2>7 DEF ControlOK, InAdd
  <2>9. ControlOK(s)'  BY Zenon, <2>4, <2>6, <2>7, <2>8, <1>Settled DEF ControlOK
  <2>10. /\ sq' \in [Shards -> Seq(Requests)] /\ sq'[s] = <<>>
         /\ \A t \in Shards : t # s => sq'[t] = sq[t]
    BY Zenon, <2>2, Known, EmptyQueue
  <2>11. QueuesOK(s)' /\ (Adding(s)' => Adding(s))
    <3>1. NoNewConns(s)  BY <2>5 DEF NoNewConns
    <3>2. AllOurs(s, sh[s].batch)'
      BY <2>1, <2>4, <2>6, <2>7, <3>1, <1>AllOursKept DEF QueuesOK
    <3>3. AllOurs(s, sq[s])'
      <4>1. sq'[s] = <<>>  BY Zenon, <2>10
      <4>2. 1 .. Len(<<>>) = {}  BY EmptyQueue
      <4> QED  BY Zenon, <4>1, <4>2 DEF AllOurs
    <3> QED  BY <2>4, <2>6, <2>7, <2>8, <2>10, <3>2, <3>3, EmptyQueue DEF QueuesOK, Adding
  <2> QED  BY Zenon, <2>2, <2>3, <2>5, <2>9, <2>10, <2>11, Known, <1>ShardActs

(* The end of an iteration.                                                *)
<1>EndIterationStep. ASSUME IInv, NEW s \in Shards, EndIteration(s)
                     PROVE  IInv'
  <2> USE <1>EndIterationStep
  <2> DEFINE r == [sh[s] EXCEPT !.pc = "poll"]
  <2>1. sh[s] \in ShardStates /\ sh[s].pc = "slow" /\ ControlOK(s)
    BY Zenon, Known DEF EndIteration, At
  <2>2. sh' = [sh EXCEPT ![s] = r]  BY Zenon, Known DEF EndIteration, Goto
  <2>3. r \in ShardStates  BY <2>1, Zenon DEF ShardStates, ShardPcs
  <2>4. /\ r.pc = "poll" /\ r.batch = sh[s].batch /\ r.new = sh[s].new
        /\ r.todo = sh[s].todo /\ r.ret = sh[s].ret
    BY <2>1 DEF ShardStates
  <2>5. place' = place /\ session' = session /\ sq' = sq /\ cq' = cq /\ cl' = cl
    BY DEF EndIteration, sockVars
  <2> HIDE DEF r
  <2>6. sh[s].new = NoConn  BY <2>1 DEF ControlOK, InAdd
  <2> QED  BY Zenon, <2>1, <2>2, <2>3, <2>4, <2>5, <2>6, <1>SettledActs DEF ControlOK

(* The shard takes Close from its batch.                                   *)
<1>CloseRequestStep. ASSUME IInv, NEW s \in Shards, CloseRequest(s)
                     PROVE  IInv'
  <2> USE <1>CloseRequestStep
  <2> DEFINE r == [sh[s] EXCEPT !.pc = "close", !.batch = Tail(sh[s].batch)]
  <2>1. sh[s] \in ShardStates /\ sh[s].pc = "drain" /\ ControlOK(s) /\ sh[s].batch # <<>>
    BY Known DEF CloseRequest, At
  <2>2. sh' = [sh EXCEPT ![s] = r]  BY Zenon, Known DEF CloseRequest
  <2>3. Tail(sh[s].batch) \in Seq(Requests)  BY Zenon, <2>1, Known, TailOfBatch
  <2>4. r \in ShardStates  BY <2>1, <2>3, Zenon DEF ShardStates, ShardPcs
  <2>5. /\ r.pc = "close" /\ r.batch = Tail(sh[s].batch) /\ r.new = sh[s].new
        /\ r.todo = sh[s].todo /\ r.ret = sh[s].ret
    BY <2>1 DEF ShardStates
  <2>6. place' = place /\ session' = session /\ sq' = sq /\ cq' = cq /\ cl' = cl
    BY DEF CloseRequest, sockVars
  <2> HIDE DEF r
  <2>7. sh[s].new = NoConn  BY <2>1 DEF ControlOK, InAdd
  <2> QED  BY Zenon, <2>1, <2>2, <2>4, <2>5, <2>6, <2>7, <1>SettledActs DEF ControlOK

(* route_packets finds failed sessions, all of them its own.               *)
<1>RoutePacketsStep. ASSUME IInv, NEW s \in Shards, RoutePackets(s)
                     PROVE  IInv'
  <2> USE <1>RoutePacketsStep
  <2>1. sh[s] \in ShardStates /\ sh[s].pc = "drain" /\ ControlOK(s)
    BY Zenon, Known DEF RoutePackets, At
  <2>2. place' = place /\ session' = session /\ sq' = sq /\ cq' = cq /\ cl' = cl
    BY Zenon DEF RoutePackets
  <2>3. \/ sh' = sh
        \/ \E todo, acked \in SUBSET Sessions(s) :
             sh' = [sh EXCEPT ![s].pc = "failed", ![s].todo = todo, ![s].acked = acked]
    BY Zenon DEF RoutePackets
  <2>4. CASE sh' = sh  BY <2>2, <2>4, Known, <1>Quiet
  <2>5. ASSUME NEW todo \in SUBSET Sessions(s), NEW acked \in SUBSET Sessions(s),
               sh' = [sh EXCEPT ![s].pc = "failed", ![s].todo = todo, ![s].acked = acked]
        PROVE  IInv'
    <3> DEFINE r == [sh[s] EXCEPT !.pc = "failed", !.todo = todo, !.acked = acked]
    <3>1. sh' = [sh EXCEPT ![s] = r]  BY <2>5, Zenon, Known
    <3>2. /\ todo \in SUBSET Clients /\ acked \in SUBSET Clients
          /\ \A c \in todo : ShardOf[c] = s
      BY DEF Sessions
    <3>3. r \in ShardStates  BY <2>1, <3>2, Zenon DEF ShardStates, ShardPcs
    <3>4. /\ r.pc = "failed" /\ r.batch = sh[s].batch /\ r.new = sh[s].new
          /\ r.todo = todo /\ r.ret = sh[s].ret
      BY <2>1 DEF ShardStates
    <3> HIDE DEF r
    <3>5. sh[s].new = NoConn  BY <2>1 DEF ControlOK, InAdd
    <3> QED  BY Zenon, <2>1, <2>2, <3>1, <3>2, <3>3, <3>4, <3>5, <1>SettledActs DEF ControlOK
  <2> QED  BY Zenon, <2>3, <2>4, <2>5

(* commit_acks and out_acks_flush find failed sessions, all its own.       *)
<1>CommitAcksStep. ASSUME IInv, NEW s \in Shards, CommitAcks(s)
                   PROVE  IInv'
  <2> USE <1>CommitAcksStep
  <2>1. sh[s] \in ShardStates /\ sh[s].pc = "failed" /\ ControlOK(s)
    BY Zenon, Known DEF CommitAcks, At
  <2>2. place' = place /\ session' = session /\ sq' = sq /\ cq' = cq /\ cl' = cl
    BY Zenon DEF CommitAcks
  <2>3. \/ sh' = sh
        \/ \E todo \in SUBSET Sessions(s) :
             sh' = [sh EXCEPT ![s].pc = "slow", ![s].todo = todo, ![s].acked = {}]
    BY Zenon DEF CommitAcks
  <2>4. CASE sh' = sh  BY <2>2, <2>4, Known, <1>Quiet
  <2>5. ASSUME NEW todo \in SUBSET Sessions(s),
               sh' = [sh EXCEPT ![s].pc = "slow", ![s].todo = todo, ![s].acked = {}]
        PROVE  IInv'
    <3> DEFINE r == [sh[s] EXCEPT !.pc = "slow", !.todo = todo, !.acked = {}]
    <3>1. sh' = [sh EXCEPT ![s] = r]  BY <2>5, Zenon, Known
    <3>2. todo \in SUBSET Clients /\ {} \in SUBSET Clients /\ \A c \in todo : ShardOf[c] = s
      BY DEF Sessions
    <3>3. r \in ShardStates  BY <2>1, <3>2, Zenon DEF ShardStates, ShardPcs
    <3>4. /\ r.pc = "slow" /\ r.batch = sh[s].batch /\ r.new = sh[s].new
          /\ r.todo = todo /\ r.ret = sh[s].ret
      BY <2>1 DEF ShardStates
    <3> HIDE DEF r
    <3>5. sh[s].new = NoConn  BY <2>1 DEF ControlOK, InAdd
    <3> QED  BY Zenon, <2>1, <2>2, <3>1, <3>2, <3>3, <3>4, <3>5, <1>SettledActs DEF ControlOK
  <2> QED  BY Zenon, <2>3, <2>4, <2>5

(* The shard ends: its sessions and the sockets in its channel are dropped.*)
<1>ExitShardStep. ASSUME IInv, NEW s \in Shards, ExitShard(s)
                  PROVE  IInv'
  <2> USE <1>ExitShardStep
  <2>1. sh[s] \in ShardStates /\ sh[s].pc = "close" /\ ControlOK(s)
    BY Known DEF ExitShard, At
  <2>2. /\ cq' = cq /\ cl' = cl
        /\ session' = [c \in Clients |-> IF ShardOf[c] = s THEN NoConn ELSE session[c]]
    BY DEF ExitShard
  <2>3. /\ session' \in [Clients -> Conns \cup {NoConn}]
        /\ \A c \in Clients : session'[c] \in {session[c], NoConn}
        /\ \A c \in Clients : ShardOf[c] # s => session'[c] = session[c]
    BY <2>2, Known
  <2>4. CASE sh[s].batch = <<>>
    <3> DEFINE r == [sh[s] EXCEPT !.pc = "exited"]
    <3>1. sh' = [sh EXCEPT ![s] = r]  BY <2>4, Zenon, Known DEF ExitShard, Goto
    <3>2. r \in ShardStates  BY <2>1, Zenon DEF ShardStates, ShardPcs
    <3>3. /\ r.pc = "exited" /\ r.batch = sh[s].batch /\ r.new = sh[s].new
          /\ r.todo = sh[s].todo /\ r.ret = sh[s].ret
      BY <2>1 DEF ShardStates
    <3> HIDE DEF r
    <3>4. sh[s].new = NoConn  BY Zenon, <2>1 DEF ControlOK, InAdd
    <3>5. sh'[s] = r  BY Zenon, <3>1, Known
    <3>6. ControlOK(s)'  BY ZenonT(40), <2>1, <3>3, <3>4, <3>5, <1>Settled DEF ControlOK
    <3>7. sq' = [sq EXCEPT ![s] = <<>>] /\ place' = Dropped(SocketsIn(sq[s]))
      BY Zenon, <2>4 DEF ExitShard
    <3>8. /\ sq' \in [Shards -> Seq(Requests)] /\ sq'[s] = <<>>
          /\ \A t \in Shards : t # s => sq'[t] = sq[t]
      BY <3>7, Known, EmptyQueue
    <3>9. /\ place' \in [Conns -> Places]
          /\ \A k \in Conns : place'[k] = "conns" => place[k] = "conns"
      BY <3>7, Known DEF Dropped, Places
    <3>10. QueuesOK(s)' /\ ~Adding(s)'
      BY SMTT(30), <2>4, <3>3, <3>4, <3>5, <3>8, EmptyQueue DEF QueuesOK, Adding, AllOurs
    <3> QED  BY Zenon, <2>2, <2>3, <3>1, <3>2, <3>6, <3>8, <3>9, <3>10, Known, <1>ShardActs
  <2>5. CASE sh[s].batch # <<>>
    <3>1. sh' = sh /\ sq' = sq /\ place' = place  BY Zenon, <2>5 DEF ExitShard
    <3> QED  BY <2>2, <2>3, <3>1, Known, <1>Quiet
  <2> QED  BY <2>4, <2>5

(* The session is filed: the AddSession is over, and no other is under way.*)
<1>InsertSessionStep. ASSUME IInv, NEW s \in Shards, InsertSession(s)
                      PROVE  IInv'
  <2> USE <1>InsertSessionStep
  <2> DEFINE r == [sh[s] EXCEPT !.pc = "drain", !.new = NoConn]
  <2>1. sh[s] \in ShardStates /\ sh[s].pc = "insert" /\ ControlOK(s) /\ QueuesOK(s)
    BY Known DEF InsertSession, At
  <2>2. sh[s].new \in Conns /\ sh[s].new # NoConn /\ Shard(sh[s].new) = s
    BY Zenon, <2>1, Known DEF ControlOK, InAdd
  <2>3. sh' = [sh EXCEPT ![s] = r]  BY Zenon, Known DEF InsertSession
  <2>4. r \in ShardStates  BY <2>1, Zenon DEF ShardStates, ShardPcs
  <2>5. /\ r.pc = "drain" /\ r.batch = sh[s].batch /\ r.new = NoConn
        /\ r.todo = sh[s].todo /\ r.ret = sh[s].ret
    BY <2>1 DEF ShardStates
  <2> HIDE DEF r
  <2>6. sh'[s] = r  BY Zenon, <2>3, Known
  <2>7. ControlOK(s)'  BY Zenon, <2>1, <2>5, <2>6, <1>Settled DEF ControlOK
  <2>8. /\ place' = place /\ sq' = sq /\ cq' = cq /\ cl' = [cl EXCEPT !.pc = "main"]
        /\ session' = [session EXCEPT ![ClientOf[sh[s].new]] = sh[s].new]
    BY DEF InsertSession, sockVars
  <2>9. cl' \in ClusterStates /\ cl'.batch = cl.batch  BY Zenon, <2>8, Known DEF ClusterStates
  <2>10. /\ session' \in [Clients -> Conns \cup {NoConn}]
         /\ \A c \in Clients : ShardOf[c] # s => session'[c] = session[c]
    BY <2>2, <2>8, Known, BrokerAssumption DEF Shard
  <2>11. NoNewConns(s)  BY <2>8 DEF NoNewConns
  <2>12. QueuesOK(s)'  BY <2>5, <2>6, <2>8, <2>11, <1>QueuesKept
  <2>13. Adding(s)  BY <2>2 DEF Adding
  <2>14. ~Adding(s)'  BY <2>1, <2>2, <2>5, <2>6, <2>8 DEF Adding, QueuesOK
  <2> QED
    BY Zenon, <2>3, <2>4, <2>7, <2>8, <2>9, <2>10, <2>12, <2>13, <2>14, Known, <1>ShardActs

(* The shard asks for the socket of its next failed session.               *)
<1>DisconnectNextStep. ASSUME IInv, NEW s \in Shards, DisconnectNext(s)
                       PROVE  IInv'
  <2> USE <1>DisconnectNextStep
  <2>1. sh[s] \in ShardStates /\ sh[s].pc \in {"failed", "slow"} /\ ControlOK(s)
    BY Known DEF DisconnectNext
  <2>2. PICK c \in sh[s].todo :
          sh' = [sh EXCEPT ![s].todo = @ \ {c}, ![s].rm = c,
                           ![s].pc = "remove", ![s].ret = sh[s].pc]
    BY Zenon DEF DisconnectNext
  <2> DEFINE r == [sh[s] EXCEPT !.todo = @ \ {c}, !.rm = c, !.pc = "remove", !.ret = sh[s].pc]
  <2>3. sh' = [sh EXCEPT ![s] = r]  BY <2>2, Zenon, Known
  <2>4. sh[s].todo \ {c} \in SUBSET Clients /\ c \in Clients \cup {NoClient} /\ c \in Clients
        /\ sh[s].pc \in ShardPcs
    BY <2>1, <2>2 DEF ShardStates
  <2>5. r \in ShardStates  BY <2>1, <2>4, Zenon DEF ShardStates, ShardPcs
  <2>6. /\ r.pc = "remove" /\ r.batch = sh[s].batch /\ r.new = sh[s].new
        /\ r.todo = sh[s].todo \ {c} /\ r.ret = sh[s].pc /\ r.rm = c
    BY <2>1 DEF ShardStates
  <2> HIDE DEF r
  <2>7. place' = place /\ session' = session /\ sq' = sq /\ cq' = cq /\ cl' = cl
    BY DEF DisconnectNext, sockVars
  <2>8. sh'[s] = r  BY Zenon, <2>3, Known
  <2>9. sh[s].new = NoConn  BY <2>1 DEF ControlOK, InAdd
  <2>10. ControlOK(s)'  BY Zenon, <2>1, <2>2, <2>4, <2>6, <2>8, <2>9 DEF ControlOK, InAdd
  <2>11. NoNewConns(s)  BY <2>7 DEF NoNewConns
  <2>12. QueuesOK(s)' /\ (Adding(s)' => Adding(s))  BY <2>6, <2>7, <2>8, <2>11, <1>QueuesKept
  <2> QED  BY Zenon, <2>3, <2>5, <2>7, <2>10, <2>12, Known, <1>ShardActs

(* The shard goes on, after the miot thread or the flusher has answered.   *)
<1>Resumes. ASSUME IInv, NEW s \in Shards, Resume(s), sh[s].pc \in {"removed", "flush"},
                   place' \in [Conns -> Places],
                   \A k \in Conns : place'[k] = "conns" => place[k] = "conns",
                   session' = session, sq' = sq, cq' = cq, cl' = cl
            PROVE  IInv'
  <2> USE <1>Resumes
  <2> DEFINE r == [sh[s] EXCEPT !.pc = sh[s].ret, !.held = NoConn, !.rm = NoClient,
                                !.ret = "poll"]
  <2>1. sh[s] \in ShardStates /\ ControlOK(s)  BY Known
  <2>2. sh' = [sh EXCEPT ![s] = r]  BY Zenon, Known DEF Resume
  <2>3. /\ sh[s].ret \in ShardPcs /\ NoConn \in Conns \cup {NoConn}
        /\ NoClient \in Clients \cup {NoClient}
    BY <2>1 DEF ShardStates
  <2>4. r \in ShardStates  BY <2>1, <2>3, Zenon DEF ShardStates, ShardPcs
  <2>5. /\ r.pc = sh[s].ret /\ r.batch = sh[s].batch /\ r.new = sh[s].new
        /\ r.todo = sh[s].todo /\ r.ret = "poll"
    BY <2>1 DEF ShardStates
  <2> HIDE DEF r
  <2>6. sh'[s] = r  BY <2>2, Known
  <2>7. ControlOK(s)'
    <3>1. CASE sh[s].ret = "add"
      <4>1. /\ sh[s].new # NoConn /\ Shard(sh[s].new) = s
            /\ session[ClientOf[sh[s].new]] = NoConn /\ place[sh[s].new] # "conns"
        BY <2>1, <3>1 DEF ControlOK, InAdd
      <4>2. place'[sh[s].new] # "conns"  BY <4>1, Known
      <4>3. \A c \in sh[s].todo : ShardOf[c] = s  BY <2>1 DEF ControlOK
      <4> QED  BY <2>5, <2>6, <3>1, <4>1, <4>2, <4>3 DEF ControlOK, InAdd, Shard
    <3>2. CASE sh[s].ret # "add"
      BY ZenonT(40), <2>1, <2>5, <2>6, <3>2, <1>Settled DEF ControlOK, InAdd
    <3> QED  BY <3>1, <3>2
  <2>8. NoNewConns(s)  BY DEF NoNewConns
  <2>9. QueuesOK(s)' /\ (Adding(s)' => Adding(s))  BY Zenon, <2>5, <2>6, <2>8, <1>QueuesKept
  <2> QED  BY Zenon, <2>2, <2>4, <2>7, <2>9, Known, <1>ShardActs

(* The flusher is done with the socket.                                    *)
<1>FlushConnectionStep. ASSUME IInv, NEW s \in Shards, FlushConnection(s)
                        PROVE  IInv'
  <2> USE <1>FlushConnectionStep
  <2>1. sh[s].pc = "flush" /\ session' = session /\ sq' = sq /\ cq' = cq /\ cl' = cl
    BY Zenon DEF FlushConnection, At
  <2>2. \/ Resume(s) /\ place' = [place EXCEPT ![sh[s].held] = "closed"]
        \/ sh' = sh /\ place' = place
    BY Zenon DEF FlushConnection
  <2>3. CASE Resume(s) /\ place' = [place EXCEPT ![sh[s].held] = "closed"]
    <3>1. /\ place' \in [Conns -> Places]
          /\ \A k \in Conns : place'[k] = "conns" => place[k] = "conns"
      BY Zenon, <2>3, Known DEF Places
    <3> QED  BY <2>1, <2>3, <3>1, <1>Resumes
  <2>4. CASE sh' = sh /\ place' = place  BY <2>1, <2>4, Known, <1>Quiet
  <2> QED  BY <2>2, <2>3, <2>4

(* The shard drops the session of a socket and hands it to the flusher.    *)
<1>Flushes. ASSUME IInv, NEW s \in Shards, NEW k \in Conns, Shard(k) = s, k # sh[s].new,
                   NEW ret \in {"poll", "drain", "add", "failed", "slow"},
                   sh[s].new # NoConn <=> ret = "add",
                   sh[s].new # NoConn => place[sh[s].new] # "conns",
                   NEW b \in Seq(Requests),
                   b = sh[s].batch \/ (sh[s].batch # <<>> /\ b = Tail(sh[s].batch)),
                   StartFlush(s, k, ret, b), sq' = sq, cq' = cq, cl' = cl
            PROVE  IInv'
  <2> USE <1>Flushes
  <2> DEFINE r == [sh[s] EXCEPT !.pc = "flush", !.held = k, !.ret = ret, !.batch = b]
  <2>1. sh[s] \in ShardStates /\ ControlOK(s) /\ sh[s].new \in Conns \cup {NoConn}
    BY Zenon, Known
  <2>2. sh' = [sh EXCEPT ![s] = r]  BY Zenon, Known DEF StartFlush
  <2>3. k \in Conns \cup {NoConn} /\ ret \in ShardPcs  BY DEF ShardPcs
  <2>4. r \in ShardStates  BY <2>1, <2>3, Zenon DEF ShardStates, ShardPcs
  <2>5. /\ r.pc = "flush" /\ r.batch = b /\ r.new = sh[s].new
        /\ r.todo = sh[s].todo /\ r.ret = ret /\ r.held = k
    BY <2>1 DEF ShardStates
  <2> HIDE DEF r
  <2>6. sh'[s] = r  BY <2>2, Known
  <2>7. ClientOf[k] \in Clients /\ ShardOf[ClientOf[k]] = s /\ NoConn \notin Conns
    BY BrokerAssumption DEF Shard
  <2>8. /\ session' \in [Clients -> Conns \cup {NoConn}] /\ session'[ClientOf[k]] = NoConn
        /\ \A c \in Clients : session'[c] \in {session[c], NoConn}
        /\ \A c \in Clients : ShardOf[c] # s => session'[c] = session[c]
    BY <2>7, Known DEF StartFlush, DropSession
  <2>9. /\ place' \in [Conns -> Places]
        /\ \A j \in Conns : place'[j] = "conns" => place[j] = "conns"
    BY Known DEF StartFlush, Places
  <2>10. sh[s].new # NoConn => /\ Shard(sh[s].new) = s
                               /\ session'[ClientOf[sh[s].new]] = NoConn
                               /\ place'[sh[s].new] # "conns"
    <3>1. sh[s].new # NoConn => ClientOf[sh[s].new] \in Clients  BY <2>1, BrokerAssumption
    <3> QED  BY Zenon, <2>1, <2>8, <2>9, <3>1 DEF ControlOK
  <2>11. ControlOK(s)'
    <3>1. \A c \in sh[s].todo : ShardOf[c] = s  BY <2>1 DEF ControlOK
    <3>2. k # NoConn  BY <2>7
    <3>3. sh'[s].new # NoConn <=> InAdd(sh[s])'  BY <2>5, <2>6 DEF InAdd
    <3>4. sh'[s].ret \in {"poll", "drain", "add", "failed", "slow"}  BY Zenon, <2>5, <2>6
    <3>5. sh'[s].new # NoConn => /\ Shard(sh'[s].new) = s
                                 /\ session'[ClientOf[sh'[s].new]] = NoConn
                                 /\ place'[sh'[s].new] # "conns"
      BY Zenon, <2>5, <2>6, <2>10
    <3>6. \A c \in sh'[s].todo : ShardOf[c] = s  BY Zenon, <2>5, <2>6, <3>1
    <3>7. sh'[s].pc = "flush" /\ sh'[s].held = k /\ sh'[s].held # sh'[s].new
      BY Zenon, <2>5, <2>6
    <3>8. session'[ClientOf[k]] # k  BY Zenon, <2>8, <3>2
    <3> QED  BY Zenon, <3>2, <3>3, <3>4, <3>5, <3>6, <3>7, <3>8 DEF ControlOK, Shard
  <2>12. NoNewConns(s)  BY <2>9 DEF NoNewConns
  <2>13. QueuesOK(s)' /\ (Adding(s)' => Adding(s))  BY Zenon, <2>5, <2>6, <2>12, <1>QueuesKept
  <2> QED  BY Zenon, <2>2, <2>4, <2>8, <2>9, <2>11, <2>13, Known, <1>ShardActs

(* handle_flush_connection, for a socket that the miot thread gave up.     *)
<1>FlushRequestStep. ASSUME IInv, NEW s \in Shards, FlushRequest(s)
                     PROVE  IInv'
  <2> USE <1>FlushRequestStep
  <2>1. /\ sh[s].pc = "drain" /\ sh[s].batch # <<>> /\ Head(sh[s].batch).type = "flush"
        /\ sh[s].batch \in Seq(Requests) /\ ControlOK(s) /\ QueuesOK(s)
    BY Zenon, Known DEF FlushRequest, At
  <2>2. Ours(s, Head(sh[s].batch)) /\ Tail(sh[s].batch) \in Seq(Requests)
    BY <2>1, AllOursTail, TailOfBatch DEF QueuesOK
  <2>3. Head(sh[s].batch).conn \in Conns /\ Shard(Head(sh[s].batch).conn) = s
    BY Zenon, <2>1, <2>2 DEF Ours
  <2>4. sh[s].new = NoConn  BY <2>1 DEF ControlOK, InAdd
  <2>5. StartFlush(s, Head(sh[s].batch).conn, "drain", Tail(sh[s].batch))
    BY DEF FlushRequest
  <2>6. sq' = sq /\ cq' = cq /\ cl' = cl  BY DEF FlushRequest
  <2>7. NoConn \notin Conns  BY BrokerAssumption
  <2> QED  BY Zenon, <2>1, <2>2, <2>3, <2>4, <2>5, <2>6, <2>7, <1>Flushes

(* The miot thread has answered RemoveConnection.                          *)
<1>RemovedStep. ASSUME IInv, NEW s \in Shards, Removed(s)
                PROVE  IInv'
  <2> USE <1>RemovedStep
  <2>1. /\ sh[s].pc = "removed" /\ sq' = sq /\ cq' = cq /\ cl' = cl
        /\ sh[s].batch \in Seq(Requests) /\ ControlOK(s)
        /\ sh[s].held \in Conns \cup {NoConn}
    BY Zenon, Known DEF Removed, At
  <2>2. CASE sh[s].held = NoConn
    <3>1. Resume(s) /\ place' = place /\ session' = session  BY <2>2 DEF Removed
    <3> QED  BY Zenon, <2>1, <3>1, Known, <1>Resumes
  <2>3. CASE sh[s].held # NoConn
    <3>1. \/ StartFlush(s, sh[s].held, sh[s].ret, sh[s].batch)
          \/ sh' = sh /\ place' = place /\ session' = session
      BY <2>3 DEF Removed
    <3>2. CASE StartFlush(s, sh[s].held, sh[s].ret, sh[s].batch)
      <4>1. sh[s].held \in Conns /\ Shard(sh[s].held) = s /\ sh[s].held # sh[s].new
        BY Zenon, <2>1, <2>3 DEF ControlOK
      <4>2. /\ sh[s].ret \in {"poll", "drain", "add", "failed", "slow"}
            /\ sh[s].new # NoConn <=> sh[s].ret = "add"
            /\ sh[s].new # NoConn => place[sh[s].new] # "conns"
        BY Zenon, <2>1 DEF ControlOK, InAdd
      <4> QED  BY Zenon, <2>1, <3>2, <4>1, <4>2, <1>Flushes
    <3>3. CASE sh' = sh /\ place' = place /\ session' = session
      BY Zenon, <2>1, <3>3, Known, <1>Quiet
    <3> QED  BY <3>1, <3>2, <3>3
  <2> QED  BY <2>2, <2>3

(* handle_add_session drops the old session: the AddSession is the only one.*)
<1>AddSessionStep. ASSUME IInv, NEW s \in Shards, AddSession(s)
                   PROVE  IInv'
  <2> USE <1>AddSessionStep
  <2>1. /\ sh[s].pc = "drain" /\ sh[s].batch # <<>> /\ Head(sh[s].batch).type = "add"
        /\ sh[s] \in ShardStates
        /\ sh[s].batch \in Seq(Requests) /\ ControlOK(s) /\ QueuesOK(s)
    BY Zenon, Known DEF AddSession, At
  <2>2. Ours(s, Head(sh[s].batch)) /\ Tail(sh[s].batch) \in Seq(Requests)
    BY <2>1, AllOursTail, TailOfBatch DEF QueuesOK
  <2>3. PICK k \in Conns : k = Head(sh[s].batch).conn  BY Zenon, <2>1, <2>2 DEF Ours
  <2>4. Shard(k) = s /\ place[k] # "conns"  BY <2>1, <2>2, <2>3 DEF Ours
  <2>5. ClientOf[k] \in Clients /\ ShardOf[ClientOf[k]] = s /\ NoConn \notin Conns
    BY <2>3, <2>4, BrokerAssumption DEF Shard
  <2>6. place' = place /\ sq' = sq /\ cq' = cq /\ cl' = cl  BY Zenon DEF AddSession
  <2>7. CASE ~PeerAddr(k)
    <3>1. sh' = sh /\ session' = session  BY <2>3, <2>7 DEF AddSession
    <3> QED  BY <2>6, <3>1, Known, <1>Quiet
  <2>8. CASE PeerAddr(k)
    <3>1. PICK pc, rm, ret :
            /\ sh' = [sh EXCEPT ![s].batch = Tail(@), ![s].new = k, ![s].pc = pc,
                                ![s].rm = rm, ![s].ret = ret]
            /\ \/ pc = "add" /\ rm = NoClient /\ ret = "poll"
               \/ pc = "remove" /\ rm = ClientOf[k] /\ ret = "add"
      BY Zenon, <2>3, <2>8 DEF AddSession
    <3>2. session' = [session EXCEPT ![ClientOf[k]] = NoConn]
      BY Zenon, <2>3, <2>8 DEF AddSession, DropSession
    <3> DEFINE r == [sh[s] EXCEPT !.batch = Tail(@), !.new = k, !.pc = pc, !.rm = rm,
                                  !.ret = ret]
    <3>3. sh' = [sh EXCEPT ![s] = r]  BY <3>1, Zenon, Known
    <3>4. /\ k \in Conns \cup {NoConn} /\ pc \in ShardPcs /\ ret \in ShardPcs
          /\ rm \in Clients \cup {NoClient}
      BY <2>5, <3>1 DEF ShardPcs
    <3>5. r \in ShardStates  BY <2>1, <2>2, <3>4, Zenon DEF ShardStates
    <3>6. /\ r.pc = pc /\ r.batch = Tail(sh[s].batch) /\ r.new = k
          /\ r.todo = sh[s].todo /\ r.ret = ret /\ r.rm = rm
      BY <2>1 DEF ShardStates
    <3> HIDE DEF r
    <3>7. sh'[s] = r  BY <3>3, Known
    <3>8. /\ session' \in [Clients -> Conns \cup {NoConn}] /\ session'[ClientOf[k]] = NoConn
          /\ \A c \in Clients : ShardOf[c] # s => session'[c] = session[c]
      BY <2>5, <3>2, Known
    <3>9. ControlOK(s)'
      <4>1. \A c \in r.todo : ShardOf[c] = s  BY <2>1, <3>6 DEF ControlOK
      <4>2. k # NoConn /\ Shard(k) = s /\ place'[k] # "conns"  BY <2>3, <2>4, <2>5, <2>6
      <4>3. CASE pc = "add" /\ rm = NoClient /\ ret = "poll"
        BY Zenon, <3>6, <3>7, <3>8, <4>1, <4>2, <4>3 DEF ControlOK, InAdd, Shard
      <4>4. CASE pc = "remove" /\ rm = ClientOf[k] /\ ret = "add"
        BY <2>5, <3>6, <3>7, <3>8, <4>1, <4>2, <4>4 DEF ControlOK, InAdd, Shard
      <4> QED  BY <3>1, <4>3, <4>4
    <3>10. NoNewConns(s)  BY <2>6 DEF NoNewConns
    <3>11. ~NoAdd(sh[s].batch)  BY <2>1, TailOfBatch DEF NoAdd
    <3>12. NoAdd(sq[s]) /\ NoAdd(Tail(sh[s].batch)) /\ OneAdd(Tail(sh[s].batch))
      BY Zenon, <2>1, <3>11, TailOfBatch DEF QueuesOK
    <3>13. AllOurs(s, sq[s])'  BY Zenon, <2>1, <2>6, <3>10, Known, <1>AllOursKept DEF QueuesOK
    <3>14. AllOurs(s, sh[s].batch)'
      BY Zenon, <2>1, <2>2, <3>6, <3>7, <3>10, AllOursTail, <1>AllOursKept DEF QueuesOK
    <3>15. QueuesOK(s)' /\ Adding(s)
      BY Zenon, <2>1, <2>6, <3>6, <3>7, <3>11, <3>12, <3>13, <3>14 DEF QueuesOK, Adding
    <3> QED  BY Zenon, <2>6, <3>3, <3>5, <3>8, <3>9, <3>15, Known, <1>ShardActs
  <2> QED  BY <2>3, <2>7, <2>8

(***************************************************************************)
(* The miot thread serves its shard.                                       *)
(***************************************************************************)
(* The socket being added is now in the miot thread, and in no request.    *)
<1>AddConnectionStep. ASSUME IInv, NEW s \in Shards, AddConnection(s)
                      PROVE  IInv'
  <2> USE <1>AddConnectionStep
  <2>1. sh[s].pc = "add" /\ sh[s] \in ShardStates /\ ControlOK(s) /\ QueuesOK(s)
    BY Known DEF AddConnection
  <2>2. PICK k \in Conns : k = sh[s].new
    BY Zenon, <2>1, Known DEF ControlOK, InAdd
  <2>3. k # NoConn /\ Shard(k) = s /\ session[ClientOf[k]] = NoConn
    BY Zenon, <2>1, <2>2, BrokerAssumption DEF ControlOK
  <2>4. session' = session /\ sq' = sq /\ cq' = cq /\ cl' = cl  BY DEF AddConnection
  <2>5. CASE ~PeerAddr(k)
    <3>1. sh' = sh /\ place' = place  BY <2>2, <2>5 DEF AddConnection
    <3> QED  BY Zenon, <2>4, <3>1, Known, <1>Quiet
  <2>6. CASE PeerAddr(k)
    <3> DEFINE r == [sh[s] EXCEPT !.pc = "insert"]
    <3>1. sh' = [sh EXCEPT ![s].pc = "insert"]
      BY <2>2, <2>6 DEF AddConnection
    <3>2. place' = [Dropped(InConns(ClientOf[k])) EXCEPT ![k] = "conns"]
      BY <2>2, <2>6 DEF AddConnection
    <3>3. sh' = [sh EXCEPT ![s] = r]  BY <3>1, Zenon, Known
    <3>4. r \in ShardStates  BY <2>1, Zenon DEF ShardStates, ShardPcs
    <3>5. /\ r.pc = "insert" /\ r.batch = sh[s].batch /\ r.new = k
          /\ r.todo = sh[s].todo /\ r.ret = sh[s].ret
      BY <2>1, <2>2 DEF ShardStates
    <3> HIDE DEF r
    <3>6. sh'[s] = r  BY <3>3, Known
    <3>7. ControlOK(s)'
      BY Zenon, <2>1, <2>2, <2>3, <2>4, <3>5, <3>6 DEF ControlOK, InAdd, Shard
    <3>8. place' \in [Conns -> Places]  BY <2>2, <3>2, Known DEF Dropped, Places
    <3>9. \A j \in Conns : Shard(j) # s /\ place'[j] = "conns" => place[j] = "conns"
      BY <2>2, <2>3, <3>2, Known DEF Dropped
    <3>10. NoAdd(sq[s]) /\ NoAdd(sh[s].batch)  BY Zenon, <2>1, <2>2, <2>3 DEF QueuesOK
    <3>11. AllOurs(s, sq[s])' /\ AllOurs(s, sh[s].batch)'
      BY Zenon, <2>1, <2>4, <3>5, <3>6, <3>10 DEF QueuesOK, AllOurs, Ours, NoAdd, Shard
    <3>12. QueuesOK(s)' /\ Adding(s)
      BY Zenon, <2>1, <2>2, <2>3, <2>4, <3>5, <3>6, <3>10, <3>11 DEF QueuesOK, Adding
    <3> QED  BY Zenon, <2>4, <3>3, <3>4, <3>7, <3>8, <3>9, <3>12, Known, <1>ShardActs
  <2> QED  BY <2>2, <2>5, <2>6

(* The socket handed over was in conns, so it is not the one being added.  *)
<1>RemoveConnectionStep. ASSUME IInv, NEW s \in Shards, RemoveConnection(s)
                         PROVE  IInv'
  <2> USE <1>RemoveConnectionStep
  <2>1. sh[s].pc = "remove" /\ sh[s] \in ShardStates /\ ControlOK(s)
    BY Known DEF RemoveConnection
  <2>2. session' = session /\ sq' = sq /\ cq' = cq /\ cl' = cl  BY DEF RemoveConnection
  <2> DEFINE ks == InConns(sh[s].rm)
  <2>3. CASE ~(\A k \in ks : PeerAddr(k))
    <3>1. sh' = sh /\ place' = place  BY <2>3 DEF RemoveConnection
    <3> QED  BY Zenon, <2>2, <3>1, Known, <1>Quiet
  <2>4. CASE \A k \in ks : PeerAddr(k)
    <3>1. place' = [k \in Conns |-> IF k \in ks THEN "held" ELSE place[k]]
      BY <2>4 DEF RemoveConnection
    <3>2. PICK h : /\ sh' = [sh EXCEPT ![s].pc = "removed", ![s].held = h]
                   /\ h = IF ks = {} THEN NoConn ELSE CHOOSE k \in ks : TRUE
      BY <2>4 DEF RemoveConnection
    <3>3. h = NoConn \/ h \in ks  BY <3>2
    <3>4. h # NoConn => h \in Conns /\ Shard(h) = s /\ place[h] = "conns"
      BY <2>1, <3>3 DEF InConns, ControlOK, Shard
    <3> DEFINE r == [sh[s] EXCEPT !.pc = "removed", !.held = h]
    <3>5. sh' = [sh EXCEPT ![s] = r]  BY <3>2, Zenon, Known
    <3>6. h \in Conns \cup {NoConn}  BY <3>4
    <3>7. r \in ShardStates  BY <2>1, <3>6, Zenon DEF ShardStates, ShardPcs
    <3>8. /\ r.pc = "removed" /\ r.batch = sh[s].batch /\ r.new = sh[s].new
          /\ r.todo = sh[s].todo /\ r.ret = sh[s].ret /\ r.held = h
      BY <2>1 DEF ShardStates
    <3> HIDE DEF r, ks
    <3>9. sh'[s] = r  BY <3>5, Known
    <3>10. /\ place' \in [Conns -> Places]
           /\ \A j \in Conns : place'[j] = "conns" => place[j] = "conns"
      BY <3>1, Known DEF Places
    <3>11. h # NoConn => h # sh[s].new  BY <2>1, <3>4 DEF ControlOK
    <3>12. ControlOK(s)'
      <4>1. sh[s].new # NoConn => /\ Shard(sh[s].new) = s
                                  /\ session[ClientOf[sh[s].new]] = NoConn
                                  /\ place'[sh[s].new] # "conns"
        BY ZenonT(40), <2>1, <3>10, Known DEF ControlOK
      <4> QED  BY Zenon, <2>1, <2>2, <3>4, <3>8, <3>9, <3>11, <4>1 DEF ControlOK, InAdd, Shard
    <3>13. NoNewConns(s)  BY <3>10 DEF NoNewConns
    <3>14. QueuesOK(s)' /\ (Adding(s)' => Adding(s))
      BY <2>2, <3>8, <3>9, <3>13, <1>QueuesKept
    <3> QED  BY Zenon, <2>2, <3>5, <3>7, <3>10, <3>12, <3>14, Known, <1>ShardActs
  <2> QED  BY <2>3, <2>4

(* The miot thread closes, or is found dead.                               *)
<1>OtherSteps. ASSUME IInv, NEW s \in Shards, CloseMiot(s) \/ MiotGone(s)
               PROVE  IInv'
  <2> USE <1>OtherSteps
  <2>1. sh' = sh /\ sq' = sq /\ cq' = cq /\ cl' = cl /\ session' = session
    BY DEF CloseMiot, MiotGone
  <2>2. /\ place' \in [Conns -> Places]
        /\ \A j \in Conns : place'[j] = "conns" => place[j] = "conns"
    BY Zenon, Known DEF CloseMiot, MiotGone, Dropped, Places, sockVars
  <2> QED  BY <2>1, <2>2, Known, <1>Quiet
<1> SUFFICES ASSUME IInv, [Next]_vars PROVE IInv'  OBVIOUS
<1>1. CASE UNCHANGED vars
  BY <1>1, <1>Quiet DEF vars, sockVars, IInv, ControlTypeOK
<1>2. ASSUME NEW k \in Conns,
             AcceptConn(k) \/ Handshakes(k) \/ Client(k) \/ Pumps(k) \/ SocketTimeout(k)
      PROVE  IInv'
  BY <1>2, <1>QuietSteps, <1>HandOverStep, <1>MiotSteps DEF Handshakes, Client, Pumps
<1>3. CASE AskClose  BY <1>3, <1>AskCloseStep
<1>4. CASE ClusterStep
  BY <1>4, <1>DrainClusterStep, <1>HandleAddConnectionStep, <1>HandleCloseStep, <1>CloseShardStep,
     <1>JoinShardStep, <1>ExitClusterStep DEF ClusterStep
<1>5. ASSUME NEW s \in Shards, ShardStep(s) PROVE IInv'
  BY <1>5, <1>DrainStep, <1>AddSessionStep, <1>FlushRequestStep, <1>RemovedStep, <1>InsertSessionStep,
     <1>RoutePacketsStep, <1>DisconnectNextStep, <1>CommitAcksStep, <1>EndIterationStep,
     <1>CloseRequestStep, <1>ExitShardStep, <1>OtherSteps DEF ShardStep
<1>6. ASSUME NEW s \in Shards, MiotServes(s) \/ FlushConnection(s) PROVE IInv'
  BY <1>6, <1>AddConnectionStep, <1>RemoveConnectionStep, <1>OtherSteps, <1>FlushConnectionStep
  DEF MiotServes
<1> QED  BY <1>1, <1>2, <1>3, <1>4, <1>5, <1>6 DEF Next, Terminated

(* The invariant of the broker, for any clients, connections and shards.   *)
THEOREM Invariance == Spec => []IInv
BY Initially, Inductive, PTL DEF Spec

(* A socket at the flusher has neither a filed session nor a new one.      *)
LEMMA FlushesEnd == IInv => FlushEnds
<1> SUFFICES ASSUME IInv, NEW s \in Shards, sh[s].pc = "flush"
             PROVE  ~SessionLives(sh[s].held)
  BY DEF FlushEnds
<1>1. ControlOK(s)  BY Known
<1> QED  BY <1>1 DEF ControlOK, SessionLives

(* While a session is being added, its client has none in the map.         *)
LEMMA SessionsApart == IInv => OneSessionPerClient
<1> SUFFICES ASSUME IInv, NEW j \in Conns, NEW k \in Conns, j # k,
                    ClientOf[j] = ClientOf[k],
                    SessionLives(j), SessionLives(k)
             PROVE  FALSE
  BY DEF OneSessionPerClient
<1>1. Shard(j) \in Shards /\ Shard(k) = Shard(j) /\ NoConn \notin Conns
  BY BrokerAssumption DEF Shard
<1>2. ControlOK(Shard(j))  BY <1>1, Known
<1> QED  BY Zenon, <1>1, <1>2 DEF ControlOK, SessionLives

(* The flusher's loop ends: no shard ever waits for the flush of a socket  *)
(* whose session is alive (FlushEnds).                                     *)
THEOREM FlusherNeverStuck == Spec => []FlushEnds
BY Invariance, FlushesEnd, PTL

(* A client never has two living sessions, not even during a take over     *)
(* (OneSessionPerClient).                                                  *)
THEOREM SessionsExclusive == Spec => []OneSessionPerClient
BY Invariance, SessionsApart, PTL

(***************************************************************************)
(* Who owns the sockets and the sessions of the broker.                    *)
(***************************************************************************)
(* The inductive invariant, on top of IInv.                                *)
LInv == SocketsOwned /\ NoSessionLeaks

(* No socket leaves the cluster, none goes back to it, and the miot thread *)
(* gets no more sockets and loses them only to the queue of the shard.     *)
NoneTaken == \A k \in Conns : place[k] = "cluster" => place'[k] = "cluster"
NoneBack == \A k \in Conns : Passed(k) => Passed(k)'
NoneLost ==
  \A k \in Conns :
    /\ place'[k] = "conns" => place[k] = "conns"
    /\ place[k] \in {"conns", "queued"} => place'[k] \in {"conns", "queued"}

(* Before the first connection nothing is owned, waiting or filed.         *)
LEMMA OwnedInitially == Init => LInv
<1> SUFFICES ASSUME Init PROVE LInv  OBVIOUS
<1>1. /\ cq = <<>> /\ cl.batch = <<>> /\ place = [k \in Conns |-> "none"]
      /\ session = [c \in Clients |-> NoConn]
      /\ \A s \in Shards : /\ sq[s] = <<>> /\ sh[s].batch = <<>> /\ sh[s].new = NoConn
                           /\ sh[s].held = NoConn /\ sh[s].pc = "poll"
  BY DEF Init
<1>2. 1 .. Len(<<>>) = {}  BY EmptyQueue
<1>3. ClusterOwns  BY Zenon, <1>1, <1>2 DEF ClusterOwns, Waiting, Once, Disjoint
<1>4. OneInConns  BY <1>1 DEF OneInConns
<1>5. NoSessionLeaks /\ \A c \in Clients : Filed(c)  BY <1>1 DEF NoSessionLeaks, Filed
<1>6. \A s \in Shards : ShardOwns(s)  BY Zenon, <1>1, <1>2 DEF ShardOwns, PassedIn
<1>7. \A s \in Shards : HeldOK(s)  BY <1>1 DEF HeldOK
<1> QED  BY Zenon, <1>3, <1>4, <1>5, <1>6, <1>7 DEF LInv, SocketsOwned

(* A socket in a sequence of requests is the socket of one of them.        *)
LEMMA SocketOf ==
  ASSUME NEW q \in Seq(Requests), NEW k \in SocketsIn(q)
  PROVE  \E i \in 1 .. Len(q) : k = q[i].conn /\ k # NoConn
<1>1. DOMAIN q = 1 .. Len(q)  OBVIOUS
<1> QED  BY Zenon, <1>1 DEF SocketsIn

(* A request names a connection, or none.                                  *)
LEMMA ConnOf == ASSUME NEW q \in Seq(Requests), NEW i \in 1 .. Len(q)
                PROVE  q[i] \in Requests /\ q[i].conn \in Conns \cup {NoConn}
<1>1. q[i] \in Requests  OBVIOUS
<1> QED  BY <1>1 DEF Requests

(* A shard that goes on with the same sockets.                             *)
SameSockets(t) ==
  /\ sh'[t].held = sh[t].held /\ sh'[t].new = sh[t].new
  /\ sh[t].held # NoConn => sh'[t].pc = sh[t].pc
  /\ sh[t].pc = "close" => sh'[t].pc = "close"
  /\ sh'[t].pc = "insert" => sh[t].pc = "insert"

(* A socket that was not waiting for the cluster is in one request only.   *)
LEMMA OncePosted ==
  ASSUME NEW q \in Seq(Requests), NEW b \in Seq(Requests), NEW r \in Requests,
         Once(q), Disjoint(q, b),
         r.conn # NoConn => \A i \in 1 .. Len(q) : q[i].conn # r.conn,
         r.conn # NoConn => \A i \in 1 .. Len(b) : b[i].conn # r.conn
  PROVE  Once(Append(q, r)) /\ Disjoint(Append(q, r), b)
<1> DEFINE p == Append(q, r)
<1>1. /\ Len(q) \in Nat /\ Len(p) = Len(q) + 1 /\ p[Len(q) + 1] = r
      /\ \A i \in 1 .. Len(q) : p[i] = q[i]
  OBVIOUS
<1> HIDE DEF p
<1>2. Once(p)
  <2>1. ASSUME NEW i \in 1 .. Len(p), NEW j \in 1 .. Len(p),
               p[i].conn # NoConn, p[i].conn = p[j].conn
        PROVE  i = j
    BY <1>1, <2>1 DEF Once
  <2> QED  BY Zenon, <2>1 DEF Once
<1>3. Disjoint(p, b)  BY <1>1 DEF Disjoint
<1> QED  BY Zenon, <1>2, <1>3 DEF p

(* The rest of a batch, when the first request is taken.                   *)
LEMMA OnceTail ==
  ASSUME NEW b \in Seq(Requests), b # <<>>, Once(b)
  PROVE  /\ Once(Tail(b))
         /\ \A i \in 1 .. Len(Tail(b)) : Tail(b)[i].conn # NoConn => Tail(b)[i].conn # Head(b).conn
         /\ \A q : Disjoint(q, b) => Disjoint(q, Tail(b))
         /\ Waiting(b) => Waiting(Tail(b))
<1> DEFINE c == Tail(b)
<1>1. /\ Head(b) = b[1] /\ 1 \in 1 .. Len(b) /\ Len(c) = Len(b) - 1 /\ Len(b) \in Nat
      /\ \A i \in 1 .. Len(c) : i + 1 \in 1 .. Len(b) /\ c[i] = b[i + 1]
  BY TailOfBatch
<1> HIDE DEF c
<1>2. ASSUME NEW i \in 1 .. Len(c), NEW j \in 1 .. Len(c), c[i].conn # NoConn,
             c[i].conn = c[j].conn
      PROVE  i = j
  <2>1. /\ i + 1 \in 1 .. Len(b) /\ j + 1 \in 1 .. Len(b)
        /\ b[i + 1].conn # NoConn /\ b[i + 1].conn = b[j + 1].conn
    BY Zenon, <1>1, <1>2
  <2>2. i + 1 = j + 1  BY Zenon, <2>1 DEF Once
  <2> QED  BY <1>1, <2>2
<1>3. ASSUME NEW i \in 1 .. Len(c), c[i].conn # NoConn, c[i].conn = Head(b).conn
      PROVE  FALSE
  <2>1. i + 1 = 1  BY Zenon, <1>1, <1>3 DEF Once
  <2> QED  BY <1>1, <2>1
<1>4. \A q : Disjoint(q, b) => Disjoint(q, c)  BY Zenon, <1>1 DEF Disjoint
<1>5. Waiting(b) => Waiting(c)  BY Zenon, <1>1 DEF Waiting
<1>6. Once(c)  BY Zenon, <1>2 DEF Once
<1> QED  BY Zenon, <1>3, <1>4, <1>5, <1>6 DEF c

(* What is known of the sockets and sessions of shard s.                   *)
LEMMA KnownSockets ==
  ASSUME IInv, LInv, NEW s \in Shards
  PROVE  /\ ShardOwns(s) /\ HeldOK(s)
         /\ sh[s].held # NoConn => sh[s].held \in Conns /\ Shard(sh[s].held) = s
         /\ \A c \in Clients : ShardOf[c] = s /\ session[c] # NoConn =>
              /\ session[c] \in Conns /\ ClientOf[session[c]] = c /\ Shard(session[c]) = s
              /\ \/ place[session[c]] \in {"conns", "queued"}
                 \/ session[c] = sh[s].held \/ sh[s].pc = "close"
<1>1. ShardOwns(s) /\ HeldOK(s)  BY Zenon DEF LInv, SocketsOwned
<1>2. ASSUME NEW t \in Shards, sh[t].held # NoConn
      PROVE  sh[t].held \in Conns /\ Shard(sh[t].held) = t
  <2>1. ControlOK(t) /\ sh[t].held \in Conns \cup {NoConn} /\ HeldOK(t)
    BY Zenon, Known DEF LInv, SocketsOwned
  <2> QED  BY Zenon, <1>2, <2>1 DEF ControlOK, HeldOK
<1>3. ASSUME NEW c \in Clients, ShardOf[c] = s, session[c] # NoConn
      PROVE  /\ session[c] \in Conns /\ ClientOf[session[c]] = c /\ Shard(session[c]) = s
             /\ \/ place[session[c]] \in {"conns", "queued"}
                \/ session[c] = sh[s].held \/ sh[s].pc = "close"
  <2>1. session[c] \in Conns  BY <1>3, Known
  <2>2. ClientOf[session[c]] = c  BY Zenon, <1>3 DEF LInv, SocketsOwned, Filed
  <2>3. Shard(session[c]) = s  BY Zenon, <1>3, <2>2 DEF Shard
  <2>4. session[c] \in Held => session[c] = sh[s].held
    <3>1. ASSUME NEW t \in Shards, session[c] = sh[t].held PROVE session[c] = sh[s].held
      <4>1. Shard(sh[t].held) = t  BY Zenon, <1>2, <1>3, <3>1
      <4> QED  BY Zenon, <2>3, <3>1, <4>1
    <3> QED  BY Zenon, <3>1 DEF Held
  <2> QED  BY Zenon, <1>3, <2>1, <2>2, <2>3, <2>4 DEF LInv, SocketsOwned, NoSessionLeaks
<1> QED  BY Zenon, <1>1, <1>2, <1>3

(* The invariant is inductive on the states of IInv: one step per action.  *)
LEMMA OwnedInductive == IInv /\ LInv /\ [Next]_vars => LInv'
(* The requests of a channel stay about sockets that have passed.          *)
<1>PassedKept. ASSUME NEW q \in Seq(Requests), NoneBack, PassedIn(q)
               PROVE  PassedIn(q)'
  <2> USE <1>PassedKept
  <2> SUFFICES ASSUME NEW i \in 1 .. Len(q), q[i].conn # NoConn PROVE Passed(q[i].conn)'
    BY DEF PassedIn
  <2>1. q[i].conn \in Conns  BY ConnOf
  <2>2. Passed(q[i].conn)  BY DEF PassedIn
  <2> QED  BY <2>1, <2>2 DEF NoneBack, Passed

(* The requests of the cluster stay about sockets that wait for it.        *)
<1>WaitingKept. ASSUME NEW q \in Seq(Requests), NoneTaken, Waiting(q)
                PROVE  Waiting(q)'
  <2> USE <1>WaitingKept
  <2> SUFFICES ASSUME NEW i \in 1 .. Len(q), q[i].conn # NoConn PROVE place'[q[i].conn] = "cluster"
    BY DEF Waiting
  <2>1. q[i].conn \in Conns  BY ConnOf
  <2>2. place[q[i].conn] = "cluster"  BY DEF Waiting
  <2> QED  BY <2>1, <2>2 DEF NoneTaken

(* A step that leaves the requests of the cluster, and their sockets.      *)
<1>ClusterKept. ASSUME IInv, LInv, NoneTaken, cq' = cq, cl'.batch = cl.batch
                PROVE  ClusterOwns'
  <2> USE <1>ClusterKept
  <2>1. cq \in Seq(Requests) /\ cl.batch \in Seq(Requests)
    BY DEF IInv, ControlTypeOK, ClusterStates
  <2> DEFINE q == cq
             b == cl.batch
  <2>2. Waiting(q) /\ Waiting(b) /\ Once(q) /\ Once(b) /\ Disjoint(q, b)
    BY Zenon DEF LInv, SocketsOwned, ClusterOwns
  <2>3. Waiting(cq)'  BY Zenon, <2>1, <2>2, <1>WaitingKept
  <2>4. Waiting(cl.batch)'  BY Zenon, <2>1, <2>2, <1>WaitingKept
  <2> QED  BY Zenon, <2>2, <2>3, <2>4 DEF ClusterOwns, Once, Disjoint

(* A step that leaves the requests of shard t, or takes the first one.     *)
<1>SocketsKept. ASSUME IInv, LInv, NEW t \in Shards, NoneBack, sq'[t] = sq[t],
                       \/ sh'[t].batch = sh[t].batch
                       \/ sh[t].batch # <<>> /\ sh'[t].batch = Tail(sh[t].batch),
                       sh'[t].new \in {sh[t].new, NoConn}, sh'[t].held \in {sh[t].held, NoConn}
                PROVE  ShardOwns(t)'
  <2> USE <1>SocketsKept
  <2>1. /\ sq[t] \in Seq(Requests) /\ sh[t].batch \in Seq(Requests)
        /\ sh[t].new \in Conns \cup {NoConn} /\ sh[t].held \in Conns \cup {NoConn}
    BY Zenon, Known
  <2>2. ShardOwns(t)  BY Zenon DEF LInv, SocketsOwned
  <2>3. PassedIn(sq[t])'  BY Zenon, <2>1, <2>2, <1>PassedKept DEF ShardOwns
  <2>4. PassedIn(sh'[t].batch) /\ sh'[t].batch \in Seq(Requests)
    <3>1. CASE sh'[t].batch = sh[t].batch  BY Zenon, <2>1, <2>2, <3>1 DEF ShardOwns
    <3>2. CASE sh[t].batch # <<>> /\ sh'[t].batch = Tail(sh[t].batch)
      <4> DEFINE b == sh[t].batch
      <4>1. b \in Seq(Requests) /\ b # <<>> /\ PassedIn(b)  BY Zenon, <2>1, <2>2, <3>2 DEF ShardOwns
      <4>2. /\ Tail(b) \in Seq(Requests)
            /\ \A i \in 1 .. Len(Tail(b)) : i + 1 \in 1 .. Len(b) /\ Tail(b)[i] = b[i + 1]
        BY <4>1, TailOfBatch
      <4> HIDE DEF b
      <4>3. PassedIn(Tail(b))  BY Zenon, <4>1, <4>2 DEF PassedIn
      <4> QED  BY Zenon, <3>2, <4>2, <4>3 DEF b
    <3> QED  BY Zenon, <3>1, <3>2
  <2>5. PassedIn(sh[t].batch)'  BY Zenon, <2>4, <1>PassedKept
  <2>6. sh'[t].new # NoConn => Passed(sh[t].new)'
    BY Zenon, <2>1, <2>2 DEF ShardOwns, NoneBack, Passed
  <2>7. sh'[t].held # NoConn => Passed(sh[t].held)'
    BY Zenon, <2>1, <2>2 DEF ShardOwns, NoneBack, Passed
  <2> QED  BY Zenon, <2>3, <2>5, <2>6, <2>7 DEF ShardOwns

(* A step that files no session and takes no socket out of service.        *)
<1>SessionsKept. ASSUME IInv, LInv, session' = session, NoneLost, \A t \in Shards : SameSockets(t)
                 PROVE  /\ OneInConns' /\ NoSessionLeaks'
                        /\ \A t \in Shards : HeldOK(t)'
                        /\ \A c \in Clients : Filed(c)'
  <2> USE <1>SessionsKept
  <2>1. session \in [Clients -> Conns \cup {NoConn}]  BY Zenon DEF IInv, ControlTypeOK
  <2>2. OneInConns'  BY Zenon DEF LInv, SocketsOwned, OneInConns, NoneLost
  <2>3. \A c \in Clients : Filed(c)'  BY Zenon DEF LInv, SocketsOwned, Filed
  <2>4. ASSUME NEW t \in Shards  PROVE HeldOK(t)'
    <3>1. HeldOK(t) /\ SameSockets(t) /\ sh[t].new \in Conns \cup {NoConn} /\ ControlOK(t)
      BY Zenon, Known DEF LInv, SocketsOwned
    <3>2. sh[t].pc = "insert" => sh[t].new \in Conns
      BY Zenon, <3>1 DEF ControlOK, InAdd
    <3> QED  BY Zenon, <3>1, <3>2 DEF HeldOK, SameSockets, NoneLost
  <2>5. NoSessionLeaks'
    <3> SUFFICES ASSUME NEW c \in Clients, session[c] # NoConn
                 PROVE  \/ place'[session[c]] \in {"conns", "queued"}
                        \/ session[c] \in Held'
                        \/ sh'[ShardOf[c]].pc = "close"
      BY Zenon DEF NoSessionLeaks
    <3>1. session[c] \in Conns /\ ShardOf[c] \in Shards  BY <2>1, BrokerAssumption
    <3>2. Held' = Held  BY Zenon DEF Held, SameSockets
    <3>3. CASE place[session[c]] \in {"conns", "queued"}  BY Zenon, <3>1, <3>3 DEF NoneLost
    <3>4. CASE session[c] \in Held  BY Zenon, <3>2, <3>4
    <3>5. CASE sh[ShardOf[c]].pc = "close"  BY Zenon, <3>1, <3>5 DEF SameSockets
    <3> QED  BY Zenon, <3>3, <3>4, <3>5 DEF LInv, SocketsOwned, NoSessionLeaks
  <2> QED  BY Zenon, <2>2, <2>3, <2>4, <2>5

(* A step no shard and no queue notices.                                   *)
<1>QuietOwned. ASSUME IInv, LInv, sh' = sh, sq' = sq, cq' = cq, cl' = cl, session' = session,
                      NoneTaken, NoneBack, NoneLost
               PROVE  LInv'
  <2> USE <1>QuietOwned
  <2>1. \A t \in Shards : SameSockets(t)  BY Zenon DEF SameSockets
  <2>2. \A t \in Shards : ShardOwns(t)'  BY Zenon, <1>SocketsKept
  <2> QED  BY Zenon, <2>1, <2>2, <1>SessionsKept, <1>ClusterKept DEF LInv, SocketsOwned

(* Sockets that stay where they are.                                       *)
<1>PlaceKept. ASSUME place' = place PROVE NoneTaken /\ NoneBack /\ NoneLost
  BY <1>PlaceKept, Zenon DEF NoneTaken, NoneBack, NoneLost, Passed

(* The steps of listener, handshakes and clients, and a reset: no thread   *)
(* gets or loses a socket of a session.                                    *)
<1>QuietStepsOwned. ASSUME IInv, LInv, NEW k \in Conns,
                           \/ AcceptConn(k) \/ HandshakeFails(k) \/ ClientSends(k)
                           \/ ClientEnds(k) \/ SocketReset(k)
                    PROVE  LInv'
  <2> USE <1>QuietStepsOwned
  <2>1. place \in [Conns -> Places]  BY Zenon DEF IInv, ControlTypeOK
  <2>2. sh' = sh /\ sq' = sq /\ cq' = cq /\ cl' = cl /\ session' = session
    BY DEF AcceptConn, HandshakeFails, ClientSends, ClientEnds, SocketReset
  <2>3. \/ place' = place
        \/ place[k] = "none" /\ place' = [place EXCEPT ![k] = "handshake"]
        \/ place[k] = "handshake" /\ place' = [place EXCEPT ![k] = "closed"]
    BY DEF AcceptConn, HandshakeFails, ClientSends, ClientEnds, SocketReset, sockVars
  <2>4. NoneTaken /\ NoneBack /\ NoneLost
    BY <2>1, <2>3 DEF NoneTaken, NoneBack, NoneLost, Passed
  <2> QED  BY Zenon, <2>2, <2>4, <1>QuietOwned

(* Requests that only grow by one of a socket that has passed.             *)
<1>PassedPosted. ASSUME NEW q \in Seq(Requests), NEW r \in Requests, NoneBack, PassedIn(q),
                        r.conn # NoConn => Passed(r.conn)'
                 PROVE  PassedIn(Append(q, r))'
  <2> USE <1>PassedPosted
  <2> SUFFICES ASSUME NEW i \in 1 .. Len(Append(q, r)), Append(q, r)[i].conn # NoConn
               PROVE  Passed(Append(q, r)[i].conn)'
    BY DEF PassedIn
  <2>1. PassedIn(q)'  BY <1>PassedKept
  <2>2. CASE Append(q, r)[i] = r  BY Zenon, <2>2
  <2>3. CASE i \in 1 .. Len(q) /\ Append(q, r)[i] = q[i]
    BY Zenon, <2>1, <2>3 DEF PassedIn
  <2> QED  BY Zenon, <2>2, <2>3, Posted

(* A request posted to shard s.                                            *)
<1>SocketsPosted. ASSUME IInv, LInv, NEW s \in Shards, NEW r \in Requests, NoneBack,
                         sq' = [sq EXCEPT ![s] = Append(@, r)], sh' = sh,
                         r.conn # NoConn => Passed(r.conn)'
                  PROVE  \A t \in Shards : ShardOwns(t)'
  <2> USE <1>SocketsPosted
  <2>1. sq \in [Shards -> Seq(Requests)]  BY Zenon DEF IInv, ControlTypeOK
  <2>2. sq'[s] = Append(sq[s], r) /\ \A t \in Shards : t # s => sq'[t] = sq[t]
    BY <2>1
  <2>3. \A t \in Shards : t # s => ShardOwns(t)'  BY Zenon, <2>2, <1>SocketsKept
  <2>4. ShardOwns(s)'
    <3>1. /\ sq[s] \in Seq(Requests) /\ sh[s].batch \in Seq(Requests)
          /\ sh[s].new \in Conns \cup {NoConn} /\ sh[s].held \in Conns \cup {NoConn}
      BY Zenon, Known
    <3>2. ShardOwns(s)  BY Zenon DEF LInv, SocketsOwned
    <3>3. PassedIn(sq[s])'  BY Zenon, <2>2, <3>1, <3>2, <1>PassedPosted DEF ShardOwns
    <3>4. PassedIn(sh[s].batch)'  BY Zenon, <3>1, <3>2, <1>PassedKept DEF ShardOwns
    <3>5. sh'[s].new # NoConn => Passed(sh[s].new)'
      BY Zenon, <3>1, <3>2 DEF ShardOwns, NoneBack, Passed
    <3>6. sh'[s].held # NoConn => Passed(sh[s].held)'
      BY Zenon, <3>1, <3>2 DEF ShardOwns, NoneBack, Passed
    <3> QED  BY Zenon, <3>3, <3>4, <3>5, <3>6 DEF ShardOwns
  <2> QED  BY Zenon, <2>3, <2>4

(* The miot thread reads, writes, or gives up a socket.                    *)
<1>MiotStepsOwned. ASSUME IInv, LInv, NEW k \in Conns,
                          SocketToSession(k) \/ SocketFin(k) \/ SocketTimeout(k) \/ SessionToSocket(k)
                   PROVE  LInv'
  <2> USE <1>MiotStepsOwned
  <2>1. sh' = sh /\ cq' = cq /\ cl' = cl /\ session' = session /\ place[k] = "conns"
    BY Zenon DEF SocketToSession, SocketFin, SocketTimeout, SessionToSocket, Serving
  <2>2. FailConnection(k) \/ (place' = place /\ sq' = sq)
    BY Zenon DEF SocketToSession, SocketFin, SocketTimeout, SessionToSocket
  <2>3. CASE FailConnection(k)
    <3>1. place \in [Conns -> Places]  BY Zenon DEF IInv, ControlTypeOK
    <3>2. place' = [place EXCEPT ![k] = "queued"]  BY Zenon, <2>3 DEF FailConnection
    <3>3. NoneTaken /\ NoneBack /\ NoneLost /\ Passed(k)'
      BY <2>1, <3>1, <3>2 DEF NoneTaken, NoneBack, NoneLost, Passed
    <3>4. Shard(k) \in Shards /\ Flush(k) \in Requests /\ Flush(k).conn = k
      BY BrokerAssumption, MadeRequests DEF Shard
    <3>5. sq' = [sq EXCEPT ![Shard(k)] = Append(@, Flush(k))]  BY Zenon, <2>3 DEF FailConnection
    <3>6. \A t \in Shards : ShardOwns(t)'
      BY Zenon, <2>1, <3>3, <3>4, <3>5, <1>SocketsPosted
    <3>7. \A t \in Shards : SameSockets(t)  BY Zenon, <2>1 DEF SameSockets
    <3>8. cl'.batch = cl.batch  BY Zenon, <2>1
    <3> QED  BY Zenon, <2>1, <3>3, <3>6, <3>7, <3>8, <1>SessionsKept, <1>ClusterKept DEF LInv, SocketsOwned
  <2>4. CASE place' = place /\ sq' = sq  BY Zenon, <2>1, <2>4, <1>PlaceKept, <1>QuietOwned
  <2> QED  BY Zenon, <2>2, <2>3, <2>4

(* A step of the cluster that leaves shards and sessions.                  *)
<1>ClusterOwned. ASSUME IInv, LInv, sh' = sh, sq' = sq, session' = session, NoneBack, NoneLost, ClusterOwns'
                 PROVE  LInv'
  <2> USE <1>ClusterOwned
  <2>1. \A t \in Shards : SameSockets(t)  BY Zenon DEF SameSockets
  <2>2. \A t \in Shards : ShardOwns(t)'  BY Zenon, <1>SocketsKept
  <2> QED  BY Zenon, <2>1, <2>2, <1>SessionsKept DEF LInv, SocketsOwned

(* A request posted to the cluster, whose socket waits for it.             *)
<1>WaitingPosted. ASSUME NEW q \in Seq(Requests), NEW r \in Requests, NoneTaken, Waiting(q),
                         r.conn # NoConn => place'[r.conn] = "cluster"
                  PROVE  Waiting(Append(q, r))'
  <2> USE <1>WaitingPosted
  <2> SUFFICES ASSUME NEW i \in 1 .. Len(Append(q, r)), Append(q, r)[i].conn # NoConn
               PROVE  place'[Append(q, r)[i].conn] = "cluster"
    BY DEF Waiting
  <2>1. Waiting(q)'  BY <1>WaitingKept
  <2>2. CASE Append(q, r)[i] = r  BY Zenon, <2>2
  <2>3. CASE i \in 1 .. Len(q) /\ Append(q, r)[i] = q[i]
    BY Zenon, <2>1, <2>3 DEF Waiting
  <2> QED  BY Zenon, <2>2, <2>3, Posted

(* HandOver: the socket was with its handshake, so in no other request.    *)
<1>HandOverOwned. ASSUME IInv, LInv, NEW k \in Conns, HandOver(k)
                  PROVE  LInv'
  <2> USE <1>HandOverOwned
  <2>1. /\ place \in [Conns -> Places] /\ cq \in Seq(Requests) /\ cl.batch \in Seq(Requests)
        /\ Add(k) \in Requests /\ Add(k).conn = k
    BY MadeRequests DEF IInv, ControlTypeOK, ClusterStates
  <2>2. sh' = sh /\ sq' = sq /\ session' = session /\ cl' = cl /\ place[k] = "handshake"
    BY DEF HandOver
  <2>3. CASE ClusterGone
    <3>1. place' = [place EXCEPT ![k] = "closed"] /\ cq' = cq  BY Zenon, <2>3 DEF HandOver
    <3>2. NoneTaken /\ NoneBack /\ NoneLost
      BY <2>1, <2>2, <3>1 DEF NoneTaken, NoneBack, NoneLost, Passed
    <3> QED  BY Zenon, <2>2, <3>1, <3>2, <1>QuietOwned
  <2>4. CASE ~ClusterGone
    <3>1. place' = [place EXCEPT ![k] = "cluster"] /\ cq' = Append(cq, Add(k))
      BY Zenon, <2>4 DEF HandOver
    <3>2. NoneTaken /\ NoneBack /\ NoneLost /\ place'[k] = "cluster"
      BY <2>1, <2>2, <3>1 DEF NoneTaken, NoneBack, NoneLost, Passed
    <3>3. /\ Waiting(cq) /\ Waiting(cl.batch) /\ Once(cq) /\ Once(cl.batch)
          /\ Disjoint(cq, cl.batch)
      BY Zenon DEF LInv, SocketsOwned, ClusterOwns
    <3>4. "handshake" # "cluster" /\ k # NoConn  BY BrokerAssumption
    <3>5. \A i \in 1 .. Len(cq) : cq[i].conn # Add(k).conn
      BY Zenon, <2>1, <2>2, <3>3, <3>4 DEF Waiting
    <3>6. \A i \in 1 .. Len(cl.batch) : cl.batch[i].conn # Add(k).conn
      BY Zenon, <2>1, <2>2, <3>3, <3>4 DEF Waiting
    <3>7. Once(Append(cq, Add(k))) /\ Disjoint(Append(cq, Add(k)), cl.batch)
      BY Zenon, <2>1, <3>3, <3>5, <3>6, OncePosted
    <3>8. Waiting(cl.batch)'  BY Zenon, <2>1, <2>2, <3>2, <3>3, <1>WaitingKept
    <3>9. Waiting(cq)'  BY Zenon, <2>1, <3>1, <3>2, <3>3, <1>WaitingPosted
    <3>10. Once(cq') /\ Disjoint(cq', cl'.batch) /\ Once(cl'.batch)
      BY Zenon, <2>2, <3>1, <3>3, <3>7
    <3>11. ClusterOwns'  BY Zenon, <3>8, <3>9, <3>10 DEF ClusterOwns, Once, Disjoint
    <3> QED  BY Zenon, <2>2, <3>2, <3>11, <1>ClusterOwned
  <2> QED  BY Zenon, <2>3, <2>4

(* close_wait posts a Close, which carries no socket.                      *)
<1>AskCloseOwned. ASSUME IInv, LInv, AskClose
                  PROVE  LInv'
  <2> USE <1>AskCloseOwned
  <2>1. /\ cq \in Seq(Requests) /\ cl \in ClusterStates /\ cl.batch \in Seq(Requests)
        /\ Close \in Requests /\ Close.conn = NoConn
    BY MadeRequests DEF IInv, ControlTypeOK, ClusterStates, Close
  <2>2. /\ sh' = sh /\ sq' = sq /\ session' = session /\ place' = place
        /\ cl' = [cl EXCEPT !.asked = TRUE] /\ cq' = Append(cq, Close)
    BY DEF AskClose, sockVars
  <2>3. cl'.batch = cl.batch  BY <2>1, <2>2 DEF ClusterStates
  <2>4. NoneTaken /\ NoneBack /\ NoneLost  BY Zenon, <2>2, <1>PlaceKept
  <2>5. /\ Waiting(cq) /\ Waiting(cl.batch) /\ Once(cq) /\ Once(cl.batch)
        /\ Disjoint(cq, cl.batch)
    BY Zenon DEF LInv, SocketsOwned, ClusterOwns
  <2>6. Once(Append(cq, Close)) /\ Disjoint(Append(cq, Close), cl.batch)
    BY Zenon, <2>1, <2>5, OncePosted
  <2>7. Waiting(cl.batch)'  BY Zenon, <2>1, <2>3, <2>4, <2>5, <1>WaitingKept
  <2>8. Waiting(cq)'  BY Zenon, <2>1, <2>2, <2>4, <2>5, <1>WaitingPosted
  <2>9. Once(cq') /\ Disjoint(cq', cl'.batch) /\ Once(cl'.batch)
    BY Zenon, <2>2, <2>3, <2>5, <2>6
  <2>10. ClusterOwns'  BY Zenon, <2>7, <2>8, <2>9 DEF ClusterOwns, Once, Disjoint
  <2> QED  BY Zenon, <2>2, <2>4, <2>10, <1>ClusterOwned

(* pending_requests moves the sockets from the channel to the batch.       *)
<1>DrainClusterOwned. ASSUME IInv, LInv, DrainCluster
                      PROVE  LInv'
  <2> USE <1>DrainClusterOwned
  <2>1. cq \in Seq(Requests) /\ cl \in ClusterStates
    BY DEF IInv, ControlTypeOK
  <2>2. /\ sh' = sh /\ sq' = sq /\ session' = session /\ place' = place
        /\ cl' = [cl EXCEPT !.batch = cq] /\ cq' = <<>>
    BY DEF DrainCluster, sockVars
  <2>3. cl'.batch = cq  BY <2>1, <2>2 DEF ClusterStates
  <2>4. NoneTaken /\ NoneBack /\ NoneLost  BY Zenon, <2>2, <1>PlaceKept
  <2>5. Waiting(cq) /\ Once(cq)  BY Zenon DEF LInv, SocketsOwned, ClusterOwns
  <2>6. 1 .. Len(<<>>) = {}  BY EmptyQueue
  <2>7. Waiting(cl.batch)'  BY Zenon, <2>1, <2>3, <2>4, <2>5, <1>WaitingKept
  <2>8. Waiting(cq)' /\ Once(cq') /\ Disjoint(cq', cl'.batch)
    BY Zenon, <2>2, <2>6 DEF Waiting, Once, Disjoint
  <2>9. Once(cl'.batch)  BY Zenon, <2>3, <2>5
  <2>10. ClusterOwns'  BY Zenon, <2>7, <2>8, <2>9 DEF ClusterOwns, Once, Disjoint
  <2> QED  BY Zenon, <2>2, <2>4, <2>10, <1>ClusterOwned

(* handle_close takes a Close, which carries no socket, from the batch.    *)
<1>HandleCloseOwned. ASSUME IInv, LInv, HandleClose
                     PROVE  LInv'
  <2> USE <1>HandleCloseOwned
  <2>1. cq \in Seq(Requests) /\ cl \in ClusterStates /\ cl.batch \in Seq(Requests)
    BY DEF IInv, ControlTypeOK, ClusterStates
  <2>2. /\ sh' = sh /\ sq' = sq /\ session' = session /\ place' = place /\ cq' = cq
        /\ cl.batch # <<>> /\ cl' = [cl EXCEPT !.pc = "closing", !.batch = Tail(@)]
    BY DEF HandleClose, Handling, sockVars
  <2>3. cl'.batch = Tail(cl.batch)  BY <2>1, <2>2 DEF ClusterStates
  <2>4. NoneTaken /\ NoneBack /\ NoneLost  BY Zenon, <2>2, <1>PlaceKept
  <2>5. /\ Waiting(cq) /\ Waiting(cl.batch) /\ Once(cq) /\ Once(cl.batch)
        /\ Disjoint(cq, cl.batch)
    BY Zenon DEF LInv, SocketsOwned, ClusterOwns
  <2>6. /\ Waiting(Tail(cl.batch)) /\ Once(Tail(cl.batch)) /\ Disjoint(cq, Tail(cl.batch))
        /\ Tail(cl.batch) \in Seq(Requests)
    <3>1. Tail(cl.batch) \in Seq(Requests)  BY <2>1, <2>2
    <3> QED  BY Zenon, <2>1, <2>2, <2>5, <3>1, OnceTail
  <2>7. Waiting(cl.batch)'  BY Zenon, <2>3, <2>4, <2>6, <1>WaitingKept
  <2>8. Waiting(cq)'  BY Zenon, <2>1, <2>2, <2>4, <2>5, <1>WaitingKept
  <2>9. Once(cq') /\ Disjoint(cq', cl'.batch) /\ Once(cl'.batch)
    BY Zenon, <2>2, <2>3, <2>5, <2>6
  <2>10. ClusterOwns'  BY Zenon, <2>7, <2>8, <2>9 DEF ClusterOwns, Once, Disjoint
  <2> QED  BY Zenon, <2>2, <2>4, <2>10, <1>ClusterOwned

(* The cluster has joined a shard thread.                                  *)
<1>JoinShardOwned. ASSUME IInv, LInv, JoinShard
                   PROVE  LInv'
  <2> USE <1>JoinShardOwned
  <2>1. cl \in ClusterStates  BY DEF IInv, ControlTypeOK
  <2>2. /\ sh' = sh /\ sq' = sq /\ session' = session /\ place' = place /\ cq' = cq
        /\ cl' = [cl EXCEPT !.pc = "closing"]
    BY DEF JoinShard, sockVars
  <2>3. cl'.batch = cl.batch  BY <2>1, <2>2 DEF ClusterStates
  <2>4. NoneTaken /\ NoneBack /\ NoneLost  BY Zenon, <2>2, <1>PlaceKept
  <2> QED  BY Zenon, <2>2, <2>3, <2>4, <1>ClusterKept, <1>ClusterOwned

(* The cluster ends: the sockets it drops were waiting for it.             *)
<1>ExitClusterOwned. ASSUME IInv, LInv, ExitCluster
                     PROVE  LInv'
  <2> USE <1>ExitClusterOwned
  <2>1. cq \in Seq(Requests) /\ cl \in ClusterStates /\ cl.batch \in Seq(Requests)
        /\ place \in [Conns -> Places]
    BY DEF IInv, ControlTypeOK, ClusterStates
  <2>2. /\ sh' = sh /\ sq' = sq /\ session' = session /\ cq' = <<>>
        /\ cl' = [cl EXCEPT !.pc = IF cl.batch = <<>> THEN "exited" ELSE "panicked",
                            !.batch = <<>>]
        /\ place' = Dropped(SocketsIn(cl.batch) \cup SocketsIn(cq))
    BY DEF ExitCluster
  <2>3. cl'.batch = <<>>  BY <2>1, <2>2 DEF ClusterStates
  <2>4. Waiting(cq) /\ Waiting(cl.batch)  BY Zenon DEF LInv, SocketsOwned, ClusterOwns
  <2>5. \A q \in Seq(Requests) : Waiting(q) => \A k \in SocketsIn(q) : place[k] = "cluster"
    <3>1. \A q \in Seq(Requests) : DOMAIN q = 1 .. Len(q)  OBVIOUS
    <3> QED  BY Zenon, <3>1 DEF Waiting, SocketsIn
  <2>6. \A k \in Conns : place'[k] = place[k] \/ (place[k] = "cluster" /\ place'[k] = "closed")
    BY Zenon, <2>1, <2>2, <2>4, <2>5 DEF Dropped
  <2>7. NoneBack /\ NoneLost  BY <2>6 DEF NoneBack, NoneLost, Passed
  <2>8. 1 .. Len(<<>>) = {}  BY EmptyQueue
  <2>9. ClusterOwns'  BY Zenon, <2>2, <2>3, <2>8 DEF ClusterOwns, Waiting, Once, Disjoint
  <2> QED  BY Zenon, <2>2, <2>7, <2>9, <1>ClusterOwned

(* The cluster posts a Close to a shard.                                   *)
<1>CloseShardOwned. ASSUME IInv, LInv, CloseShard
                    PROVE  LInv'
  <2> USE <1>CloseShardOwned
  <2>1. cl \in ClusterStates  BY DEF IInv, ControlTypeOK
  <2>2. PICK s \in cl.left : /\ sq' = [sq EXCEPT ![s] = Append(@, Close)]
                             /\ cl' = [cl EXCEPT !.pc = "join", !.left = @ \ {s}]
    BY Zenon DEF CloseShard
  <2>3. sh' = sh /\ session' = session /\ place' = place /\ cq' = cq
    BY DEF CloseShard, sockVars
  <2>4. s \in Shards  BY <2>1 DEF ClusterStates
  <2>5. cl'.batch = cl.batch  BY Zenon, <2>1, <2>2 DEF ClusterStates
  <2>6. NoneTaken /\ NoneBack /\ NoneLost  BY Zenon, <2>3, <1>PlaceKept
  <2>7. Close \in Requests /\ Close.conn = NoConn  BY DEF Close, Requests
  <2>8. \A t \in Shards : ShardOwns(t)'
    BY Zenon, <2>2, <2>3, <2>4, <2>6, <2>7, <1>SocketsPosted
  <2>9. \A t \in Shards : SameSockets(t)  BY Zenon, <2>3 DEF SameSockets
  <2> QED  BY Zenon, <2>3, <2>5, <2>6, <2>8, <2>9, <1>SessionsKept, <1>ClusterKept DEF LInv, SocketsOwned

(* AddSession: the socket is the only one that leaves the cluster.         *)
<1>HandleAddConnectionOwned. ASSUME IInv, LInv, HandleAddConnection
                             PROVE  LInv'
  <2> USE <1>HandleAddConnectionOwned
  <2>1. /\ place \in [Conns -> Places] /\ cl \in ClusterStates /\ cl.batch \in Seq(Requests)
        /\ cq \in Seq(Requests)
    BY DEF IInv, ControlTypeOK, ClusterStates
  <2>2. cl.batch # <<>> /\ Head(cl.batch).type = "add"
    BY DEF HandleAddConnection, Handling
  <2>3. PICK k \in Conns : k = Head(cl.batch).conn
    BY <2>1, <2>2, TailOfBatch DEF IInv, ClusterOK
  <2>4. Shard(k) \in Shards /\ k # NoConn /\ Add(k) \in Requests /\ Add(k).conn = k
    BY BrokerAssumption, MadeRequests DEF Shard
  <2>5. sh' = sh /\ session' = session /\ cq' = cq  BY DEF HandleAddConnection
  <2>6. CASE PeerAddr(k)
    <3>1. /\ place' = [place EXCEPT ![k] = "shard"]
          /\ sq' = [sq EXCEPT ![Shard(k)] = Append(@, Add(k))]
          /\ cl' = [cl EXCEPT !.pc = "shard", !.batch = Tail(@)]
      BY <2>3, <2>6 DEF HandleAddConnection
    <3>2. cl'.batch = Tail(cl.batch)  BY <2>1, <3>1 DEF ClusterStates
    <3>3. /\ Waiting(cq) /\ Waiting(cl.batch) /\ Once(cq) /\ Once(cl.batch)
          /\ Disjoint(cq, cl.batch)
      BY Zenon DEF LInv, SocketsOwned, ClusterOwns
    <3>4. 1 \in 1 .. Len(cl.batch) /\ cl.batch[1].conn = k  BY <2>1, <2>2, <2>3, TailOfBatch
    <3>5. place[k] = "cluster"  BY Zenon, <2>4, <3>3, <3>4 DEF Waiting
    <3>6. NoneBack /\ NoneLost /\ Passed(k)' /\ \A j \in Conns : j # k => place'[j] = place[j]
      BY <2>1, <3>1, <3>5 DEF NoneBack, NoneLost, Passed
    <3>7. \A t \in Shards : ShardOwns(t)'
      BY Zenon, <2>4, <2>5, <3>1, <3>6, <1>SocketsPosted
    <3>8. \A t \in Shards : SameSockets(t)  BY Zenon, <2>5 DEF SameSockets
    <3>9. /\ Waiting(Tail(cl.batch)) /\ Once(Tail(cl.batch)) /\ Disjoint(cq, Tail(cl.batch))
          /\ \A i \in 1 .. Len(Tail(cl.batch)) :
               Tail(cl.batch)[i].conn # NoConn => Tail(cl.batch)[i].conn # k
      BY Zenon, <2>1, <2>2, <2>3, <3>3, OnceTail
    <3>10. Tail(cl.batch) \in Seq(Requests)  BY <2>1, <2>2
    <3>11. Waiting(cl.batch)'
      <4>1. \A i \in 1 .. Len(Tail(cl.batch)) : Tail(cl.batch)[i].conn \in Conns \cup {NoConn}
        BY Zenon, <3>10, ConnOf
      <4> QED  BY Zenon, <3>2, <3>6, <3>9, <4>1 DEF Waiting
    <3>12. Waiting(cq)'
      <4>1. \A i \in 1 .. Len(cq) : cq[i].conn \in Conns \cup {NoConn}
        BY Zenon, <2>1, ConnOf
      <4>2. \A i \in 1 .. Len(cq) : cq[i].conn # k
        BY Zenon, <2>4, <3>3, <3>4 DEF Disjoint
      <4> QED  BY Zenon, <2>5, <3>3, <3>6, <4>1, <4>2 DEF Waiting
    <3>13. Once(cq') /\ Disjoint(cq', cl'.batch) /\ Once(cl'.batch)
      BY Zenon, <2>5, <3>2, <3>3, <3>9
    <3>14. ClusterOwns'  BY Zenon, <3>11, <3>12, <3>13 DEF ClusterOwns, Once, Disjoint
    <3> QED  BY Zenon, <2>5, <3>6, <3>7, <3>8, <3>14, <1>SessionsKept DEF LInv, SocketsOwned
  <2>7. CASE ~PeerAddr(k)
    <3>1. place' = place /\ sq' = sq /\ cl' = cl  BY <2>3, <2>7 DEF HandleAddConnection
    <3> QED  BY Zenon, <2>5, <3>1, <1>PlaceKept, <1>QuietOwned
  <2> QED  BY <2>3, <2>6, <2>7

(* A step of shard s, or of a thread that serves it.                       *)
<1>ShardOwned. ASSUME IInv, LInv, NEW s \in Shards, NEW r, sh' = [sh EXCEPT ![s] = r],
                      NoneTaken, NoneBack, cq' = cq, cl'.batch = cl.batch,
                      \A k \in Conns : Shard(k) # s /\ place[k] \in {"conns", "queued"} =>
                         place'[k] \in {"conns", "queued"},
                      \A c \in Clients : ShardOf[c] # s => session'[c] = session[c],
                      \A t \in Shards : t # s => sq'[t] = sq[t],
                      \A c \in Clients : ShardOf[c] = s /\ session'[c] # NoConn =>
                         \/ place'[session'[c]] \in {"conns", "queued"}
                         \/ session'[c] = r.held \/ r.pc = "close",
                      \A c \in Clients : Filed(c)', OneInConns', ShardOwns(s)', HeldOK(s)'
               PROVE  LInv'
  <2> USE <1>ShardOwned
  <2>1. sh'[s] = r /\ \A t \in Shards : t # s => sh'[t] = sh[t]  BY Zenon, Known
  <2>2. ClusterOwns'  BY Zenon, <1>ClusterKept
  <2>3. \A t \in Shards : t # s => ShardOwns(t)'  BY Zenon, <2>1, <1>SocketsKept
  <2>4. ASSUME NEW t \in Shards, t # s  PROVE HeldOK(t)'
    <3>1. HeldOK(t) /\ sh'[t] = sh[t] /\ ControlOK(t) /\ sh[t].new \in Conns \cup {NoConn}
      BY Zenon, <2>1, <2>4, Known DEF LInv, SocketsOwned
    <3>2. sh[t].pc = "insert" => sh[t].new \in Conns /\ Shard(sh[t].new) # s
      BY Zenon, <2>4, <3>1 DEF ControlOK, InAdd
    <3> QED  BY Zenon, <3>1, <3>2 DEF HeldOK
  <2>5. NoSessionLeaks'
    <3>1. ASSUME NEW c \in Clients, session'[c] # NoConn
          PROVE  \/ place'[session'[c]] \in {"conns", "queued"}
                 \/ session'[c] \in Held'
                 \/ sh'[ShardOf[c]].pc = "close"
      <4>1. ShardOf[c] \in Shards  BY BrokerAssumption
      <4>2. \A t \in Shards : sh'[t].held \in Held'  BY Zenon DEF Held
      <4>3. CASE ShardOf[c] = s
        <5>1. \/ place'[session'[c]] \in {"conns", "queued"}
              \/ session'[c] = r.held \/ r.pc = "close"
          BY Zenon, <3>1, <4>3
        <5>2. sh'[ShardOf[c]] = r /\ r.held \in Held'  BY Zenon, <2>1, <4>2, <4>3
        <5> QED  BY Zenon, <5>1, <5>2
      <4>4. CASE ShardOf[c] # s
        <5> DEFINE t == ShardOf[c]
        <5>1. session'[c] = session[c] /\ sh'[t] = sh[t]  BY Zenon, <2>1, <4>1, <4>4
        <5>2. /\ session[c] \in Conns /\ Shard(session[c]) = t
              /\ \/ place[session[c]] \in {"conns", "queued"}
                 \/ session[c] = sh[t].held \/ sh[t].pc = "close"
          BY Zenon, <3>1, <4>1, <5>1, KnownSockets
        <5> QED  BY Zenon, <4>1, <4>2, <4>4, <5>1, <5>2
      <4> QED  BY Zenon, <4>3, <4>4
    <3> QED  BY Zenon, <3>1 DEF NoSessionLeaks
  <2> QED  BY Zenon, <2>2, <2>3, <2>4, <2>5 DEF LInv, SocketsOwned

(* A step of shard s that leaves the sockets and sessions.                 *)
<1>ShardWorks. ASSUME IInv, LInv, NEW s \in Shards, NEW r, sh' = [sh EXCEPT ![s] = r],
                      r.held = sh[s].held, r.new = sh[s].new, r.held # NoConn => r.pc = sh[s].pc,
                      sh[s].pc = "close" => r.pc = "close", r.pc # "insert",
                      \/ r.batch = sh[s].batch
                      \/ sh[s].batch # <<>> /\ r.batch = Tail(sh[s].batch),
                      place' = place, session' = session, sq' = sq, cq' = cq, cl' = cl
               PROVE  LInv'
  <2> USE <1>ShardWorks
  <2>1. sh'[s] = r /\ \A t \in Shards : t # s => sh'[t] = sh[t]  BY Zenon, Known
  <2>2. \A t \in Shards : SameSockets(t)  BY Zenon, <2>1 DEF SameSockets
  <2>3. NoneTaken /\ NoneBack /\ NoneLost  BY Zenon, <1>PlaceKept
  <2>4. ShardOwns(s)'  BY Zenon, <2>1, <2>3, <1>SocketsKept
  <2>5. \A t \in Shards : t # s => ShardOwns(t)'  BY Zenon, <2>1, <2>3, <1>SocketsKept
  <2> QED  BY Zenon, <2>2, <2>3, <2>4, <2>5, <1>SessionsKept, <1>ClusterKept DEF LInv, SocketsOwned

(* pending_requests moves the sockets from the channel to the batch.       *)
<1>DrainOwned. ASSUME IInv, LInv, NEW s \in Shards, Drain(s)
               PROVE  LInv'
  <2> USE <1>DrainOwned
  <2> DEFINE r == [sh[s] EXCEPT !.pc = "drain", !.batch = sq[s]]
  <2>1. /\ sh[s] \in ShardStates /\ sq[s] \in Seq(Requests) /\ sh[s].pc = "poll"
        /\ sq \in [Shards -> Seq(Requests)]
        /\ sh[s].new \in Conns \cup {NoConn} /\ sh[s].held \in Conns \cup {NoConn}
    BY Zenon, Known DEF Drain, At
  <2>2. sh' = [sh EXCEPT ![s] = r] /\ sq' = [sq EXCEPT ![s] = <<>>]
    BY Zenon, Known DEF Drain
  <2>3. r.pc = "drain" /\ r.batch = sq[s] /\ r.new = sh[s].new /\ r.held = sh[s].held
    BY <2>1 DEF ShardStates
  <2>4. place' = place /\ session' = session /\ cq' = cq /\ cl' = cl
    BY DEF Drain, sockVars
  <2> HIDE DEF r
  <2>5. sh'[s] = r /\ \A t \in Shards : t # s => sh'[t] = sh[t]  BY Zenon, <2>2, Known
  <2>6. sq'[s] = <<>> /\ \A t \in Shards : t # s => sq'[t] = sq[t]  BY Zenon, <2>1, <2>2
  <2>7. NoneTaken /\ NoneBack /\ NoneLost  BY Zenon, <2>4, <1>PlaceKept
  <2>8. ShardOwns(s) /\ HeldOK(s)  BY Zenon DEF LInv, SocketsOwned
  <2>9. \A t \in Shards : SameSockets(t)
    <3>1. sh[s].held = NoConn  BY <2>1, <2>8 DEF HeldOK
    <3> QED  BY Zenon, <2>1, <2>3, <2>5, <3>1 DEF SameSockets
  <2>10. ShardOwns(s)'
    <3>1. 1 .. Len(<<>>) = {}  BY EmptyQueue
    <3>2. PassedIn(sq[s])'  BY Zenon, <2>6, <3>1 DEF PassedIn
    <3>3. PassedIn(sh[s].batch)'  BY Zenon, <2>1, <2>3, <2>5, <2>7, <2>8, <1>PassedKept DEF ShardOwns
    <3> QED  BY Zenon, <2>1, <2>3, <2>5, <2>7, <2>8, <3>2, <3>3 DEF ShardOwns, NoneBack, Passed
  <2>11. \A t \in Shards : t # s => ShardOwns(t)'  BY Zenon, <2>5, <2>6, <2>7, <1>SocketsKept
  <2> QED  BY Zenon, <2>4, <2>7, <2>9, <2>10, <2>11, <1>SessionsKept, <1>ClusterKept DEF LInv, SocketsOwned

(* The end of an iteration.                                                *)
<1>EndIterationOwned. ASSUME IInv, LInv, NEW s \in Shards, EndIteration(s)
                      PROVE  LInv'
  <2> USE <1>EndIterationOwned
  <2> DEFINE r == [sh[s] EXCEPT !.pc = "poll"]
  <2>1. sh[s] \in ShardStates /\ sh[s].pc = "slow" /\ HeldOK(s)
    BY Zenon, Known DEF EndIteration, At, LInv, SocketsOwned
  <2>2. sh' = [sh EXCEPT ![s] = r]  BY Zenon, Known DEF EndIteration, Goto
  <2>3. r.pc = "poll" /\ r.batch = sh[s].batch /\ r.new = sh[s].new /\ r.held = sh[s].held
    BY <2>1 DEF ShardStates
  <2>4. place' = place /\ session' = session /\ sq' = sq /\ cq' = cq /\ cl' = cl
    BY DEF EndIteration, sockVars
  <2> HIDE DEF r
  <2>5. sh[s].held = NoConn  BY <2>1 DEF HeldOK
  <2> QED  BY Zenon, <2>1, <2>2, <2>3, <2>4, <2>5, <1>ShardWorks

(* A shard takes its Close, which carries no socket.                       *)
<1>CloseRequestOwned. ASSUME IInv, LInv, NEW s \in Shards, CloseRequest(s)
                      PROVE  LInv'
  <2> USE <1>CloseRequestOwned
  <2> DEFINE r == [sh[s] EXCEPT !.pc = "close", !.batch = Tail(sh[s].batch)]
  <2>1. sh[s] \in ShardStates /\ sh[s].pc = "drain" /\ HeldOK(s) /\ sh[s].batch # <<>>
    BY Zenon, Known DEF CloseRequest, At, LInv, SocketsOwned
  <2>2. sh' = [sh EXCEPT ![s] = r]  BY Zenon, Known DEF CloseRequest
  <2>3. /\ r.pc = "close" /\ r.batch = Tail(sh[s].batch) /\ r.new = sh[s].new
        /\ r.held = sh[s].held
    BY <2>1 DEF ShardStates
  <2>4. place' = place /\ session' = session /\ sq' = sq /\ cq' = cq /\ cl' = cl
    BY DEF CloseRequest, sockVars
  <2> HIDE DEF r
  <2>5. sh[s].held = NoConn  BY <2>1 DEF HeldOK
  <2> QED  BY Zenon, <2>1, <2>2, <2>3, <2>4, <2>5, <1>ShardWorks

(* route_packets moves packets, not sockets.                               *)
<1>RoutePacketsOwned. ASSUME IInv, LInv, NEW s \in Shards, RoutePackets(s)
                      PROVE  LInv'
  <2> USE <1>RoutePacketsOwned
  <2>1. sh[s] \in ShardStates /\ sh[s].pc = "drain" /\ HeldOK(s)
    BY Zenon, Known DEF RoutePackets, At, LInv, SocketsOwned
  <2>2. place' = place /\ session' = session /\ sq' = sq /\ cq' = cq /\ cl' = cl
    BY Zenon DEF RoutePackets
  <2>3. \/ sh' = sh
        \/ \E todo, acked :
             sh' = [sh EXCEPT ![s].pc = "failed", ![s].todo = todo, ![s].acked = acked]
    BY Zenon DEF RoutePackets
  <2>4. CASE sh' = sh  BY Zenon, <2>2, <2>4, <1>PlaceKept, <1>QuietOwned
  <2>5. ASSUME NEW todo, NEW acked,
               sh' = [sh EXCEPT ![s].pc = "failed", ![s].todo = todo, ![s].acked = acked]
        PROVE  LInv'
    <3> DEFINE r == [sh[s] EXCEPT !.pc = "failed", !.todo = todo, !.acked = acked]
    <3>1. sh' = [sh EXCEPT ![s] = r]  BY Zenon, <2>5, Known
    <3>2. r.pc = "failed" /\ r.batch = sh[s].batch /\ r.new = sh[s].new /\ r.held = sh[s].held
      BY <2>1 DEF ShardStates
    <3> HIDE DEF r
    <3>3. sh[s].held = NoConn  BY <2>1 DEF HeldOK
    <3> QED  BY Zenon, <2>1, <2>2, <3>1, <3>2, <3>3, <1>ShardWorks
  <2> QED  BY Zenon, <2>3, <2>4, <2>5

(* commit_acks and out_acks_flush move packets, not sockets.               *)
<1>CommitAcksOwned. ASSUME IInv, LInv, NEW s \in Shards, CommitAcks(s)
                    PROVE  LInv'
  <2> USE <1>CommitAcksOwned
  <2>1. sh[s] \in ShardStates /\ sh[s].pc = "failed" /\ HeldOK(s)
    BY Zenon, Known DEF CommitAcks, At, LInv, SocketsOwned
  <2>2. place' = place /\ session' = session /\ sq' = sq /\ cq' = cq /\ cl' = cl
    BY Zenon DEF CommitAcks
  <2>3. \/ sh' = sh
        \/ \E todo : sh' = [sh EXCEPT ![s].pc = "slow", ![s].todo = todo, ![s].acked = {}]
    BY Zenon DEF CommitAcks
  <2>4. CASE sh' = sh  BY Zenon, <2>2, <2>4, <1>PlaceKept, <1>QuietOwned
  <2>5. ASSUME NEW todo,
               sh' = [sh EXCEPT ![s].pc = "slow", ![s].todo = todo, ![s].acked = {}]
        PROVE  LInv'
    <3> DEFINE r == [sh[s] EXCEPT !.pc = "slow", !.todo = todo, !.acked = {}]
    <3>1. sh' = [sh EXCEPT ![s] = r]  BY Zenon, <2>5, Known
    <3>2. r.pc = "slow" /\ r.batch = sh[s].batch /\ r.new = sh[s].new /\ r.held = sh[s].held
      BY <2>1 DEF ShardStates
    <3> HIDE DEF r
    <3>3. sh[s].held = NoConn  BY <2>1 DEF HeldOK
    <3> QED  BY Zenon, <2>1, <2>2, <3>1, <3>2, <3>3, <1>ShardWorks
  <2> QED  BY Zenon, <2>3, <2>4, <2>5

(* The shard asks its miot thread for the next socket to disconnect.       *)
<1>DisconnectNextOwned. ASSUME IInv, LInv, NEW s \in Shards, DisconnectNext(s)
                        PROVE  LInv'
  <2> USE <1>DisconnectNextOwned
  <2>1. sh[s] \in ShardStates /\ sh[s].pc \in {"failed", "slow"} /\ HeldOK(s)
    BY Zenon, Known DEF DisconnectNext, LInv, SocketsOwned
  <2>2. PICK c \in sh[s].todo :
          sh' = [sh EXCEPT ![s].todo = @ \ {c}, ![s].rm = c,
                           ![s].pc = "remove", ![s].ret = sh[s].pc]
    BY Zenon DEF DisconnectNext
  <2> DEFINE r == [sh[s] EXCEPT !.todo = @ \ {c}, !.rm = c, !.pc = "remove", !.ret = sh[s].pc]
  <2>3. sh' = [sh EXCEPT ![s] = r]  BY Zenon, <2>2, Known
  <2>4. r.pc = "remove" /\ r.batch = sh[s].batch /\ r.new = sh[s].new /\ r.held = sh[s].held
    BY <2>1 DEF ShardStates
  <2> HIDE DEF r
  <2>5. place' = place /\ session' = session /\ sq' = sq /\ cq' = cq /\ cl' = cl
    BY DEF DisconnectNext, sockVars
  <2>6. sh[s].held = NoConn /\ sh[s].pc # "close"  BY <2>1 DEF HeldOK
  <2> QED  BY Zenon, <2>3, <2>4, <2>5, <2>6, <1>ShardWorks

(* The session that is filed has its socket in the miot thread, or in a    *)
(* FlushConnection.                                                        *)
<1>InsertSessionOwned. ASSUME IInv, LInv, NEW s \in Shards, InsertSession(s)
                       PROVE  LInv'
  <2> USE <1>InsertSessionOwned
  <2> DEFINE r == [sh[s] EXCEPT !.pc = "drain", !.new = NoConn]
             k == sh[s].new
  <2>1. /\ sh[s] \in ShardStates /\ sh[s].pc = "insert" /\ ControlOK(s)
        /\ ShardOwns(s) /\ HeldOK(s)
    BY Zenon, Known DEF InsertSession, At, LInv, SocketsOwned
  <2>2. k \in Conns /\ k # NoConn /\ Shard(k) = s
    BY Zenon, <2>1, Known DEF ControlOK, InAdd
  <2>3. sh' = [sh EXCEPT ![s] = r]  BY Zenon, Known DEF InsertSession
  <2>4. r.pc = "drain" /\ r.batch = sh[s].batch /\ r.new = NoConn /\ r.held = sh[s].held
    BY <2>1 DEF ShardStates
  <2> HIDE DEF r
  <2>5. sh'[s] = r  BY Zenon, <2>3, Known
  <2>6. /\ place' = place /\ sq' = sq /\ cq' = cq /\ cl' = [cl EXCEPT !.pc = "main"]
        /\ session' = [session EXCEPT ![ClientOf[k]] = k]
    BY DEF InsertSession, sockVars
  <2>7. cl'.batch = cl.batch  BY Zenon, <2>6, Known DEF ClusterStates
  <2>8. ClientOf[k] \in Clients /\ ShardOf[ClientOf[k]] = s
    BY <2>2, BrokerAssumption DEF Shard
  <2>9. /\ session'[ClientOf[k]] = k
        /\ \A c \in Clients : c # ClientOf[k] => session'[c] = session[c]
    BY Zenon, <2>6, <2>8, Known
  <2>10. NoneTaken /\ NoneBack  BY Zenon, <2>6, <1>PlaceKept
  <2>11. place[k] \in {"conns", "queued"} /\ sh[s].held = NoConn  BY <2>1 DEF HeldOK
  <2>12. ASSUME NEW c \in Clients, ShardOf[c] = s, session'[c] # NoConn
         PROVE  place'[session'[c]] \in {"conns", "queued"}
    <3>1. CASE c = ClientOf[k]  BY Zenon, <2>6, <2>9, <2>11, <3>1
    <3>2. CASE c # ClientOf[k]
      <4>1. session'[c] = session[c] /\ sh[s].pc # "close"  BY <2>1, <2>9, <3>2
      <4> QED  BY Zenon, <2>6, <2>11, <2>12, <4>1, KnownSockets
    <3> QED  BY Zenon, <3>1, <3>2
  <2>13. \A c \in Clients : Filed(c)'
    BY Zenon, <2>9 DEF LInv, SocketsOwned, Filed
  <2>14. OneInConns'  BY Zenon, <2>6 DEF LInv, SocketsOwned, OneInConns
  <2>15. ShardOwns(s)'  BY Zenon, <2>4, <2>5, <2>6, <2>10, <1>SocketsKept
  <2>16. HeldOK(s)'  BY <2>4, <2>5, <2>11 DEF HeldOK
  <2>17. \A c \in Clients : ShardOf[c] # s => session'[c] = session[c]  BY Zenon, <2>8, <2>9
  <2>18. \A j \in Conns : Shard(j) # s /\ place[j] \in {"conns", "queued"} =>
            place'[j] \in {"conns", "queued"}
    BY Zenon, <2>6
  <2>19. \A t \in Shards : t # s => sq'[t] = sq[t]  BY Zenon, <2>6
  <2> QED  BY Zenon, <2>3, <2>6, <2>7, <2>10, <2>12, <2>13, <2>14, <2>15, <2>16, <2>17, <2>18,
              <2>19, <1>ShardOwned

(* The shard goes on.  The flusher had no socket of a session.             *)
<1>ResumesOwned. ASSUME IInv, LInv, NEW s \in Shards, Resume(s),
                        \/ sh[s].pc = "removed" /\ sh[s].held = NoConn /\ place' = place
                        \/ sh[s].pc = "flush" /\ place' = [place EXCEPT ![sh[s].held] = "closed"],
                        session' = session, sq' = sq, cq' = cq, cl' = cl
                 PROVE  LInv'
  <2> USE <1>ResumesOwned
  <2> DEFINE r == [sh[s] EXCEPT !.pc = sh[s].ret, !.held = NoConn, !.rm = NoClient,
                                !.ret = "poll"]
             h == sh[s].held
  <2>1. /\ sh[s] \in ShardStates /\ ControlOK(s) /\ ShardOwns(s) /\ HeldOK(s)
        /\ place \in [Conns -> Places]
    BY Zenon, Known DEF LInv, SocketsOwned
  <2>2. sh' = [sh EXCEPT ![s] = r]  BY Zenon, Known DEF Resume
  <2>3. /\ r.pc = sh[s].ret /\ r.batch = sh[s].batch /\ r.new = sh[s].new /\ r.held = NoConn
    BY <2>1 DEF ShardStates
  <2> HIDE DEF r
  <2>4. sh'[s] = r  BY Zenon, <2>2, Known
  <2>5. r.pc # "insert" /\ sh[s].pc # "close"
    <3>1. sh[s].ret \in {"poll", "drain", "add", "failed", "slow"}  BY Zenon, <2>1 DEF ControlOK
    <3> QED  BY <2>3, <3>1
  <2>6. h # NoConn => /\ h \in Conns /\ Passed(h) /\ Shard(h) = s /\ sh[s].pc = "flush"
                      /\ session[ClientOf[h]] # h
    <3>1. h # NoConn => sh[s].pc = "flush"  BY <2>1 DEF HeldOK
    <3>2. h # NoConn => h \in Conns /\ Shard(h) = s  BY Zenon, KnownSockets
    <3>3. h # NoConn => Passed(h)  BY Zenon, <2>1 DEF ShardOwns
    <3>4. sh[s].pc = "flush" => session[ClientOf[h]] # h  BY Zenon, <2>1 DEF ControlOK
    <3> QED  BY Zenon, <3>1, <3>2, <3>3, <3>4
  <2>7. sh[s].pc = "flush" => h # NoConn  BY Zenon, <2>1 DEF ControlOK
  <2> HIDE DEF h
  <2>8. /\ \A k \in Conns : k # h => place'[k] = place[k]
        /\ h # NoConn => place'[h] = "closed"
    BY <2>1, <2>6, <2>7 DEF h
  <2>9. NoneTaken /\ NoneBack
    <3>1. ASSUME NEW k \in Conns PROVE /\ place[k] = "cluster" => place'[k] = "cluster"
                                       /\ Passed(k) => Passed(k)'
      <4>1. CASE k # h  BY Zenon, <2>8, <4>1 DEF Passed
      <4>2. CASE k = h
        <5>1. h # NoConn  BY <4>2, BrokerAssumption
        <5>2. place'[h] = "closed" /\ Passed(h)  BY Zenon, <2>6, <2>8, <5>1
        <5> QED  BY <4>2, <5>2 DEF Passed
      <4> QED  BY Zenon, <4>1, <4>2
    <3> QED  BY Zenon, <3>1 DEF NoneTaken, NoneBack
  <2>10. ASSUME NEW c \in Clients, ShardOf[c] = s, session'[c] # NoConn
         PROVE  place'[session'[c]] \in {"conns", "queued"}
    <3>1. session'[c] = session[c]  BY Zenon
    <3>2. /\ session[c] \in Conns /\ ClientOf[session[c]] = c
          /\ place[session[c]] \in {"conns", "queued"} \/ session[c] = h
      BY Zenon, <2>5, <2>10, <3>1, KnownSockets DEF h
    <3>3. session[c] # h  BY Zenon, <2>6, <2>10, <3>1, <3>2
    <3> QED  BY Zenon, <2>8, <3>1, <3>2, <3>3
  <2>11. \A c \in Clients : Filed(c)'  BY Zenon DEF LInv, SocketsOwned, Filed
  <2>12. OneInConns'
    <3>1. \A k \in Conns : place'[k] = "conns" => place[k] = "conns"
      <4>1. h \in Conns => h # NoConn  BY BrokerAssumption
      <4> QED  BY <2>8, <4>1
    <3> QED  BY Zenon, <3>1 DEF LInv, SocketsOwned, OneInConns
  <2>13. ShardOwns(s)'  BY Zenon, <2>3, <2>4, <2>9, <1>SocketsKept
  <2>14. HeldOK(s)'  BY Zenon, <2>3, <2>4, <2>5 DEF HeldOK
  <2>15. \A k \in Conns : Shard(k) # s /\ place[k] \in {"conns", "queued"} =>
            place'[k] \in {"conns", "queued"}
    <3>1. ASSUME NEW k \in Conns, Shard(k) # s  PROVE place'[k] = place[k]
      <4>1. k # h
        <5>1. k # NoConn  BY BrokerAssumption
        <5> QED  BY Zenon, <2>6, <3>1, <5>1
      <4> QED  BY Zenon, <2>8, <4>1
    <3> QED  BY Zenon, <3>1
  <2>16. \A t \in Shards : t # s => sq'[t] = sq[t]  BY Zenon
  <2>17. cl'.batch = cl.batch /\ \A c \in Clients : ShardOf[c] # s => session'[c] = session[c]
    BY Zenon
  <2> QED  BY Zenon, <2>2, <2>9, <2>10, <2>11, <2>12, <2>13, <2>14, <2>15, <2>16, <2>17, <1>ShardOwned

(* The flusher drops a socket whose session is no longer filed.            *)
<1>FlushConnectionOwned. ASSUME IInv, LInv, NEW s \in Shards, FlushConnection(s)
                         PROVE  LInv'
  <2> USE <1>FlushConnectionOwned
  <2>1. sh[s].pc = "flush" /\ session' = session /\ sq' = sq /\ cq' = cq /\ cl' = cl
    BY Zenon DEF FlushConnection, At
  <2>2. \/ Resume(s) /\ place' = [place EXCEPT ![sh[s].held] = "closed"]
        \/ sh' = sh /\ place' = place
    BY Zenon DEF FlushConnection
  <2>3. CASE Resume(s) /\ place' = [place EXCEPT ![sh[s].held] = "closed"]
    BY Zenon, <2>1, <2>3, <1>ResumesOwned
  <2>4. CASE sh' = sh /\ place' = place  BY Zenon, <2>1, <2>4, <1>PlaceKept, <1>QuietOwned
  <2> QED  BY Zenon, <2>2, <2>3, <2>4

(* handle_flush_connection takes a socket from its session, not from the   *)
(* session of another socket: whatever is filed under the client goes.     *)
<1>FlushesOwned. ASSUME IInv, LInv, NEW s \in Shards, NEW k \in Conns, Shard(k) = s, Passed(k),
                        sh[s].held \in {k, NoConn}, sh[s].pc # "close", NEW ret, NEW b,
                        b = sh[s].batch \/ (sh[s].batch # <<>> /\ b = Tail(sh[s].batch)),
                        StartFlush(s, k, ret, b), sq' = sq, cq' = cq, cl' = cl
                 PROVE  LInv'
  <2> USE <1>FlushesOwned
  <2> DEFINE r == [sh[s] EXCEPT !.pc = "flush", !.held = k, !.ret = ret, !.batch = b]
  <2>1. /\ sh[s] \in ShardStates /\ ShardOwns(s) /\ HeldOK(s)
        /\ place \in [Conns -> Places] /\ session \in [Clients -> Conns \cup {NoConn}]
        /\ sh[s].new \in Conns \cup {NoConn} /\ sh[s].batch \in Seq(Requests)
        /\ sq[s] \in Seq(Requests)
    BY Zenon, Known DEF LInv, SocketsOwned
  <2>2. sh' = [sh EXCEPT ![s] = r]  BY Zenon, Known DEF StartFlush
  <2>3. /\ r.pc = "flush" /\ r.batch = b /\ r.new = sh[s].new /\ r.held = k
    BY <2>1 DEF ShardStates
  <2> HIDE DEF r
  <2>4. sh'[s] = r  BY Zenon, <2>2, Known
  <2>5. ClientOf[k] \in Clients /\ ShardOf[ClientOf[k]] = s /\ k # NoConn
    BY BrokerAssumption DEF Shard
  <2>6. session' = [session EXCEPT ![ClientOf[k]] = NoConn] /\ place' = [place EXCEPT ![k] = "held"]
    BY Zenon DEF StartFlush, DropSession
  <2>7. /\ session'[ClientOf[k]] = NoConn
        /\ \A c \in Clients : c # ClientOf[k] => session'[c] = session[c]
        /\ place'[k] = "held" /\ \A j \in Conns : j # k => place'[j] = place[j]
    BY Zenon, <2>1, <2>5, <2>6
  <2>8. NoneTaken /\ NoneBack
    BY <2>7 DEF NoneTaken, NoneBack, Passed
  <2>9. ASSUME NEW c \in Clients, ShardOf[c] = s, session'[c] # NoConn
        PROVE  place'[session'[c]] \in {"conns", "queued"}
    <3>1. c # ClientOf[k] /\ session'[c] = session[c]  BY Zenon, <2>7, <2>9
    <3>2. /\ session[c] \in Conns /\ ClientOf[session[c]] = c
          /\ place[session[c]] \in {"conns", "queued"} \/ session[c] = sh[s].held
      BY Zenon, <2>9, <3>1, KnownSockets
    <3>3. session[c] # k /\ session[c] # NoConn  BY Zenon, <2>9, <3>1, <3>2
    <3> QED  BY Zenon, <2>7, <3>1, <3>2, <3>3
  <2>10. \A c \in Clients : Filed(c)'  BY Zenon, <2>7 DEF LInv, SocketsOwned, Filed
  <2>11. OneInConns'
    <3>1. \A j \in Conns : place'[j] = "conns" => place[j] = "conns"  BY <2>7
    <3> QED  BY Zenon, <3>1 DEF LInv, SocketsOwned, OneInConns
  <2>12. ShardOwns(s)'
    <3>1. PassedIn(sq[s])'  BY Zenon, <2>1, <2>8, <1>PassedKept DEF ShardOwns
    <3>2. PassedIn(b) /\ b \in Seq(Requests)
      <4>1. CASE b = sh[s].batch  BY Zenon, <2>1, <4>1 DEF ShardOwns
      <4>2. CASE sh[s].batch # <<>> /\ b = Tail(sh[s].batch)
        <5>1. /\ b \in Seq(Requests)
              /\ \A i \in 1 .. Len(b) : i + 1 \in 1 .. Len(sh[s].batch) /\ b[i] = sh[s].batch[i + 1]
          BY <2>1, <4>2, TailOfBatch
        <5>2. PassedIn(sh[s].batch)  BY Zenon, <2>1 DEF ShardOwns
        <5> QED  BY Zenon, <5>1, <5>2 DEF PassedIn
      <4> QED  BY Zenon, <4>1, <4>2
    <3>3. PassedIn(sh[s].batch)'  BY Zenon, <2>3, <2>4, <2>8, <3>2, <1>PassedKept
    <3>4. sh'[s].new # NoConn => Passed(sh[s].new)'
      BY Zenon, <2>1, <2>3, <2>4, <2>8 DEF ShardOwns, NoneBack, Passed
    <3>5. Passed(sh[s].held)'
      <4>1. sh'[s].held = k  BY Zenon, <2>3, <2>4
      <4>2. place'[sh'[s].held] = "held"  BY Zenon, <2>7, <4>1
      <4> QED  BY <4>2 DEF Passed
    <3> QED  BY Zenon, <3>1, <3>3, <3>4, <3>5 DEF ShardOwns
  <2>13. HeldOK(s)'  BY <2>3, <2>4 DEF HeldOK
  <2>14. \A j \in Conns : Shard(j) # s /\ place[j] \in {"conns", "queued"} =>
            place'[j] \in {"conns", "queued"}
    BY Zenon, <2>7
  <2>15. \A c \in Clients : ShardOf[c] # s => session'[c] = session[c]  BY Zenon, <2>5, <2>7
  <2>16. (\A t \in Shards : t # s => sq'[t] = sq[t]) /\ cl'.batch = cl.batch  BY Zenon
  <2> QED  BY Zenon, <2>2, <2>8, <2>9, <2>10, <2>11, <2>12, <2>13, <2>14, <2>15, <2>16, <1>ShardOwned

(* A FlushConnection request names a socket that has passed the cluster.   *)
<1>FlushRequestOwned. ASSUME IInv, LInv, NEW s \in Shards, FlushRequest(s)
                      PROVE  LInv'
  <2> USE <1>FlushRequestOwned
  <2>1. /\ sh[s].pc = "drain" /\ sh[s].batch # <<>> /\ Head(sh[s].batch).type = "flush"
        /\ sh[s].batch \in Seq(Requests) /\ QueuesOK(s) /\ HeldOK(s) /\ ShardOwns(s)
    BY Zenon, Known DEF FlushRequest, At, LInv, SocketsOwned
  <2> DEFINE k == Head(sh[s].batch).conn
  <2>2. Ours(s, Head(sh[s].batch))  BY Zenon, <2>1, AllOursTail DEF QueuesOK
  <2>3. k \in Conns /\ Shard(k) = s  BY Zenon, <2>1, <2>2 DEF Ours
  <2>4. Passed(k)
    <3>1. Head(sh[s].batch) = sh[s].batch[1] /\ 1 \in 1 .. Len(sh[s].batch)
      BY <2>1, TailOfBatch
    <3>2. k # NoConn  BY <2>3, BrokerAssumption
    <3> QED  BY Zenon, <2>1, <3>1, <3>2 DEF ShardOwns, PassedIn
  <2>5. sh[s].held = NoConn /\ sh[s].pc # "close"  BY <2>1 DEF HeldOK
  <2>6. StartFlush(s, k, "drain", Tail(sh[s].batch)) /\ sq' = sq /\ cq' = cq /\ cl' = cl
    BY Zenon DEF FlushRequest
  <2> HIDE DEF k
  <2> QED  BY Zenon, <2>1, <2>3, <2>4, <2>5, <2>6, <1>FlushesOwned

(* The answer to RemoveConnection leads to a flush, or to nothing.         *)
<1>RemovedOwned. ASSUME IInv, LInv, NEW s \in Shards, Removed(s)
                 PROVE  LInv'
  <2> USE <1>RemovedOwned
  <2>1. /\ sh[s].pc = "removed" /\ sq' = sq /\ cq' = cq /\ cl' = cl
        /\ sh[s].held \in Conns \cup {NoConn} /\ ShardOwns(s)
    BY Zenon, Known DEF Removed, At, LInv, SocketsOwned
  <2>2. CASE sh[s].held = NoConn
    <3>1. Resume(s) /\ place' = place /\ session' = session  BY <2>2 DEF Removed
    <3> QED  BY Zenon, <2>1, <2>2, <3>1, <1>ResumesOwned
  <2>3. CASE sh[s].held # NoConn
    <3>1. \/ StartFlush(s, sh[s].held, sh[s].ret, sh[s].batch)
          \/ sh' = sh /\ place' = place /\ session' = session
      BY <2>3 DEF Removed
    <3>2. CASE StartFlush(s, sh[s].held, sh[s].ret, sh[s].batch)
      <4>1. sh[s].held \in Conns /\ Shard(sh[s].held) = s  BY Zenon, <2>3, KnownSockets
      <4>2. Passed(sh[s].held) /\ sh[s].pc # "close"  BY <2>1, <2>3 DEF ShardOwns
      <4> QED  BY Zenon, <2>1, <3>2, <4>1, <4>2, <1>FlushesOwned
    <3>3. CASE sh' = sh /\ place' = place /\ session' = session
      BY Zenon, <2>1, <3>3, <1>PlaceKept, <1>QuietOwned
    <3> QED  BY Zenon, <3>1, <3>2, <3>3
  <2> QED  BY Zenon, <2>2, <2>3

(* handle_add_session: the request is answered for a socket that has       *)
(* passed, and the old session of the client is dropped.                   *)
<1>AddSessionOwned. ASSUME IInv, LInv, NEW s \in Shards, AddSession(s)
                    PROVE  LInv'
  <2> USE <1>AddSessionOwned
  <2>1. /\ sh[s].pc = "drain" /\ sh[s].batch # <<>> /\ Head(sh[s].batch).type = "add"
        /\ sh[s] \in ShardStates /\ sh[s].batch \in Seq(Requests) /\ QueuesOK(s)
        /\ ShardOwns(s) /\ HeldOK(s) /\ sq[s] \in Seq(Requests)
    BY Zenon, Known DEF AddSession, At, LInv, SocketsOwned
  <2>2. Ours(s, Head(sh[s].batch))  BY Zenon, <2>1, AllOursTail DEF QueuesOK
  <2>3. PICK k \in Conns : k = Head(sh[s].batch).conn  BY Zenon, <2>1, <2>2 DEF Ours
  <2>4. Shard(k) = s  BY <2>1, <2>2, <2>3 DEF Ours
  <2>5. ClientOf[k] \in Clients /\ ShardOf[ClientOf[k]] = s /\ k # NoConn
    BY <2>4, BrokerAssumption DEF Shard
  <2>6. place' = place /\ sq' = sq /\ cq' = cq /\ cl' = cl  BY Zenon DEF AddSession
  <2>7. NoneTaken /\ NoneBack /\ NoneLost  BY Zenon, <2>6, <1>PlaceKept
  <2>8. CASE ~PeerAddr(k)
    <3>1. sh' = sh /\ session' = session  BY <2>3, <2>8 DEF AddSession
    <3> QED  BY Zenon, <2>6, <2>7, <3>1, <1>QuietOwned
  <2>9. CASE PeerAddr(k)
    <3>1. PICK pc, rm, ret :
            /\ sh' = [sh EXCEPT ![s].batch = Tail(@), ![s].new = k, ![s].pc = pc,
                                ![s].rm = rm, ![s].ret = ret]
            /\ pc \in {"add", "remove"}
      BY <2>3, <2>9 DEF AddSession
    <3>2. session' = [session EXCEPT ![ClientOf[k]] = NoConn]
      BY Zenon, <2>3, <2>9 DEF AddSession, DropSession
    <3> DEFINE r == [sh[s] EXCEPT !.batch = Tail(@), !.new = k, !.pc = pc, !.rm = rm,
                                  !.ret = ret]
    <3>3. sh' = [sh EXCEPT ![s] = r]  BY <3>1, Zenon, Known
    <3>4. /\ r.pc = pc /\ r.batch = Tail(sh[s].batch) /\ r.new = k /\ r.held = sh[s].held
      BY <2>1 DEF ShardStates
    <3> HIDE DEF r
    <3>5. sh'[s] = r  BY Zenon, <3>3, Known
    <3>6. /\ session'[ClientOf[k]] = NoConn
          /\ \A c \in Clients : c # ClientOf[k] => session'[c] = session[c]
      BY Zenon, <2>5, <3>2, Known
    <3>7. sh[s].held = NoConn /\ sh[s].pc # "close" /\ r.held = NoConn
      BY <2>1, <3>4 DEF HeldOK
    <3>8. ASSUME NEW c \in Clients, ShardOf[c] = s, session'[c] # NoConn
          PROVE  place'[session'[c]] \in {"conns", "queued"}
      <4>1. session'[c] = session[c]  BY Zenon, <3>6, <3>8
      <4> QED  BY Zenon, <2>6, <3>7, <3>8, <4>1, KnownSockets
    <3>9. \A c \in Clients : Filed(c)'  BY Zenon, <3>6 DEF LInv, SocketsOwned, Filed
    <3>10. OneInConns'  BY Zenon, <2>6 DEF LInv, SocketsOwned, OneInConns
    <3>11. ShardOwns(s)'
      <4> DEFINE b == Tail(sh[s].batch)
      <4>1. /\ b \in Seq(Requests) /\ Head(sh[s].batch) = sh[s].batch[1]
            /\ 1 \in 1 .. Len(sh[s].batch)
            /\ \A i \in 1 .. Len(b) : i + 1 \in 1 .. Len(sh[s].batch) /\ b[i] = sh[s].batch[i + 1]
        BY <2>1, TailOfBatch
      <4>2. PassedIn(sh[s].batch)  BY Zenon, <2>1 DEF ShardOwns
      <4>3. PassedIn(b)  BY Zenon, <4>1, <4>2 DEF PassedIn
      <4>4. Passed(k)  BY Zenon, <2>3, <2>5, <4>1, <4>2 DEF PassedIn
      <4> HIDE DEF b
      <4>5. PassedIn(sh[s].batch)'
        BY Zenon, <2>7, <3>4, <3>5, <4>1, <4>3, <1>PassedKept DEF b
      <4>6. PassedIn(sq[s])'  BY Zenon, <2>1, <2>6, <2>7, <1>PassedKept DEF ShardOwns
      <4>7. Passed(k)'  BY Zenon, <2>7, <4>4 DEF NoneBack
      <4>8. Passed(sh[s].new)'  BY Zenon, <3>4, <3>5, <4>7 DEF Passed
      <4>9. sh'[s].held = NoConn  BY Zenon, <3>5, <3>7
      <4> QED  BY Zenon, <4>5, <4>6, <4>8, <4>9 DEF ShardOwns
    <3>12. HeldOK(s)'  BY <3>1, <3>4, <3>5, <3>7 DEF HeldOK
    <3>13. \A c \in Clients : ShardOf[c] # s => session'[c] = session[c]  BY Zenon, <2>5, <3>6
    <3>14. \A j \in Conns : Shard(j) # s /\ place[j] \in {"conns", "queued"} =>
              place'[j] \in {"conns", "queued"}
      BY Zenon, <2>6
    <3>15. (\A t \in Shards : t # s => sq'[t] = sq[t]) /\ cl'.batch = cl.batch  BY Zenon, <2>6
    <3> QED  BY Zenon, <2>6, <2>7, <3>3, <3>8, <3>9, <3>10, <3>11, <3>12, <3>13, <3>14, <3>15,
                <1>ShardOwned
  <2> QED  BY <2>8, <2>9

(* conns.insert drops a socket of the client, and no session is filed with *)
(* it.                                                                     *)
<1>AddConnectionOwned. ASSUME IInv, LInv, NEW s \in Shards, AddConnection(s)
                       PROVE  LInv'
  <2> USE <1>AddConnectionOwned
  <2>1. /\ sh[s].pc = "add" /\ sh[s] \in ShardStates /\ ControlOK(s)
        /\ ShardOwns(s) /\ HeldOK(s)
    BY Zenon, Known DEF AddConnection, LInv, SocketsOwned
  <2>2. PICK k \in Conns : k = sh[s].new
    BY Zenon, <2>1, Known DEF ControlOK, InAdd
  <2>3. k # NoConn /\ Shard(k) = s /\ session[ClientOf[k]] = NoConn
    BY Zenon, <2>1, <2>2, BrokerAssumption DEF ControlOK
  <2>4. session' = session /\ sq' = sq /\ cq' = cq /\ cl' = cl  BY DEF AddConnection
  <2>5. CASE ~PeerAddr(k)
    <3>1. sh' = sh /\ place' = place  BY <2>2, <2>5 DEF AddConnection
    <3> QED  BY Zenon, <2>4, <3>1, <1>PlaceKept, <1>QuietOwned
  <2>6. CASE PeerAddr(k)
    <3> DEFINE r == [sh[s] EXCEPT !.pc = "insert"]
               ks == InConns(ClientOf[k])
    <3>1. sh' = [sh EXCEPT ![s].pc = "insert"]  BY <2>2, <2>6 DEF AddConnection
    <3>2. place' = [Dropped(ks) EXCEPT ![k] = "conns"]  BY <2>2, <2>6 DEF AddConnection
    <3>3. sh' = [sh EXCEPT ![s] = r]  BY <3>1, Zenon, Known
    <3>4. /\ r.pc = "insert" /\ r.batch = sh[s].batch /\ r.new = k /\ r.held = sh[s].held
      BY <2>1, <2>2 DEF ShardStates
    <3> HIDE DEF r
    <3>5. sh'[s] = r  BY Zenon, <3>3, Known
    <3>6. sh[s].held = NoConn /\ sh[s].pc # "close" /\ Passed(k)
      BY <2>1, <2>2, <2>3 DEF HeldOK, ShardOwns
    <3>7. /\ place'[k] = "conns"
          /\ \A j \in Conns : j # k /\ j \in ks => place'[j] = "closed"
          /\ \A j \in Conns : j # k /\ j \notin ks => place'[j] = place[j]
      <4> HIDE DEF ks
      <4> QED  BY <3>2 DEF Dropped
    <3>8. \A j \in Conns : j \in ks <=> ClientOf[j] = ClientOf[k] /\ place[j] = "conns"
      BY Zenon DEF InConns
    <3> HIDE DEF ks
    <3>9. NoneTaken /\ NoneBack
      BY <3>6, <3>7, <3>8 DEF NoneTaken, NoneBack, Passed
    <3>10. ASSUME NEW c \in Clients, ShardOf[c] = s, session'[c] # NoConn
           PROVE  place'[session'[c]] \in {"conns", "queued"}
      <4>1. session'[c] = session[c] /\ c # ClientOf[k]  BY Zenon, <2>3, <2>4, <3>10
      <4>2. /\ session[c] \in Conns /\ ClientOf[session[c]] = c
            /\ place[session[c]] \in {"conns", "queued"}
        BY Zenon, <3>6, <3>10, <4>1, KnownSockets
      <4>3. session[c] # k /\ session[c] \notin ks  BY Zenon, <3>8, <4>1, <4>2
      <4> QED  BY Zenon, <3>7, <4>1, <4>2, <4>3
    <3>11. \A c \in Clients : Filed(c)'  BY Zenon, <2>4 DEF LInv, SocketsOwned, Filed
    <3>12. OneInConns'
      <4>1. ASSUME NEW i \in Conns, NEW j \in Conns, ClientOf[i] = ClientOf[j],
                   place'[i] = "conns", place'[j] = "conns"
            PROVE  i = j
        <5>1. \A x \in Conns : x # k /\ place'[x] = "conns" =>
                 place[x] = "conns" /\ ClientOf[x] # ClientOf[k]
          BY <3>7, <3>8
        <5> QED  BY Zenon, <4>1, <5>1 DEF LInv, SocketsOwned, OneInConns
      <4> QED  BY Zenon, <4>1 DEF OneInConns
    <3>13. ShardOwns(s)'  BY Zenon, <2>2, <2>4, <3>4, <3>5, <3>9, <1>SocketsKept
    <3>14. HeldOK(s)'
      <4>1. sh'[s].held = NoConn /\ place'[sh'[s].new] = "conns"  BY Zenon, <3>4, <3>5, <3>6, <3>7
      <4> QED  BY <4>1 DEF HeldOK
    <3>15. \A j \in Conns : Shard(j) # s /\ place[j] \in {"conns", "queued"} =>
              place'[j] \in {"conns", "queued"}
      <4>1. \A j \in Conns : Shard(j) # s => j # k /\ j \notin ks
        BY Zenon, <2>3, <3>8 DEF Shard
      <4> QED  BY Zenon, <3>7, <4>1
    <3>16. (\A t \in Shards : t # s => sq'[t] = sq[t]) /\ cl'.batch = cl.batch  BY Zenon, <2>4
    <3>17. \A c \in Clients : ShardOf[c] # s => session'[c] = session[c]  BY Zenon, <2>4
    <3> QED  BY Zenon, <2>4, <3>3, <3>9, <3>10, <3>11, <3>12, <3>13, <3>14, <3>15, <3>16, <3>17,
                <1>ShardOwned
  <2> QED  BY <2>5, <2>6

(* The miot thread has at most one socket of a client, so the one it hands *)
(* over is the one it takes out of conns.                                  *)
<1>RemoveConnectionOwned. ASSUME IInv, LInv, NEW s \in Shards, RemoveConnection(s)
                          PROVE  LInv'
  <2> USE <1>RemoveConnectionOwned
  <2>1. /\ sh[s].pc = "remove" /\ sh[s] \in ShardStates /\ ControlOK(s)
        /\ ShardOwns(s) /\ HeldOK(s) /\ OneInConns
    BY Zenon, Known DEF RemoveConnection, LInv, SocketsOwned
  <2>2. session' = session /\ sq' = sq /\ cq' = cq /\ cl' = cl  BY DEF RemoveConnection
  <2> DEFINE ks == InConns(sh[s].rm)
  <2>3. CASE ~(\A k \in ks : PeerAddr(k))
    <3>1. sh' = sh /\ place' = place  BY <2>3 DEF RemoveConnection
    <3> QED  BY Zenon, <2>2, <3>1, <1>PlaceKept, <1>QuietOwned
  <2>4. CASE \A k \in ks : PeerAddr(k)
    <3>1. place' = [k \in Conns |-> IF k \in ks THEN "held" ELSE place[k]]
      BY <2>4 DEF RemoveConnection
    <3>2. PICK h : /\ sh' = [sh EXCEPT ![s].pc = "removed", ![s].held = h]
                   /\ h = IF ks = {} THEN NoConn ELSE CHOOSE k \in ks : TRUE
      BY <2>4 DEF RemoveConnection
    <3>3. h \in ks \/ (ks = {} /\ h = NoConn)  BY <3>2
    <3>4. \A k \in Conns : k \in ks <=> ClientOf[k] = sh[s].rm /\ place[k] = "conns"
      BY Zenon DEF InConns
    <3>5. ks \subseteq Conns  BY Zenon DEF InConns
    <3>6. \A k \in ks : k = h  BY Zenon, <2>1, <3>3, <3>4, <3>5 DEF OneInConns
    <3> DEFINE r == [sh[s] EXCEPT !.pc = "removed", !.held = h]
    <3>7. sh' = [sh EXCEPT ![s] = r]  BY <3>2, Zenon, Known
    <3>8. r.pc = "removed" /\ r.batch = sh[s].batch /\ r.new = sh[s].new /\ r.held = h
      BY <2>1 DEF ShardStates
    <3> HIDE DEF r, ks
    <3>9. sh'[s] = r  BY Zenon, <3>7, Known
    <3>10. /\ \A k \in Conns : k \in ks => place'[k] = "held" /\ place[k] = "conns"
           /\ \A k \in Conns : k \notin ks => place'[k] = place[k]
      BY <3>1, <3>4
    <3>11. NoneTaken /\ NoneBack
      BY <3>10 DEF NoneTaken, NoneBack, Passed
    <3>12. sh[s].held = NoConn /\ sh[s].pc # "close"  BY <2>1 DEF HeldOK
    <3>13. ASSUME NEW c \in Clients, ShardOf[c] = s, session'[c] # NoConn
           PROVE  place'[session'[c]] \in {"conns", "queued"} \/ session'[c] = r.held
      <4>1. session'[c] = session[c]  BY Zenon, <2>2
      <4>2. session[c] \in Conns /\ place[session[c]] \in {"conns", "queued"}
        BY Zenon, <3>12, <3>13, <4>1, KnownSockets
      <4> QED  BY Zenon, <3>6, <3>8, <3>10, <4>1, <4>2
    <3>14. \A c \in Clients : Filed(c)'  BY Zenon, <2>2 DEF LInv, SocketsOwned, Filed
    <3>15. OneInConns'
      <4>1. \A j \in Conns : place'[j] = "conns" => place[j] = "conns"  BY <3>10
      <4> QED  BY Zenon, <2>1, <4>1 DEF OneInConns
    <3>16. ShardOwns(s)'
      <4>1. sq[s] \in Seq(Requests) /\ sh[s].batch \in Seq(Requests)
            /\ sh[s].new \in Conns \cup {NoConn}
        BY Zenon, Known
      <4>2. PassedIn(sq[s])'  BY Zenon, <2>1, <2>2, <3>11, <4>1, <1>PassedKept DEF ShardOwns
      <4>3. PassedIn(sh[s].batch)'
        BY Zenon, <2>1, <3>8, <3>9, <3>11, <4>1, <1>PassedKept DEF ShardOwns
      <4>4. sh'[s].new # NoConn => Passed(sh[s].new)'
        BY Zenon, <2>1, <3>8, <3>9, <3>11, <4>1 DEF ShardOwns, NoneBack, Passed
      <4>5. sh'[s].held # NoConn => Passed(sh[s].held)'
        <5>1. h # NoConn => place'[h] = "held"  BY Zenon, <3>3, <3>5, <3>10
        <5>2. h # NoConn => place'[sh'[s].held] = "held"  BY Zenon, <3>8, <3>9, <5>1
        <5> QED  BY <3>8, <3>9, <5>2 DEF Passed
      <4> QED  BY Zenon, <4>2, <4>3, <4>4, <4>5 DEF ShardOwns
    <3>17. HeldOK(s)'  BY <3>8, <3>9 DEF HeldOK
    <3>18. \A j \in Conns : Shard(j) # s /\ place[j] \in {"conns", "queued"} =>
              place'[j] \in {"conns", "queued"}
      <4>1. ShardOf[sh[s].rm] = s  BY Zenon, <2>1 DEF ControlOK
      <4>2. \A j \in Conns : Shard(j) # s => j \notin ks  BY Zenon, <3>4, <4>1 DEF Shard
      <4> QED  BY Zenon, <3>10, <4>2
    <3>19. (\A t \in Shards : t # s => sq'[t] = sq[t]) /\ cl'.batch = cl.batch  BY Zenon, <2>2
    <3>20. \A c \in Clients : ShardOf[c] # s => session'[c] = session[c]  BY Zenon, <2>2
    <3> QED  BY Zenon, <2>2, <3>7, <3>11, <3>13, <3>14, <3>15, <3>16, <3>17, <3>18, <3>19, <3>20,
                <1>ShardOwned
  <2> QED  BY <2>3, <2>4

(* The miot thread closes and drops the sockets of its shard, which is     *)
(* closing too.                                                            *)
<1>CloseMiotOwned. ASSUME IInv, LInv, NEW s \in Shards, CloseMiot(s)
                   PROVE  LInv'
  <2> USE <1>CloseMiotOwned
  <2>1. /\ sh[s].pc = "close" /\ ShardOwns(s) /\ HeldOK(s) /\ OneInConns
        /\ sh' = sh /\ sq' = sq /\ cq' = cq /\ cl' = cl /\ session' = session
    BY Zenon DEF CloseMiot, LInv, SocketsOwned
  <2> DEFINE ks == {k \in Conns : place[k] = "conns" /\ Shard(k) = s}
  <2>2. place' = place \/ place' = Dropped(ks)  BY Zenon DEF CloseMiot
  <2>3. CASE place' = place  BY Zenon, <2>1, <2>3, <1>PlaceKept, <1>QuietOwned
  <2>4. CASE place' = Dropped(ks)
    <3>1. \A k \in Conns : \/ place'[k] = place[k]
                           \/ place[k] = "conns" /\ Shard(k) = s /\ place'[k] = "closed"
      BY <2>4 DEF Dropped
    <3> HIDE DEF ks
    <3>2. NoneTaken /\ NoneBack  BY <3>1 DEF NoneTaken, NoneBack, Passed
    <3>3. OneInConns'
      <4>1. \A j \in Conns : place'[j] = "conns" => place[j] = "conns"  BY <3>1
      <4> QED  BY Zenon, <2>1, <4>1 DEF OneInConns
    <3>4. \A c \in Clients : Filed(c)'  BY Zenon, <2>1 DEF LInv, SocketsOwned, Filed
    <3>5. sh' = [sh EXCEPT ![s] = sh[s]]  BY <2>1, Known
    <3>6. ShardOwns(s)'  BY Zenon, <2>1, <3>2, <1>SocketsKept
    <3>7. HeldOK(s)'
      <4>1. sh[s].held = NoConn  BY <2>1 DEF HeldOK
      <4> QED  BY <2>1, <4>1 DEF HeldOK
    <3>8. \A j \in Conns : Shard(j) # s /\ place[j] \in {"conns", "queued"} =>
              place'[j] \in {"conns", "queued"}
      BY Zenon, <3>1
    <3> QED  BY Zenon, <2>1, <3>2, <3>3, <3>4, <3>5, <3>6, <3>7, <3>8, <1>ShardOwned
  <2> QED  BY Zenon, <2>2, <2>3, <2>4

(* The shard drops its sessions, and the sockets that its channel brought. *)
<1>ExitShardOwned. ASSUME IInv, LInv, NEW s \in Shards, ExitShard(s)
                   PROVE  LInv'
  <2> USE <1>ExitShardOwned
  <2>1. /\ sh[s] \in ShardStates /\ sh[s].pc = "close" /\ ControlOK(s) /\ QueuesOK(s)
        /\ ShardOwns(s) /\ HeldOK(s) /\ OneInConns
        /\ sq \in [Shards -> Seq(Requests)] /\ sq[s] \in Seq(Requests)
        /\ sh[s].batch \in Seq(Requests)
    BY Zenon, Known DEF ExitShard, At, LInv, SocketsOwned
  <2>2. /\ cq' = cq /\ cl' = cl
        /\ session' = [c \in Clients |-> IF ShardOf[c] = s THEN NoConn ELSE session[c]]
    BY Zenon DEF ExitShard
  <2>3. /\ \A c \in Clients : ShardOf[c] = s => session'[c] = NoConn
        /\ \A c \in Clients : ShardOf[c] # s => session'[c] = session[c]
    BY <2>2
  <2>4. \A c \in Clients : Filed(c)'  BY Zenon, <2>3 DEF LInv, SocketsOwned, Filed
  <2>5. sh[s].held = NoConn  BY <2>1 DEF HeldOK
  <2>6. CASE sh[s].batch # <<>>
    <3>1. sh' = sh /\ sq' = sq /\ place' = place  BY Zenon, <2>6 DEF ExitShard
    <3>2. NoneTaken /\ NoneBack  BY Zenon, <3>1, <1>PlaceKept
    <3>3. sh' = [sh EXCEPT ![s] = sh[s]]  BY <3>1, Known
    <3>4. OneInConns'  BY Zenon, <2>1, <3>1 DEF OneInConns
    <3>5. ShardOwns(s)'  BY Zenon, <3>1, <3>2, <1>SocketsKept
    <3>6. HeldOK(s)'  BY <2>1, <2>5, <3>1 DEF HeldOK
    <3> QED  BY Zenon, <2>2, <2>3, <2>4, <3>1, <3>2, <3>3, <3>4, <3>5, <3>6, <1>ShardOwned
  <2>7. CASE sh[s].batch = <<>>
    <3> DEFINE r == [sh[s] EXCEPT !.pc = "exited"]
               ks == SocketsIn(sq[s])
    <3>1. sh' = [sh EXCEPT ![s] = r]  BY <2>7, Zenon, Known DEF ExitShard, Goto
    <3>2. /\ r.pc = "exited" /\ r.batch = sh[s].batch /\ r.new = sh[s].new
          /\ r.held = sh[s].held
      BY <2>1 DEF ShardStates
    <3> HIDE DEF r
    <3>3. sh'[s] = r  BY Zenon, <3>1, Known
    <3>4. sq' = [sq EXCEPT ![s] = <<>>] /\ place' = Dropped(ks)  BY Zenon, <2>7 DEF ExitShard
    <3>5. sq'[s] = <<>> /\ \A t \in Shards : t # s => sq'[t] = sq[t]  BY Zenon, <2>1, <3>4
    <3>6. ASSUME NEW k \in ks  PROVE Passed(k) /\ Shard(k) = s
      <4>1. PICK i \in 1 .. Len(sq[s]) : k = sq[s][i].conn /\ k # NoConn
        BY Zenon, <2>1, <3>6, SocketOf
      <4>2. sq[s][i] \in Requests  BY <2>1
      <4>3. sq[s][i].type # "close"  BY <4>1, <4>2 DEF Requests
      <4>4. Ours(s, sq[s][i])  BY Zenon, <2>1, <4>1 DEF QueuesOK, AllOurs
      <4>5. Shard(k) = s  BY Zenon, <4>1, <4>3, <4>4 DEF Ours
      <4>6. Passed(k)  BY Zenon, <2>1, <4>1 DEF ShardOwns, PassedIn
      <4> QED  BY <4>5, <4>6
    <3>7. \A k \in Conns : \/ place'[k] = place[k]
                           \/ k \in ks /\ place'[k] = "closed"
      <4> HIDE DEF ks
      <4> QED  BY <3>4 DEF Dropped
    <3> HIDE DEF ks
    <3>8. NoneTaken /\ NoneBack
      <4>1. ASSUME NEW k \in Conns PROVE /\ place[k] = "cluster" => place'[k] = "cluster"
                                         /\ Passed(k) => Passed(k)'
        <5>1. CASE place'[k] = place[k]  BY <5>1 DEF Passed
        <5>2. CASE k \in ks /\ place'[k] = "closed"  BY <3>6, <5>2 DEF Passed
        <5> QED  BY Zenon, <3>7, <5>1, <5>2
      <4> QED  BY Zenon, <4>1 DEF NoneTaken, NoneBack
    <3>9. OneInConns'
      <4>1. \A j \in Conns : place'[j] = "conns" => place[j] = "conns"  BY <3>7
      <4> QED  BY Zenon, <2>1, <4>1 DEF OneInConns
    <3>10. ShardOwns(s)'
      <4>1. 1 .. Len(<<>>) = {}  BY EmptyQueue
      <4>2. PassedIn(sq[s])'  BY Zenon, <3>5, <4>1 DEF PassedIn
      <4>3. PassedIn(sh[s].batch)'  BY Zenon, <2>7, <3>2, <3>3, <4>1 DEF PassedIn
      <4>4. sh[s].new = NoConn  BY Zenon, <2>1 DEF ControlOK, InAdd
      <4> QED  BY Zenon, <2>5, <3>2, <3>3, <4>2, <4>3, <4>4 DEF ShardOwns
    <3>11. HeldOK(s)'  BY <2>5, <3>2, <3>3 DEF HeldOK
    <3>12. \A j \in Conns : Shard(j) # s /\ place[j] \in {"conns", "queued"} =>
              place'[j] \in {"conns", "queued"}
      BY Zenon, <3>6, <3>7
    <3> QED  BY Zenon, <2>2, <2>3, <2>4, <3>1, <3>5, <3>8, <3>9, <3>10, <3>11, <3>12, <1>ShardOwned
  <2> QED  BY <2>6, <2>7

(* The process aborts.                                                     *)
<1>MiotGoneOwned. ASSUME IInv, LInv, NEW s \in Shards, MiotGone(s)
                  PROVE  LInv'
  <2> USE <1>MiotGoneOwned
  <2>1. /\ sh' = sh /\ sq' = sq /\ cq' = cq /\ cl' = cl /\ session' = session /\ place' = place
    BY DEF MiotGone, sockVars
  <2> QED  BY Zenon, <2>1, <1>PlaceKept, <1>QuietOwned
<1> SUFFICES ASSUME IInv, LInv, [Next]_vars PROVE LInv'  OBVIOUS
<1>1. CASE UNCHANGED vars
  <2>1. sh' = sh /\ sq' = sq /\ cq' = cq /\ cl' = cl /\ session' = session /\ place' = place
    BY <1>1 DEF vars, sockVars
  <2> QED  BY Zenon, <2>1, <1>PlaceKept, <1>QuietOwned
<1>2. ASSUME NEW k \in Conns,
             AcceptConn(k) \/ Handshakes(k) \/ Client(k) \/ Pumps(k) \/ SocketTimeout(k)
      PROVE  LInv'
  BY Zenon, <1>2, <1>QuietStepsOwned, <1>HandOverOwned, <1>MiotStepsOwned DEF Handshakes, Client, Pumps
<1>3. CASE AskClose  BY <1>3, <1>AskCloseOwned
<1>4. CASE ClusterStep
  BY Zenon, <1>4, <1>DrainClusterOwned, <1>HandleAddConnectionOwned, <1>HandleCloseOwned, <1>CloseShardOwned,
     <1>JoinShardOwned, <1>ExitClusterOwned DEF ClusterStep
<1>5. ASSUME NEW s \in Shards, ShardStep(s) PROVE LInv'
  BY Zenon, <1>5, <1>DrainOwned, <1>AddSessionOwned, <1>FlushRequestOwned, <1>RemovedOwned, <1>InsertSessionOwned,
     <1>RoutePacketsOwned, <1>DisconnectNextOwned, <1>CommitAcksOwned, <1>EndIterationOwned,
     <1>CloseRequestOwned, <1>ExitShardOwned, <1>MiotGoneOwned DEF ShardStep
<1>6. ASSUME NEW s \in Shards, MiotServes(s) \/ FlushConnection(s) PROVE LInv'
  BY Zenon, <1>6, <1>AddConnectionOwned, <1>RemoveConnectionOwned, <1>CloseMiotOwned, <1>FlushConnectionOwned
  DEF MiotServes
<1> QED  BY Zenon, <1>1, <1>2, <1>3, <1>4, <1>5, <1>6 DEF Next, Terminated

(* A filed session has its socket in the miot thread, in a                 *)
(* FlushConnection, or in the hands of its shard, unless the shard closes: *)
(* something will still end it (NoSessionLeaks).                           *)
THEOREM NoSessionIsLost == Spec => []NoSessionLeaks
<1>1. LInv => NoSessionLeaks  BY DEF LInv, SocketsOwned
<1> QED  BY <1>1, Invariance, OwnedInitially, OwnedInductive, PTL DEF Spec
=============================================================================

------------------------------ MODULE WireProofs ------------------------------
(***************************************************************************)
(* What the broker writes to its clients, for any clients, connections and *)
(* shards: where the sockets of its requests are and the types of its      *)
(* queues, then the words of a legal dialogue, and then every step of the  *)
(* broker against the count of what a client has sent and what it has      *)
(* been, or will be, answered.                                             *)
(***************************************************************************)
EXTENDS BrokerProofs

(***************************************************************************)
(* A socket that a request names is on its way to the shard, and one that  *)
(* the flusher works on is held for it.                                    *)
(***************************************************************************)
(* The socket x is in no request of q.                                     *)
Absent(x, q) == \A i \in 1 .. Len(q) : q[i].conn # NoConn => q[i].conn # x

(* The sockets of shard t that wait in requests, or at the flusher, stay   *)
(* where they are, but for x.                                              *)
SteadyBut(t, x) ==
  \A k \in Conns : k # x /\ Shard(k) = t /\ place[k] \in {"shard", "queued", "held"} =>
    place'[k] = place[k]

(* The inductive invariant of this part, on top of IInv and LInv.          *)
RInv == \A s \in Shards : RequestsPlaced(s)

(* A request is a Close, or about a socket of the shard.                   *)
LEMMA OurRequest ==
  ASSUME NEW t \in Shards, NEW q \in Seq(Requests), AllOurs(t, q), NEW i \in 1 .. Len(q)
  PROVE  \/ q[i].type = "close" /\ q[i].conn = NoConn
         \/ /\ q[i].type \in {"add", "flush"}
            /\ q[i].conn \in Conns /\ q[i].conn # NoConn /\ Shard(q[i].conn) = t
<1>1. q[i] \in Requests  OBVIOUS
<1>2. Ours(t, q[i])  BY DEF AllOurs
<1>3. \/ q[i].type = "close" /\ q[i].conn = NoConn
      \/ q[i].type \in {"add", "flush"} /\ q[i].conn \in Conns
  BY <1>1 DEF Requests
<1> QED  BY <1>2, <1>3, BrokerAssumption DEF Ours

(* What a step of shard s that only works on packets, or moves on, does to *)
(* sockets and requests.                                                   *)
Worked(s) ==
  /\ place' = place /\ session' = session /\ sq' = sq /\ sh[s].pc # "insert"
  /\ \A t \in Shards : t # s => sh'[t] = sh[t]
  /\ sh'[s].new = sh[s].new /\ sh'[s].held = sh[s].held
  /\ \/ sh'[s].batch = sh[s].batch
     \/ sh[s].batch # <<>> /\ sh'[s].batch = Tail(sh[s].batch)

(* The steps of this kind.                                                 *)
LEMMA WorkSteps ==
  ASSUME IInv, NEW s \in Shards,
         \/ EndIteration(s) \/ CloseRequest(s) \/ RoutePackets(s) \/ CommitAcks(s)
         \/ DisconnectNext(s)
  PROVE  Worked(s)
<1>1. sh[s] \in ShardStates /\ sh \in [Shards -> ShardStates]  BY Zenon, Known
<1>2. place' = place /\ session' = session /\ sq' = sq /\ sh[s].pc # "insert"
  BY DEF EndIteration, CloseRequest, RoutePackets, CommitAcks, DisconnectNext, At, sockVars
<1>4. ASSUME NEW r, sh' = [sh EXCEPT ![s] = r], r.new = sh[s].new, r.held = sh[s].held,
             \/ r.batch = sh[s].batch
             \/ sh[s].batch # <<>> /\ r.batch = Tail(sh[s].batch)
      PROVE  Worked(s)
  <2>1. sh'[s] = r /\ \A t \in Shards : t # s => sh'[t] = sh[t]  BY Zenon, <1>1, <1>4
  <2> QED  BY Zenon, <1>2, <1>4, <2>1 DEF Worked
<1>5. CASE sh' = sh
  <2>1. sh' = [sh EXCEPT ![s] = sh[s]]  BY <1>1, <1>5
  <2> QED  BY Zenon, <1>4, <2>1
<1>6. CASE EndIteration(s)
  <2> DEFINE r == [sh[s] EXCEPT !.pc = "poll"]
  <2>1. sh' = [sh EXCEPT ![s] = r]  BY Zenon, <1>1, <1>6 DEF EndIteration, Goto
  <2>2. r.new = sh[s].new /\ r.held = sh[s].held /\ r.batch = sh[s].batch
    BY <1>1 DEF ShardStates
  <2> HIDE DEF r
  <2> QED  BY Zenon, <1>4, <2>1, <2>2
<1>7. CASE CloseRequest(s)
  <2> DEFINE r == [sh[s] EXCEPT !.pc = "close", !.batch = Tail(@)]
  <2>1. sh[s].batch # <<>> /\ sh' = [sh EXCEPT ![s] = r]  BY Zenon, <1>1, <1>7 DEF CloseRequest
  <2>2. r.new = sh[s].new /\ r.held = sh[s].held /\ r.batch = Tail(sh[s].batch)
    BY <1>1 DEF ShardStates
  <2> HIDE DEF r
  <2> QED  BY Zenon, <1>4, <2>1, <2>2
<1>8. ASSUME NEW pc, NEW todo, NEW acked,
             sh' = [sh EXCEPT ![s].pc = pc, ![s].todo = todo, ![s].acked = acked]
      PROVE  Worked(s)
  <2> DEFINE r == [sh[s] EXCEPT !.pc = pc, !.todo = todo, !.acked = acked]
  <2>1. sh' = [sh EXCEPT ![s] = r]  BY Zenon, <1>1, <1>8
  <2>2. r.new = sh[s].new /\ r.held = sh[s].held /\ r.batch = sh[s].batch
    BY <1>1 DEF ShardStates
  <2> HIDE DEF r
  <2> QED  BY Zenon, <1>4, <2>1, <2>2
<1>9. CASE DisconnectNext(s)
  <2> PICK c \in sh[s].todo : sh' = [sh EXCEPT ![s].todo = @ \ {c}, ![s].rm = c,
                                               ![s].pc = "remove", ![s].ret = sh[s].pc]
    BY Zenon, <1>9 DEF DisconnectNext
  <2> DEFINE r == [sh[s] EXCEPT !.todo = @ \ {c}, !.rm = c, !.pc = "remove", !.ret = sh[s].pc]
  <2>1. sh' = [sh EXCEPT ![s] = r]  BY Zenon, <1>1
  <2>2. r.new = sh[s].new /\ r.held = sh[s].held /\ r.batch = sh[s].batch
    BY <1>1 DEF ShardStates
  <2> HIDE DEF r
  <2> QED  BY Zenon, <1>4, <2>1, <2>2
<1>10. CASE RoutePackets(s) \/ CommitAcks(s)
  <2>1. \/ sh' = sh
        \/ \E pc, todo, acked :
             sh' = [sh EXCEPT ![s].pc = pc, ![s].todo = todo, ![s].acked = acked]
    <3>1. CASE RoutePackets(s)
      <4>1. \/ sh' = sh
            \/ \E todo, acked :
                 sh' = [sh EXCEPT ![s].pc = "failed", ![s].todo = todo, ![s].acked = acked]
        BY Zenon, <3>1 DEF RoutePackets
      <4> QED  BY Zenon, <4>1
    <3>2. CASE CommitAcks(s)
      <4>1. \/ sh' = sh
            \/ \E todo : sh' = [sh EXCEPT ![s].pc = "slow", ![s].todo = todo, ![s].acked = {}]
        BY Zenon, <3>2 DEF CommitAcks
      <4> QED  BY Zenon, <4>1
    <3> QED  BY Zenon, <1>10, <3>1, <3>2
  <2> QED  BY Zenon, <1>5, <1>8, <2>1
<1> QED  BY Zenon, <1>6, <1>7, <1>9, <1>10

(* The effect on shard s of a step, in the parts that matter here.         *)
LEMMA ShardBecomes ==
  ASSUME IInv, NEW s \in Shards
  PROVE  /\ InsertSession(s) => /\ sh'[s].new = NoConn /\ sh'[s].held = sh[s].held
                                /\ sh'[s].batch = sh[s].batch
         /\ Resume(s) => /\ sh'[s].new = sh[s].new /\ sh'[s].held = NoConn
                         /\ sh'[s].batch = sh[s].batch /\ sh'[s].pc = sh[s].ret
         /\ \A k, ret, b : StartFlush(s, k, ret, b) =>
              /\ sh'[s].new = sh[s].new /\ sh'[s].held = k
              /\ sh'[s].batch = b /\ sh'[s].pc = "flush"
         /\ InsertSession(s) \/ Resume(s) \/ (\E k, ret, b : StartFlush(s, k, ret, b)) =>
              \A t \in Shards : t # s => sh'[t] = sh[t]
<1>1. sh[s] \in ShardStates /\ sh \in [Shards -> ShardStates]  BY Zenon, Known
<1>2. ASSUME InsertSession(s)
      PROVE  /\ sh'[s].new = NoConn /\ sh'[s].held = sh[s].held /\ sh'[s].batch = sh[s].batch
             /\ \A t \in Shards : t # s => sh'[t] = sh[t]
  <2> DEFINE r == [sh[s] EXCEPT !.pc = "drain", !.new = NoConn]
  <2>1. sh' = [sh EXCEPT ![s] = r]  BY Zenon, <1>1, <1>2 DEF InsertSession
  <2>2. r.new = NoConn /\ r.held = sh[s].held /\ r.batch = sh[s].batch
    BY <1>1 DEF ShardStates
  <2> HIDE DEF r
  <2> QED  BY Zenon, <1>1, <2>1, <2>2
<1>3. ASSUME Resume(s)
      PROVE  /\ sh'[s].new = sh[s].new /\ sh'[s].held = NoConn
             /\ sh'[s].batch = sh[s].batch /\ sh'[s].pc = sh[s].ret
             /\ \A t \in Shards : t # s => sh'[t] = sh[t]
  <2> DEFINE r == [sh[s] EXCEPT !.pc = sh[s].ret, !.held = NoConn, !.rm = NoClient,
                                !.ret = "poll"]
  <2>1. sh' = [sh EXCEPT ![s] = r]  BY Zenon, <1>1, <1>3 DEF Resume
  <2>2. r.new = sh[s].new /\ r.held = NoConn /\ r.batch = sh[s].batch /\ r.pc = sh[s].ret
    BY <1>1 DEF ShardStates
  <2> HIDE DEF r
  <2> QED  BY Zenon, <1>1, <2>1, <2>2
<1>4. ASSUME NEW k, NEW ret, NEW b, StartFlush(s, k, ret, b)
      PROVE  /\ sh'[s].new = sh[s].new /\ sh'[s].held = k
             /\ sh'[s].batch = b /\ sh'[s].pc = "flush"
             /\ \A t \in Shards : t # s => sh'[t] = sh[t]
  <2> DEFINE r == [sh[s] EXCEPT !.pc = "flush", !.held = k, !.ret = ret, !.batch = b]
  <2>1. sh' = [sh EXCEPT ![s] = r]  BY Zenon, <1>1, <1>4 DEF StartFlush
  <2>2. r.new = sh[s].new /\ r.held = k /\ r.batch = b /\ r.pc = "flush"
    BY <1>1 DEF ShardStates
  <2> HIDE DEF r
  <2> QED  BY Zenon, <1>1, <2>1, <2>2
<1> QED  BY Zenon, <1>2, <1>3, <1>4

(* The effect of an AddSession: a panic, or its connection k is the one    *)
(* that the shard is adding, and the session that k's client had is gone.  *)
LEMMA AddSessionBecomes ==
  ASSUME IInv, NEW s \in Shards, AddSession(s)
  PROVE  \E k \in Conns :
           /\ k = Head(sh[s].batch).conn /\ Shard(k) = s /\ k # NoConn
           /\ \/ sh' = sh /\ session' = session /\ acks' = acks /\ down' = down
              \/ /\ sh'[s].batch = Tail(sh[s].batch) /\ sh'[s].new = k
                 /\ sh'[s].held = sh[s].held
                 /\ \A t \in Shards : t # s => sh'[t] = sh[t]
                 /\ session' = [session EXCEPT ![ClientOf[k]] = NoConn]
                 /\ acks' = [acks EXCEPT ![ClientOf[k]] = 0]
                 /\ down' = [down EXCEPT ![k] = <<"CONNACK">>]
<1>1. /\ sh[s].batch # <<>> /\ Head(sh[s].batch).type = "add"
      /\ sh[s] \in ShardStates /\ sh[s].batch \in Seq(Requests) /\ QueuesOK(s)
  BY Zenon, Known DEF AddSession, At
<1>2. Ours(s, Head(sh[s].batch))  BY Zenon, <1>1, AllOursTail DEF QueuesOK
<1>3. PICK k \in Conns : k = Head(sh[s].batch).conn  BY Zenon, <1>1, <1>2 DEF Ours
<1>4. Shard(k) = s /\ k # NoConn  BY <1>1, <1>2, <1>3, BrokerAssumption DEF Ours
<1>5. CASE ~PeerAddr(k)
  <2>1. sh' = sh /\ session' = session /\ acks' = acks /\ down' = down
    BY Zenon, <1>3, <1>5 DEF AddSession
  <2> QED  BY Zenon, <1>3, <1>4, <2>1
<1>6. CASE PeerAddr(k)
  <2>1. PICK pc, rm, ret :
          sh' = [sh EXCEPT ![s].batch = Tail(@), ![s].new = k, ![s].pc = pc,
                           ![s].rm = rm, ![s].ret = ret]
    <3> DEFINE none == session[ClientOf[k]] = NoConn
    <3>1. sh' = [sh EXCEPT ![s].batch = Tail(@), ![s].new = k,
                           ![s].pc = IF none THEN "add" ELSE "remove",
                           ![s].rm = IF none THEN NoClient ELSE ClientOf[k],
                           ![s].ret = IF none THEN "poll" ELSE "add"]
      BY Zenon, <1>3, <1>6 DEF AddSession
    <3> HIDE DEF none
    <3> QED  BY Zenon, <3>1
  <2>2. /\ session' = [session EXCEPT ![ClientOf[k]] = NoConn]
        /\ acks' = [acks EXCEPT ![ClientOf[k]] = 0]
        /\ down' = [down EXCEPT ![k] = <<"CONNACK">>]
    BY Zenon, <1>3, <1>6 DEF AddSession, DropSession
  <2> DEFINE r == [sh[s] EXCEPT !.batch = Tail(@), !.new = k, !.pc = pc, !.rm = rm,
                                !.ret = ret]
  <2>3. sh' = [sh EXCEPT ![s] = r]  BY <2>1, Zenon, Known
  <2>4. r.batch = Tail(sh[s].batch) /\ r.new = k /\ r.held = sh[s].held
    BY <1>1 DEF ShardStates
  <2> HIDE DEF r
  <2>5. sh'[s] = r /\ \A t \in Shards : t # s => sh'[t] = sh[t]  BY Zenon, <2>3, Known
  <2> QED  BY Zenon, <1>3, <1>4, <2>2, <2>4, <2>5
<1> QED  BY Zenon, <1>5, <1>6

(* A socket with the shard that is being added is in no request.           *)
LEMMA NewIsAbsent ==
  ASSUME IInv, RInv, NEW s \in Shards, sh[s].new # NoConn, sh[s].pc # "insert"
  PROVE  /\ sh[s].new \in Conns /\ Shard(sh[s].new) = s /\ place[sh[s].new] = "shard"
         /\ Absent(sh[s].new, sq[s]) /\ Absent(sh[s].new, sh[s].batch)
<1>1. /\ sq[s] \in Seq(Requests) /\ sh[s].batch \in Seq(Requests) /\ RequestsPlaced(s)
      /\ AllOurs(s, sq[s]) /\ AllOurs(s, sh[s].batch) /\ NoAdd(sq[s]) /\ NoAdd(sh[s].batch)
      /\ sh[s].new \in Conns \cup {NoConn} /\ ControlOK(s)
  BY Zenon, Known DEF RInv, QueuesOK
<1>2. place[sh[s].new] = "shard"  BY Zenon, <1>1 DEF RequestsPlaced
<1>3. sh[s].new \in Conns /\ Shard(sh[s].new) = s  BY Zenon, <1>1 DEF ControlOK
<1>4. ASSUME NEW q \in Seq(Requests), AllOurs(s, q), NoAdd(q), Placed(q)
      PROVE  Absent(sh[s].new, q)
  <2> SUFFICES ASSUME NEW i \in 1 .. Len(q), q[i].conn # NoConn PROVE q[i].conn # sh[s].new
    BY DEF Absent
  <2>1. q[i].type = "flush"  BY Zenon, <1>4, OurRequest DEF NoAdd
  <2>2. place[q[i].conn] = "queued"  BY Zenon, <1>4, <2>1 DEF Placed
  <2> QED  BY <1>2, <2>2
<1> QED  BY Zenon, <1>1, <1>2, <1>3, <1>4 DEF RequestsPlaced

(* Initially there are no requests.                                        *)
LEMMA PlacedInitially == Init => RInv
<1> SUFFICES ASSUME Init, NEW s \in Shards PROVE RequestsPlaced(s)  BY DEF RInv
<1>1. /\ sq[s] = <<>> /\ sh[s].batch = <<>> /\ sh[s].new = NoConn /\ sh[s].held = NoConn
  BY DEF Init
<1>2. 1 .. Len(<<>>) = {}  BY EmptyQueue
<1> QED  BY Zenon, <1>1, <1>2 DEF RequestsPlaced, Placed, Once, Disjoint

(* Every step keeps the requests about sockets that wait in them.          *)
LEMMA PlacedInductive == IInv /\ LInv /\ RInv /\ [Next]_vars => RInv'
(* A socket that is elsewhere is in no request.                            *)
<1>NotRequested. ASSUME NEW t \in Shards, NEW q \in Seq(Requests), AllOurs(t, q), Placed(q),
                        NEW k, place[k] \notin {"shard", "queued"}
                 PROVE  Absent(k, q)
  <2> USE <1>NotRequested
  <2> SUFFICES ASSUME NEW i \in 1 .. Len(q), q[i].conn # NoConn PROVE q[i].conn # k
    BY DEF Absent
  <2>1. q[i].type \in {"add", "flush"}  BY Zenon, OurRequest
  <2>2. place[q[i].conn] \in {"shard", "queued"}  BY <2>1 DEF Placed
  <2> QED  BY <2>2

(* Requests whose sockets stay where they are.                             *)
<1>PlacedKept. ASSUME NEW t \in Shards, NEW q \in Seq(Requests), AllOurs(t, q), Placed(q),
                      NEW x, SteadyBut(t, x), Absent(x, q)
               PROVE  Placed(q)'
  <2> USE <1>PlacedKept
  <2> SUFFICES ASSUME NEW i \in 1 .. Len(q)
               PROVE  /\ q[i].type = "add" => place'[q[i].conn] = "shard"
                      /\ q[i].type = "flush" => place'[q[i].conn] = "queued"
    BY DEF Placed
  <2>1. CASE q[i].type = "close"  BY <2>1
  <2>2. CASE q[i].type # "close"
    <3>1. q[i].conn \in Conns /\ q[i].conn # NoConn /\ Shard(q[i].conn) = t
      BY Zenon, <2>2, OurRequest
    <3>2. q[i].conn # x  BY Zenon, <3>1 DEF Absent
    <3>3. /\ q[i].type = "add" => place[q[i].conn] = "shard"
          /\ q[i].type = "flush" => place[q[i].conn] = "queued"
      BY Zenon DEF Placed
    <3> QED  BY <3>1, <3>2, <3>3 DEF SteadyBut
  <2> QED  BY <2>1, <2>2

(* The rest of a batch.                                                    *)
<1>PlacedTail. ASSUME NEW q \in Seq(Requests), q # <<>>
               PROVE  /\ Placed(q) => Placed(Tail(q))
                      /\ \A x : Absent(x, q) => Absent(x, Tail(q))
  <2> USE <1>PlacedTail
  <2> DEFINE b == Tail(q)
  <2>1. \A i \in 1 .. Len(b) : i + 1 \in 1 .. Len(q) /\ b[i] = q[i + 1]  BY TailOfBatch
  <2> HIDE DEF b
  <2>2. Placed(q) => Placed(b)  BY Zenon, <2>1 DEF Placed
  <2>3. \A x : Absent(x, q) => Absent(x, b)  BY Zenon, <2>1 DEF Absent
  <2> QED  BY <2>2, <2>3 DEF b

(* A step of another thread, or of shard t at a socket that is in none of  *)
(* its requests.                                                           *)
<1>RequestsKept. ASSUME IInv, RInv, NEW t \in Shards, NEW x, SteadyBut(t, x), sq'[t] = sq[t],
                        \/ sh'[t].batch = sh[t].batch
                        \/ sh[t].batch # <<>> /\ sh'[t].batch = Tail(sh[t].batch),
                        Absent(x, sq[t]), Absent(x, sh'[t].batch),
                        \/ sh'[t].new = NoConn
                        \/ sh'[t].pc = "insert"
                        \/ sh'[t].new = sh[t].new /\ sh[t].pc # "insert" /\ sh[t].new # x
                        \/ place'[sh'[t].new] = "shard",
                        \/ sh'[t].held = NoConn
                        \/ sh'[t].held = sh[t].held /\ sh[t].held # x /\ Shard(sh[t].held) = t
                        \/ place'[sh'[t].held] = "held"
                 PROVE  RequestsPlaced(t)'
  <2> USE <1>RequestsKept
  <2>1. /\ sq[t] \in Seq(Requests) /\ sh[t].batch \in Seq(Requests)
        /\ sh[t].new \in Conns \cup {NoConn} /\ sh[t].held \in Conns \cup {NoConn}
        /\ AllOurs(t, sq[t]) /\ AllOurs(t, sh[t].batch) /\ ControlOK(t)
    BY Zenon, Known DEF QueuesOK
  <2>2. RequestsPlaced(t)  BY Zenon DEF RInv
  <2>3. Placed(sq[t])'  BY Zenon, <2>1, <2>2, <1>PlacedKept DEF RequestsPlaced
  <2> DEFINE b == sh'[t].batch
  <2>4. /\ b \in Seq(Requests) /\ AllOurs(t, b) /\ Placed(b) /\ Once(b) /\ Disjoint(sq[t], b)
    <3>1. CASE b = sh[t].batch  BY Zenon, <2>1, <2>2, <3>1 DEF RequestsPlaced
    <3>2. CASE sh[t].batch # <<>> /\ b = Tail(sh[t].batch)
      <4>1. b \in Seq(Requests)  BY <2>1, <3>2
      <4>2. AllOurs(t, b)  BY Zenon, <2>1, <3>2, AllOursTail
      <4>3. Placed(b)  BY Zenon, <2>1, <2>2, <3>2, <1>PlacedTail DEF RequestsPlaced
      <4>4. Once(b) /\ Disjoint(sq[t], b)  BY Zenon, <2>1, <2>2, <3>2, OnceTail DEF RequestsPlaced
      <4> QED  BY <4>1, <4>2, <4>3, <4>4
    <3> QED  BY Zenon, <3>1, <3>2
  <2>5. Placed(sh[t].batch)'
    <3>1. \A q \in Seq(Requests) : AllOurs(t, q) /\ Placed(q) /\ Absent(x, q) => Placed(q)'
      BY Zenon, <1>PlacedKept
    <3> QED  BY Zenon, <2>4, <3>1
  <2>6. Once(sq[t])' /\ Once(sh[t].batch)' /\ Disjoint(sq[t], sh[t].batch)'
    <3>1. Once(sq[t]) /\ sq'[t] = sq[t]  BY Zenon, <2>2 DEF RequestsPlaced
    <3>2. Once(sq[t])'  BY Zenon, <3>1 DEF Once
    <3>3. Once(sh[t].batch)'  BY Zenon, <2>4 DEF Once
    <3>4. Disjoint(sq[t], sh[t].batch)'  BY Zenon, <2>4, <3>1 DEF Disjoint
    <3> QED  BY <3>2, <3>3, <3>4
  <2>7. sh'[t].new # NoConn /\ sh'[t].pc # "insert" => place'[sh'[t].new] = "shard"
    <3>1. CASE sh'[t].new = sh[t].new /\ sh[t].pc # "insert" /\ sh[t].new # x
      <4>1. CASE sh[t].new = NoConn  BY <3>1, <4>1
      <4>2. CASE sh[t].new # NoConn
        <5>1. place[sh[t].new] = "shard"  BY Zenon, <2>2, <3>1, <4>2 DEF RequestsPlaced
        <5>2. sh[t].new \in Conns /\ Shard(sh[t].new) = t  BY Zenon, <2>1, <4>2 DEF ControlOK
        <5> QED  BY <3>1, <5>1, <5>2 DEF SteadyBut
      <4> QED  BY <4>1, <4>2
    <3> QED  BY Zenon, <3>1
  <2>8. sh'[t].held # NoConn => place'[sh'[t].held] = "held"
    <3>1. CASE sh'[t].held = sh[t].held /\ sh[t].held # x /\ Shard(sh[t].held) = t
      <4>1. CASE sh[t].held = NoConn  BY <3>1, <4>1
      <4>2. CASE sh[t].held # NoConn
        <5>1. place[sh[t].held] = "held"  BY Zenon, <2>2, <4>2 DEF RequestsPlaced
        <5>2. sh[t].held \in Conns  BY <2>1, <4>2
        <5> QED  BY <3>1, <5>1, <5>2 DEF SteadyBut
      <4> QED  BY <4>1, <4>2
    <3> QED  BY Zenon, <3>1
  <2> QED  BY Zenon, <2>3, <2>5, <2>6, <2>7, <2>8 DEF RequestsPlaced

(* No request holds NoConn as a socket.                                    *)
<1>NothingAbsent. \A q : Absent(NoConn, q)
  BY DEF Absent

(* Steps that move no socket of a request and no request.                  *)
<1>QuietPlaced. ASSUME IInv, LInv, RInv, NEW t \in Shards, SteadyBut(t, NoConn), sq'[t] = sq[t],
                       \/ sh'[t].batch = sh[t].batch
                       \/ sh[t].batch # <<>> /\ sh'[t].batch = Tail(sh[t].batch),
                       \/ sh'[t].new = NoConn
                       \/ sh'[t].new = sh[t].new /\ sh[t].pc # "insert"
                       \/ sh'[t].pc = "insert",
                       sh'[t].held \in {sh[t].held, NoConn}
                PROVE  RequestsPlaced(t)'
  <2> USE <1>QuietPlaced
  <2>1. Absent(NoConn, sq[t]) /\ Absent(NoConn, sh'[t].batch)  BY Zenon, <1>NothingAbsent
  <2>2. sh[t].held # NoConn => Shard(sh[t].held) = t  BY Zenon, KnownSockets
  <2>3. \/ sh'[t].held = NoConn
        \/ sh'[t].held = sh[t].held /\ sh[t].held # NoConn /\ Shard(sh[t].held) = t
    BY Zenon, <2>2
  <2>4. \/ sh'[t].new = NoConn \/ sh'[t].pc = "insert"
        \/ sh'[t].new = sh[t].new /\ sh[t].pc # "insert" /\ sh[t].new # NoConn
    BY Zenon
  <2> QED  BY Zenon, <2>1, <2>3, <2>4, <1>RequestsKept

(* A shard that no step touches.                                           *)
<1>ShardUntouched. ASSUME IInv, LInv, RInv, NEW t \in Shards, SteadyBut(t, NoConn), sq'[t] = sq[t],
                          sh'[t] = sh[t]
                   PROVE  RequestsPlaced(t)'
  <2> USE <1>ShardUntouched
  <2>1. CASE sh[t].pc = "insert"
    <3>1. sh'[t].pc = "insert"  BY Zenon, <2>1
    <3> QED  BY Zenon, <3>1, <1>QuietPlaced
  <2>2. CASE sh[t].pc # "insert"  BY Zenon, <2>2, <1>QuietPlaced
  <2> QED  BY Zenon, <2>1, <2>2

(* Steps of listener, handshakes, clients and cluster that post nothing to *)
(* a shard; the close of a miot thread, and a panic.                       *)
<1>OutsidePlaced. ASSUME IInv, LInv, RInv, sh' = sh, sq' = sq,
                         \A k \in Conns : place[k] \in {"shard", "queued", "held"} => place'[k] = place[k]
                  PROVE  RInv'
  <2> USE <1>OutsidePlaced
  <2>1. \A t \in Shards : SteadyBut(t, NoConn)  BY Zenon DEF SteadyBut
  <2>2. \A t \in Shards : RequestsPlaced(t)'  BY Zenon, <2>1, <1>ShardUntouched
  <2> QED  BY Zenon, <2>2 DEF RInv

(* A request posted to shard t for a socket that is in no request of it.   *)
<1>PostPlaced. ASSUME IInv, LInv, RInv, NEW t \in Shards, sh' = sh, NEW r \in Requests, NEW x,
                      sq' = [sq EXCEPT ![t] = Append(sq[t], r)],
                      \A k \in Conns : k # x => place'[k] = place[k],
                      x # NoConn => x \in Conns /\ Shard(x) = t /\ place[x] \notin {"shard", "queued", "held"},
                      \/ r.type = "close" /\ r.conn = NoConn
                      \/ r.type = "add" /\ r.conn = x /\ place'[x] = "shard"
                      \/ r.type = "flush" /\ r.conn = x /\ place'[x] = "queued"
               PROVE  RInv'
  <2> USE <1>PostPlaced
  <2>1. /\ sq \in [Shards -> Seq(Requests)] /\ sq[t] \in Seq(Requests)
        /\ sh[t].batch \in Seq(Requests) /\ RequestsPlaced(t)
        /\ AllOurs(t, sq[t]) /\ AllOurs(t, sh[t].batch)
    BY Zenon, Known DEF RInv, QueuesOK
  <2>2. sq'[t] = Append(sq[t], r) /\ \A u \in Shards : u # t => sq'[u] = sq[u]
    BY Zenon, <2>1
  <2>3. \A u \in Shards : SteadyBut(u, NoConn)
    BY DEF SteadyBut
  <2>4. \A u \in Shards : u # t => RequestsPlaced(u)'  BY Zenon, <2>2, <2>3, <1>ShardUntouched
  <2>5. Absent(x, sq[t]) /\ Absent(x, sh[t].batch)
    <3>1. CASE x = NoConn  BY Zenon, <3>1, <1>NothingAbsent
    <3>2. CASE x # NoConn
      <4>1. place[x] \notin {"shard", "queued"}  BY <3>2
      <4> QED  BY Zenon, <2>1, <4>1, <1>NotRequested DEF RequestsPlaced
    <3> QED  BY Zenon, <3>1, <3>2
  <2>6. /\ r.conn # NoConn => \A i \in 1 .. Len(sq[t]) : sq[t][i].conn # r.conn
        /\ r.conn # NoConn => \A i \in 1 .. Len(sh[t].batch) : sh[t].batch[i].conn # r.conn
    BY Zenon, <2>5 DEF Absent
  <2>7. Once(Append(sq[t], r)) /\ Disjoint(Append(sq[t], r), sh[t].batch)
    BY Zenon, <2>1, <2>6, OncePosted DEF RequestsPlaced
  <2>8. Placed(sq[t])'
    <3>1. \A q \in Seq(Requests) : AllOurs(t, q) /\ Placed(q) => Placed(q)'
      BY Zenon, <2>3, <1>NothingAbsent, <1>PlacedKept
    <3> DEFINE p == Append(sq[t], r)
    <3>2. \A i \in 1 .. Len(p) : p[i] = r \/ (i \in 1 .. Len(sq[t]) /\ p[i] = sq[t][i])
      BY Zenon, <2>1, Posted
    <3>3. \A i \in 1 .. Len(sq[t]) : /\ sq[t][i].type = "add" => place'[sq[t][i].conn] = "shard"
                                     /\ sq[t][i].type = "flush" => place'[sq[t][i].conn] = "queued"
      <4>1. ASSUME NEW q \in Seq(Requests), q = sq[t]
            PROVE  \A i \in 1 .. Len(q) : /\ q[i].type = "add" => place'[q[i].conn] = "shard"
                                          /\ q[i].type = "flush" => place'[q[i].conn] = "queued"
        <5>1. Placed(q)'  BY Zenon, <2>1, <3>1, <4>1 DEF RequestsPlaced
        <5> QED  BY Zenon, <5>1 DEF Placed
      <4> QED  BY Zenon, <2>1, <4>1
    <3>4. /\ r.type = "add" => place'[r.conn] = "shard"
          /\ r.type = "flush" => place'[r.conn] = "queued"
      OBVIOUS
    <3>5. \A i \in 1 .. Len(p) : /\ p[i].type = "add" => place'[p[i].conn] = "shard"
                                 /\ p[i].type = "flush" => place'[p[i].conn] = "queued"
      <4> HIDE DEF p
      <4> QED  BY Zenon, <3>2, <3>3, <3>4
    <3>6. sq'[t] = p  BY Zenon, <2>2
    <3> HIDE DEF p
    <3> QED  BY Zenon, <3>5, <3>6 DEF Placed
  <2>9. Placed(sh[t].batch)'
    <3>1. \A q \in Seq(Requests) : AllOurs(t, q) /\ Placed(q) => Placed(q)'
      BY Zenon, <2>3, <1>NothingAbsent, <1>PlacedKept
    <3> QED  BY Zenon, <2>1, <3>1 DEF RequestsPlaced
  <2>10. Once(sq[t])' /\ Once(sh[t].batch)' /\ Disjoint(sq[t], sh[t].batch)'
    <3>1. Once(sq'[t]) /\ Disjoint(sq'[t], sh[t].batch)  BY Zenon, <2>2, <2>7
    <3>2. Once(sq[t])'  BY Zenon, <3>1 DEF Once
    <3>3. Once(sh[t].batch)'  BY Zenon, <2>1 DEF RequestsPlaced, Once
    <3>4. Disjoint(sq'[t], sh'[t].batch)  BY Zenon, <3>1
    <3>5. Disjoint(sq[t], sh[t].batch)'  BY Zenon, <3>4 DEF Disjoint
    <3> QED  BY <3>2, <3>3, <3>5
  <2>11. /\ sh'[t].new # NoConn /\ sh'[t].pc # "insert" => place'[sh'[t].new] = "shard"
         /\ sh'[t].held # NoConn => place'[sh'[t].held] = "held"
    <3>1. sh[t].new \in Conns \cup {NoConn} /\ sh[t].held \in Conns \cup {NoConn}
      BY Zenon, Known
    <3>2. sh[t].new # NoConn /\ sh[t].pc # "insert" => place[sh[t].new] = "shard"
      BY Zenon, <2>1 DEF RequestsPlaced
    <3>3. sh[t].held # NoConn => place[sh[t].held] = "held"  BY Zenon, <2>1 DEF RequestsPlaced
    <3>4. \A k \in Conns : place[k] \in {"shard", "held"} => place'[k] = place[k]
      BY BrokerAssumption
    <3> QED  BY <3>1, <3>2, <3>3, <3>4
  <2>12. RequestsPlaced(t)'  BY Zenon, <2>8, <2>9, <2>10, <2>11 DEF RequestsPlaced
  <2> QED  BY Zenon, <2>4, <2>12 DEF RInv

(* Another shard, when a step of shard s moves only sockets of shard s.    *)
<1>OtherShards. ASSUME IInv, LInv, RInv, NEW s \in Shards, RequestsPlaced(s)',
                       \A t \in Shards : t # s => sh'[t] = sh[t] /\ sq'[t] = sq[t],
                       \A k \in Conns : Shard(k) # s => place'[k] = place[k]
                PROVE  RInv'
  <2> USE <1>OtherShards
  <2>1. ASSUME NEW t \in Shards, t # s PROVE RequestsPlaced(t)'
    <3>1. SteadyBut(t, NoConn)  BY Zenon, <2>1 DEF SteadyBut
    <3> QED  BY Zenon, <2>1, <3>1, <1>ShardUntouched
  <2> QED  BY Zenon, <2>1 DEF RInv

(* Listener, handshakes and clients.                                       *)
<1>ClientPlaced. ASSUME IInv, LInv, RInv, NEW k \in Conns,
                        AcceptConn(k) \/ HandOver(k) \/ HandshakeFails(k) \/ ClientSends(k) \/ ClientEnds(k)
                        \/ SocketReset(k)
                 PROVE  RInv'
  <2> USE <1>ClientPlaced
  <2>1. sh' = sh /\ sq' = sq
    BY DEF AcceptConn, HandOver, HandshakeFails, ClientSends, ClientEnds, SocketReset
  <2>2. \/ place' = place
        \/ place[k] \in {"none", "handshake"} /\ \E p : place' = [place EXCEPT ![k] = p]
    BY DEF AcceptConn, HandOver, HandshakeFails, ClientSends, ClientEnds, SocketReset, sockVars
  <2>3. \A j \in Conns : place[j] \in {"shard", "queued", "held"} => place'[j] = place[j]
    BY <2>2 DEF IInv, ControlTypeOK
  <2> QED  BY Zenon, <2>1, <2>3, <1>OutsidePlaced

(* The miot thread reads, writes, or gives up a socket, which was in conns *)
(* and so in no request.                                                   *)
<1>MiotPlaced. ASSUME IInv, LInv, RInv, NEW k \in Conns,
                      SocketToSession(k) \/ SocketFin(k) \/ SocketTimeout(k) \/ SessionToSocket(k)
               PROVE  RInv'
  <2> USE <1>MiotPlaced
  <2>1. sh' = sh /\ place[k] = "conns"
    BY DEF SocketToSession, SocketFin, SocketTimeout, SessionToSocket, Serving
  <2>2. (place' = place /\ sq' = sq) \/ FailConnection(k)
    BY Zenon DEF SocketToSession, SocketFin, SocketTimeout, SessionToSocket
  <2>3. CASE place' = place /\ sq' = sq
    <3>1. \A j \in Conns : place[j] \in {"shard", "queued", "held"} => place'[j] = place[j]
      BY Zenon, <2>3
    <3> QED  BY Zenon, <2>1, <2>3, <3>1, <1>OutsidePlaced
  <2>4. CASE FailConnection(k)
    <3>1. Shard(k) \in Shards /\ k # NoConn  BY BrokerAssumption DEF Shard
    <3>2. place \in [Conns -> Places] /\ sq \in [Shards -> Seq(Requests)]
      BY Zenon, <3>1, Known
    <3>3. sq' = [sq EXCEPT ![Shard(k)] = Append(sq[Shard(k)], Flush(k))]
      BY Zenon, <2>4 DEF FailConnection
    <3>4. place'[k] = "queued" /\ \A j \in Conns : j # k => place'[j] = place[j]
      BY Zenon, <2>4, <3>2 DEF FailConnection
    <3>5. Flush(k) \in Requests /\ Flush(k).type = "flush" /\ Flush(k).conn = k
      BY Zenon, MadeRequests
    <3>6. place[k] \notin {"shard", "queued", "held"}  BY <2>1
    <3> QED  BY Zenon, <2>1, <3>1, <3>3, <3>4, <3>5, <3>6, <1>PostPlaced
  <2> QED  BY Zenon, <2>2, <2>3, <2>4

(* The cluster: the sockets it drops and those it hands to shards were     *)
(* waiting for it.                                                         *)
<1>ClusterPlaced. ASSUME IInv, LInv, RInv, AskClose \/ ClusterStep
                  PROVE  RInv'
  <2> USE <1>ClusterPlaced
  <2>1. /\ cq \in Seq(Requests) /\ cl.batch \in Seq(Requests) /\ place \in [Conns -> Places]
        /\ sq \in [Shards -> Seq(Requests)] /\ cl \in ClusterStates
    BY DEF IInv, ControlTypeOK, ClusterStates
  <2>2. CASE AskClose \/ DrainCluster \/ HandleClose \/ JoinShard
    <3>1. sh' = sh /\ sq' = sq /\ place' = place
      BY <2>2 DEF AskClose, DrainCluster, HandleClose, JoinShard, sockVars
    <3>2. \A j \in Conns : place[j] \in {"shard", "queued", "held"} => place'[j] = place[j]
      BY Zenon, <3>1
    <3> QED  BY Zenon, <3>1, <3>2, <1>OutsidePlaced
  <2>3. CASE ExitCluster
    <3> DEFINE ks == SocketsIn(cl.batch) \cup SocketsIn(cq)
    <3>1. sh' = sh /\ sq' = sq /\ place' = Dropped(ks)  BY Zenon, <2>3 DEF ExitCluster
    <3>2. \A k \in ks : place[k] = "cluster"
      <4>1. Waiting(cl.batch) /\ Waiting(cq)  BY Zenon DEF LInv, SocketsOwned, ClusterOwns
      <4>2. ASSUME NEW q \in Seq(Requests), Waiting(q), NEW k \in SocketsIn(q)
            PROVE  place[k] = "cluster"
        <5>1. PICK i \in 1 .. Len(q) : k = q[i].conn /\ k # NoConn  BY Zenon, <4>2, SocketOf
        <5> QED  BY Zenon, <4>2, <5>1 DEF Waiting
      <4> QED  BY Zenon, <2>1, <4>1, <4>2
    <3> HIDE DEF ks
    <3>3. \A j \in Conns : place[j] \in {"shard", "queued", "held"} => place'[j] = place[j]
      BY <3>1, <3>2 DEF Dropped
    <3> QED  BY Zenon, <3>1, <3>3, <1>OutsidePlaced
  <2>4. CASE CloseShard
    <3>1. PICK s \in cl.left : sq' = [sq EXCEPT ![s] = Append(sq[s], Close)]
      BY Zenon, <2>4 DEF CloseShard
    <3>2. s \in Shards  BY <2>1 DEF ClusterStates
    <3>3. sh' = sh /\ place' = place  BY <2>4 DEF CloseShard, sockVars
    <3>4. Close \in Requests /\ Close.type = "close" /\ Close.conn = NoConn
      BY DEF Close, Requests
    <3>5. \A k \in Conns : k # NoConn => place'[k] = place[k]  BY Zenon, <3>3
    <3> QED  BY Zenon, <3>1, <3>2, <3>3, <3>4, <3>5, <1>PostPlaced
  <2>5. CASE HandleAddConnection
    <3> DEFINE k == Head(cl.batch).conn
    <3>1. /\ cl.batch # <<>> /\ Head(cl.batch).type = "add" /\ sh' = sh
      BY <2>5 DEF HandleAddConnection, Handling
    <3>2. \/ place' = place /\ sq' = sq
          \/ /\ place' = [place EXCEPT ![k] = "shard"]
             /\ sq' = [sq EXCEPT ![Shard(k)] = Append(sq[Shard(k)], Add(k))]
      BY Zenon, <2>5 DEF HandleAddConnection
    <3>3. /\ Head(cl.batch) = cl.batch[1] /\ 1 \in 1 .. Len(cl.batch) /\ Head(cl.batch) \in Requests
      BY Zenon, <2>1, <3>1, TailOfBatch
    <3>4. k \in Conns /\ k # NoConn  BY <3>1, <3>3, BrokerAssumption DEF Requests
    <3>5. place[k] = "cluster"
      BY Zenon, <3>3, <3>4 DEF LInv, SocketsOwned, ClusterOwns, Waiting
    <3> HIDE DEF k
    <3>6. CASE place' = place /\ sq' = sq
      <4>1. \A j \in Conns : place[j] \in {"shard", "queued", "held"} => place'[j] = place[j]
        BY Zenon, <3>6
      <4> QED  BY Zenon, <3>1, <3>6, <4>1, <1>OutsidePlaced
    <3>7. CASE /\ place' = [place EXCEPT ![k] = "shard"]
               /\ sq' = [sq EXCEPT ![Shard(k)] = Append(sq[Shard(k)], Add(k))]
      <4>1. Shard(k) \in Shards  BY <3>4, BrokerAssumption DEF Shard
      <4>2. place'[k] = "shard" /\ \A j \in Conns : j # k => place'[j] = place[j]
        BY Zenon, <2>1, <3>4, <3>7
      <4>3. Add(k) \in Requests /\ Add(k).type = "add" /\ Add(k).conn = k
        BY Zenon, <3>4, MadeRequests
      <4>4. place[k] \notin {"shard", "queued", "held"}  BY <3>5
      <4> QED  BY Zenon, <3>1, <3>4, <3>7, <4>1, <4>2, <4>3, <4>4, <1>PostPlaced
    <3> QED  BY Zenon, <3>2, <3>6, <3>7
  <2> QED  BY Zenon, <2>2, <2>3, <2>4, <2>5 DEF ClusterStep

(* The shard takes its requests.                                           *)
<1>DrainPlaced. ASSUME IInv, LInv, RInv, NEW s \in Shards, Drain(s)
                PROVE  RInv'
  <2> USE <1>DrainPlaced
  <2> DEFINE r == [sh[s] EXCEPT !.pc = "drain", !.batch = sq[s]]
  <2>1. /\ sh[s] \in ShardStates /\ sq[s] \in Seq(Requests) /\ sh[s].pc = "poll"
        /\ sq \in [Shards -> Seq(Requests)] /\ RequestsPlaced(s) /\ HeldOK(s) /\ ControlOK(s)
    BY Zenon, Known DEF Drain, At, RInv, LInv, SocketsOwned
  <2>2. sh' = [sh EXCEPT ![s] = r] /\ sq' = [sq EXCEPT ![s] = <<>>] /\ place' = place
    BY Zenon, Known DEF Drain, sockVars
  <2>3. r.pc = "drain" /\ r.batch = sq[s] /\ r.new = sh[s].new /\ r.held = sh[s].held
    BY <2>1 DEF ShardStates
  <2> HIDE DEF r
  <2>4. sh'[s] = r /\ \A t \in Shards : t # s => sh'[t] = sh[t]  BY Zenon, <2>2, Known
  <2>5. sq'[s] = <<>> /\ \A t \in Shards : t # s => sq'[t] = sq[t]  BY Zenon, <2>1, <2>2
  <2>6. r.new = NoConn /\ r.held = NoConn
    BY <2>1, <2>3 DEF HeldOK, ControlOK, InAdd
  <2>7. 1 .. Len(<<>>) = {}  BY EmptyQueue
  <2>8. Placed(sq[s])' /\ Once(sq[s])' /\ Disjoint(sq[s], sh[s].batch)'
    BY Zenon, <2>5, <2>7 DEF Placed, Once, Disjoint
  <2>9. Placed(sh[s].batch)' /\ Once(sh[s].batch)'
    <3>1. sh'[s].batch = sq[s]  BY Zenon, <2>3, <2>4
    <3>2. Placed(sh'[s].batch) /\ Once(sh'[s].batch)  BY Zenon, <2>1, <3>1 DEF RequestsPlaced
    <3> QED  BY Zenon, <2>2, <3>2 DEF Placed, Once
  <2>10. RequestsPlaced(s)'  BY Zenon, <2>4, <2>6, <2>8, <2>9 DEF RequestsPlaced
  <2> QED  BY Zenon, <2>2, <2>4, <2>5, <2>10, <1>OtherShards

(* Such a step moves nothing that a request names.                         *)
<1>WorkedPlaced. ASSUME IInv, LInv, RInv, NEW s \in Shards, Worked(s)
                 PROVE  RInv'
  <2> USE <1>WorkedPlaced
  <2>1. SteadyBut(s, NoConn) /\ sq'[s] = sq[s]  BY Zenon DEF SteadyBut, Worked
  <2>2. RequestsPlaced(s)'  BY Zenon, <2>1, <1>QuietPlaced DEF Worked
  <2> QED  BY Zenon, <2>2, <1>OtherShards DEF Worked

(* A socket that is at the flusher, or being added, is in no request.      *)
<1>ElsewherePlaced. ASSUME IInv, RInv, NEW s \in Shards, NEW k, place[k] \notin {"shard", "queued"}
                    PROVE  Absent(k, sq[s]) /\ Absent(k, sh[s].batch)
  <2> USE <1>ElsewherePlaced
  <2>1. /\ sq[s] \in Seq(Requests) /\ sh[s].batch \in Seq(Requests) /\ RequestsPlaced(s)
        /\ AllOurs(s, sq[s]) /\ AllOurs(s, sh[s].batch)
    BY Zenon, Known DEF RInv, QueuesOK
  <2> QED  BY Zenon, <2>1, <1>NotRequested DEF RequestsPlaced

(* The session is filed.                                                   *)
<1>InsertSessionPlaced. ASSUME IInv, LInv, RInv, NEW s \in Shards, InsertSession(s)
                        PROVE  RInv'
  <2> USE <1>InsertSessionPlaced
  <2>1. place' = place /\ sq' = sq  BY DEF InsertSession, sockVars
  <2>2. /\ sh'[s].new = NoConn /\ sh'[s].held = sh[s].held /\ sh'[s].batch = sh[s].batch
        /\ \A t \in Shards : t # s => sh'[t] = sh[t]
    BY Zenon, ShardBecomes
  <2>3. SteadyBut(s, NoConn)  BY Zenon, <2>1 DEF SteadyBut
  <2>4. RequestsPlaced(s)'  BY Zenon, <2>1, <2>2, <2>3, <1>QuietPlaced
  <2> QED  BY Zenon, <2>1, <2>2, <2>4, <1>OtherShards

(* A socket goes to the flusher, from the first request of the batch or    *)
(* from the answer to RemoveConnection.                                    *)
<1>StartFlushPlaced. ASSUME IInv, LInv, RInv, NEW s \in Shards, NEW k \in Conns, Shard(k) = s,
                            NEW ret, NEW b, StartFlush(s, k, ret, b), sq' = sq,
                            b = sh[s].batch \/ (sh[s].batch # <<>> /\ b = Tail(sh[s].batch)),
                            place[k] \in {"queued", "held"}, Absent(k, sq[s]), Absent(k, b),
                            sh[s].pc # "insert"
                     PROVE  RInv'
  <2> USE <1>StartFlushPlaced
  <2>1. /\ sh'[s].new = sh[s].new /\ sh'[s].held = k /\ sh'[s].batch = b
        /\ \A t \in Shards : t # s => sh'[t] = sh[t]
    <3>1. \A j, r, q : StartFlush(s, j, r, q) =>
            /\ sh'[s].new = sh[s].new /\ sh'[s].held = j
            /\ sh'[s].batch = q /\ sh'[s].pc = "flush"
      BY Zenon, ShardBecomes
    <3>2. \E j, r, q : StartFlush(s, j, r, q)  OBVIOUS
    <3>3. \A t \in Shards : t # s => sh'[t] = sh[t]  BY Zenon, <3>2, ShardBecomes
    <3> QED  BY Zenon, <3>1, <3>3
  <2>2. place \in [Conns -> Places] /\ RequestsPlaced(s)  BY Zenon, Known DEF RInv
  <2>3. place'[k] = "held" /\ \A j \in Conns : j # k => place'[j] = place[j]
    BY Zenon, <2>2 DEF StartFlush
  <2>4. SteadyBut(s, k)  BY Zenon, <2>3 DEF SteadyBut
  <2>5. sh[s].new # NoConn => sh[s].new # k
    <3>1. sh[s].new # NoConn => place[sh[s].new] = "shard"  BY Zenon, <2>2 DEF RequestsPlaced
    <3> QED  BY <3>1
  <2>6. \/ sh'[s].new = NoConn
        \/ sh'[s].new = sh[s].new /\ sh[s].pc # "insert" /\ sh[s].new # k
    BY Zenon, <2>1, <2>5
  <2>7. place'[sh'[s].held] = "held"  BY Zenon, <2>1, <2>3
  <2>8. Absent(k, sh'[s].batch)  BY Zenon, <2>1
  <2>9. \/ sh'[s].batch = sh[s].batch
        \/ sh[s].batch # <<>> /\ sh'[s].batch = Tail(sh[s].batch)
    BY Zenon, <2>1
  <2>10. RequestsPlaced(s)'  BY Zenon, <2>4, <2>6, <2>7, <2>8, <2>9, <1>RequestsKept
  <2>11. \A j \in Conns : Shard(j) # s => place'[j] = place[j]  BY Zenon, <2>3
  <2> QED  BY Zenon, <2>1, <2>10, <2>11, <1>OtherShards

(* A FlushConnection is taken from the batch: its socket leaves the        *)
(* requests for the flusher.                                               *)
<1>FlushRequestPlaced. ASSUME IInv, LInv, RInv, NEW s \in Shards, FlushRequest(s)
                       PROVE  RInv'
  <2> USE <1>FlushRequestPlaced
  <2> DEFINE k == Head(sh[s].batch).conn
             b == Tail(sh[s].batch)
  <2>1. /\ sh[s].pc = "drain" /\ sh[s].batch # <<>> /\ Head(sh[s].batch).type = "flush"
        /\ sh[s].batch \in Seq(Requests) /\ QueuesOK(s) /\ RequestsPlaced(s) /\ sq' = sq
        /\ StartFlush(s, k, "drain", b)
    BY Zenon, Known DEF FlushRequest, At, RInv
  <2>2. Ours(s, Head(sh[s].batch))  BY Zenon, <2>1, AllOursTail DEF QueuesOK
  <2>3. k \in Conns /\ Shard(k) = s  BY Zenon, <2>1, <2>2 DEF Ours
  <2>4. Head(sh[s].batch) = sh[s].batch[1] /\ 1 \in 1 .. Len(sh[s].batch)
    BY Zenon, <2>1, TailOfBatch
  <2>5. place[k] = "queued"  BY Zenon, <2>1, <2>4 DEF RequestsPlaced, Placed
  <2>6. k # NoConn  BY <2>3, BrokerAssumption
  <2>7. Absent(k, sq[s])  BY Zenon, <2>1, <2>4 DEF RequestsPlaced, Disjoint, Absent
  <2>8. Absent(k, b)  BY Zenon, <2>1, OnceTail DEF RequestsPlaced, Absent
  <2>9. sh[s].pc # "insert" /\ place[k] \in {"queued", "held"}  BY <2>1, <2>5
  <2> HIDE DEF k, b
  <2>10. b = Tail(sh[s].batch)  BY DEF b
  <2> QED  BY Zenon, <2>1, <2>3, <2>7, <2>8, <2>9, <2>10, <1>StartFlushPlaced

(* The miot thread has answered: its socket, if any, goes to the flusher.  *)
<1>RemovedPlaced. ASSUME IInv, LInv, RInv, NEW s \in Shards, Removed(s)
                  PROVE  RInv'
  <2> USE <1>RemovedPlaced
  <2>1. /\ sh[s].pc = "removed" /\ sq' = sq /\ RequestsPlaced(s)
    BY Zenon, Known DEF Removed, At, RInv
  <2>2. CASE sh[s].held = NoConn
    <3>1. Resume(s) /\ place' = place  BY <2>2 DEF Removed
    <3>2. /\ sh'[s].new = sh[s].new /\ sh'[s].held = NoConn /\ sh'[s].batch = sh[s].batch
          /\ \A t \in Shards : t # s => sh'[t] = sh[t]
      BY Zenon, <3>1, ShardBecomes
    <3>3. SteadyBut(s, NoConn) /\ sh[s].pc # "insert"  BY <2>1, <3>1 DEF SteadyBut
    <3>4. RequestsPlaced(s)'  BY Zenon, <2>1, <3>2, <3>3, <1>QuietPlaced
    <3> QED  BY Zenon, <2>1, <3>1, <3>2, <3>4, <1>OtherShards
  <2>3. CASE sh[s].held # NoConn
    <3>1. \/ StartFlush(s, sh[s].held, sh[s].ret, sh[s].batch)
          \/ sh' = sh /\ place' = place
      BY <2>3 DEF Removed
    <3>2. CASE StartFlush(s, sh[s].held, sh[s].ret, sh[s].batch)
      <4>1. sh[s].held \in Conns /\ Shard(sh[s].held) = s  BY Zenon, <2>3, KnownSockets
      <4>2. place[sh[s].held] = "held"  BY Zenon, <2>1, <2>3 DEF RequestsPlaced
      <4>3. place[sh[s].held] \notin {"shard", "queued"} /\ place[sh[s].held] \in {"queued", "held"}
            /\ sh[s].pc # "insert"
        BY <2>1, <4>2
      <4>4. Absent(sh[s].held, sq[s]) /\ Absent(sh[s].held, sh[s].batch)
        BY Zenon, <4>3, <1>ElsewherePlaced
      <4> QED  BY Zenon, <2>1, <3>2, <4>1, <4>3, <4>4, <1>StartFlushPlaced
    <3>3. CASE sh' = sh /\ place' = place
      <4>1. \A j \in Conns : place[j] \in {"shard", "queued", "held"} => place'[j] = place[j]
        BY Zenon, <3>3
      <4> QED  BY Zenon, <2>1, <3>3, <4>1, <1>OutsidePlaced
    <3> QED  BY Zenon, <3>1, <3>2, <3>3
  <2> QED  BY Zenon, <2>2, <2>3

(* The flusher is done with the socket and drops it.                       *)
<1>FlushConnectionPlaced. ASSUME IInv, LInv, RInv, NEW s \in Shards, FlushConnection(s)
                          PROVE  RInv'
  <2> USE <1>FlushConnectionPlaced
  <2> DEFINE k == sh[s].held
  <2>1. /\ sh[s].pc = "flush" /\ sq' = sq /\ RequestsPlaced(s) /\ ControlOK(s)
        /\ place \in [Conns -> Places]
    BY Zenon, Known DEF FlushConnection, At, RInv
  <2>2. \/ Resume(s) /\ place' = [place EXCEPT ![k] = "closed"]
        \/ sh' = sh /\ place' = place
    BY Zenon DEF FlushConnection
  <2>3. k # NoConn  BY Zenon, <2>1 DEF ControlOK
  <2>4. k \in Conns /\ Shard(k) = s  BY Zenon, <2>3, KnownSockets
  <2>5. place[k] = "held"  BY Zenon, <2>1, <2>3 DEF RequestsPlaced
  <2>6. CASE Resume(s) /\ place' = [place EXCEPT ![k] = "closed"]
    <3>1. /\ sh'[s].new = sh[s].new /\ sh'[s].held = NoConn /\ sh'[s].batch = sh[s].batch
          /\ \A t \in Shards : t # s => sh'[t] = sh[t]
      BY Zenon, <2>6, ShardBecomes
    <3>2. \A j \in Conns : j # k => place'[j] = place[j]  BY Zenon, <2>1, <2>4, <2>6
    <3>3. SteadyBut(s, k)  BY Zenon, <3>2 DEF SteadyBut
    <3>4. place[k] \notin {"shard", "queued"} /\ sh[s].pc # "insert"  BY <2>1, <2>5
    <3>5. Absent(k, sq[s]) /\ Absent(k, sh[s].batch)  BY Zenon, <3>4, <1>ElsewherePlaced
    <3>6. Absent(k, sh'[s].batch)  BY Zenon, <3>1, <3>5
    <3>7. sh[s].new # NoConn => sh[s].new # k
      <4>1. sh[s].new # NoConn => place[sh[s].new] = "shard"
        BY Zenon, <2>1, <3>4 DEF RequestsPlaced
      <4> QED  BY <2>5, <4>1
    <3>8. \/ sh'[s].new = NoConn
          \/ sh'[s].new = sh[s].new /\ sh[s].pc # "insert" /\ sh[s].new # k
      BY Zenon, <3>1, <3>4, <3>7
    <3> HIDE DEF k
    <3>9. RequestsPlaced(s)'  BY Zenon, <2>1, <3>1, <3>3, <3>5, <3>6, <3>8, <1>RequestsKept
    <3>10. \A j \in Conns : Shard(j) # s => place'[j] = place[j]  BY Zenon, <2>4, <3>2
    <3> QED  BY Zenon, <2>1, <3>1, <3>9, <3>10, <1>OtherShards
  <2>7. CASE sh' = sh /\ place' = place
    <3>1. \A j \in Conns : place[j] \in {"shard", "queued", "held"} => place'[j] = place[j]
      BY Zenon, <2>7
    <3> QED  BY Zenon, <2>1, <2>7, <3>1, <1>OutsidePlaced
  <2> QED  BY Zenon, <2>2, <2>6, <2>7

(* An AddSession is taken from the batch: its socket is with the shard.    *)
<1>AddSessionPlaced. ASSUME IInv, LInv, RInv, NEW s \in Shards, AddSession(s)
                     PROVE  RInv'
  <2> USE <1>AddSessionPlaced
  <2>1. /\ sh[s].batch # <<>> /\ sh[s].batch \in Seq(Requests)
        /\ Head(sh[s].batch).type = "add" /\ RequestsPlaced(s)
        /\ sq' = sq /\ place' = place
    BY Zenon, Known DEF AddSession, At, RInv
  <2>2. PICK k \in Conns :
             /\ k = Head(sh[s].batch).conn /\ Shard(k) = s /\ k # NoConn
             /\ \/ sh' = sh
                \/ /\ sh'[s].batch = Tail(sh[s].batch) /\ sh'[s].new = k
                   /\ sh'[s].held = sh[s].held
                   /\ \A t \in Shards : t # s => sh'[t] = sh[t]
    BY Zenon, AddSessionBecomes
  <2>3. CASE sh' = sh
    <3>1. \A j \in Conns : place[j] \in {"shard", "queued", "held"} => place'[j] = place[j]
      BY Zenon, <2>1
    <3> QED  BY Zenon, <2>1, <2>3, <3>1, <1>OutsidePlaced
  <2>4. CASE sh' # sh
    <3>3. /\ sh'[s].batch = Tail(sh[s].batch) /\ sh'[s].new = k /\ sh'[s].held = sh[s].held
          /\ \A t \in Shards : t # s => sh'[t] = sh[t]
      BY Zenon, <2>2, <2>4
    <3>5. Head(sh[s].batch) = sh[s].batch[1] /\ 1 \in 1 .. Len(sh[s].batch)
      BY Zenon, <2>1, TailOfBatch
    <3>6. place[k] = "shard"  BY Zenon, <2>1, <2>2, <3>5 DEF RequestsPlaced, Placed
    <3>7. SteadyBut(s, NoConn) /\ sq'[s] = sq[s] /\ place'[sh'[s].new] = "shard"
      BY Zenon, <2>1, <3>3, <3>6 DEF SteadyBut
    <3>8. Absent(NoConn, sq[s]) /\ Absent(NoConn, sh'[s].batch)  BY Zenon, <1>NothingAbsent
    <3>9. sh[s].held # NoConn => Shard(sh[s].held) = s  BY Zenon, KnownSockets
    <3>10. \/ sh'[s].held = NoConn
           \/ sh'[s].held = sh[s].held /\ sh[s].held # NoConn /\ Shard(sh[s].held) = s
      BY Zenon, <3>3, <3>9
    <3>11. RequestsPlaced(s)'
      BY Zenon, <2>1, <3>3, <3>7, <3>8, <3>10, <1>RequestsKept
    <3> QED  BY Zenon, <2>1, <3>3, <3>11, <1>OtherShards
  <2> QED  BY Zenon, <2>3, <2>4

(* The miot thread takes the new socket, which no other request names.     *)
<1>AddConnectionPlaced. ASSUME IInv, LInv, RInv, NEW s \in Shards, AddConnection(s)
                        PROVE  RInv'
  <2> USE <1>AddConnectionPlaced
  <2> DEFINE k == sh[s].new
             r == [sh[s] EXCEPT !.pc = "insert"]
  <2>1. /\ sh[s] \in ShardStates /\ sh[s].pc = "add" /\ sq' = sq /\ ControlOK(s) /\ HeldOK(s)
        /\ place \in [Conns -> Places]
    BY Zenon, Known DEF AddConnection, LInv, SocketsOwned
  <2>2. \/ sh' = sh /\ place' = place
        \/ /\ sh' = [sh EXCEPT ![s] = r]
           /\ place' = [Dropped(InConns(ClientOf[k])) EXCEPT ![k] = "conns"]
    BY Zenon, Known DEF AddConnection
  <2>3. CASE sh' = sh /\ place' = place
    <3>1. \A j \in Conns : place[j] \in {"shard", "queued", "held"} => place'[j] = place[j]
      BY Zenon, <2>3
    <3> QED  BY Zenon, <2>1, <2>3, <3>1, <1>OutsidePlaced
  <2>4. CASE /\ sh' = [sh EXCEPT ![s] = r]
             /\ place' = [Dropped(InConns(ClientOf[k])) EXCEPT ![k] = "conns"]
    <3>1. k # NoConn /\ sh[s].held = NoConn
      BY <2>1 DEF ControlOK, InAdd, HeldOK
    <3>2. k \in Conns /\ Shard(k) = s /\ Absent(k, sq[s]) /\ Absent(k, sh[s].batch)
      BY <2>1, <3>1, NewIsAbsent
    <3>3. r.pc = "insert" /\ r.held = NoConn /\ r.batch = sh[s].batch
      BY <2>1, <3>1 DEF ShardStates
    <3> HIDE DEF k, r
    <3>4. sh'[s] = r /\ \A t \in Shards : t # s => sh'[t] = sh[t]  BY Zenon, Known, <2>4
    <3>5. \A j \in Conns : j # k /\ place[j] # "conns" => place'[j] = place[j]
      BY <2>4, <3>2 DEF Dropped, InConns
    <3>6. \A t \in Shards : SteadyBut(t, k)  BY <3>5 DEF SteadyBut
    <3>7. Absent(k, sh'[s].batch) /\ sq'[s] = sq[s]  BY Zenon, <2>1, <3>2, <3>3, <3>4
    <3>8. RequestsPlaced(s)'
      BY Zenon, <3>2, <3>3, <3>4, <3>6, <3>7, <1>RequestsKept
    <3>9. \A t \in Shards : t # s => SteadyBut(t, NoConn)  BY <3>2, <3>5 DEF SteadyBut
    <3>10. \A t \in Shards : t # s => RequestsPlaced(t)'
      BY Zenon, <2>1, <3>4, <3>9, <1>ShardUntouched
    <3> QED  BY Zenon, <3>8, <3>10 DEF RInv
  <2> QED  BY Zenon, <2>2, <2>3, <2>4

(* The miot thread gives up the socket of a client.                        *)
<1>RemoveConnectionPlaced. ASSUME IInv, LInv, RInv, NEW s \in Shards, RemoveConnection(s)
                           PROVE  RInv'
  <2> USE <1>RemoveConnectionPlaced
  <2> DEFINE ks == InConns(sh[s].rm)
             h == IF ks = {} THEN NoConn ELSE CHOOSE k \in ks : TRUE
             r == [sh[s] EXCEPT !.pc = "removed", !.held = h]
  <2>1. /\ sh[s] \in ShardStates /\ sh[s].pc = "remove" /\ sq' = sq
        /\ place \in [Conns -> Places]
    BY Zenon, Known DEF RemoveConnection
  <2>2. \/ sh' = sh /\ place' = place
        \/ /\ sh' = [sh EXCEPT ![s] = r]
           /\ place' = [k \in Conns |-> IF k \in ks THEN "held" ELSE place[k]]
    BY Zenon, Known DEF RemoveConnection
  <2>3. CASE sh' = sh /\ place' = place
    <3>1. \A j \in Conns : place[j] \in {"shard", "queued", "held"} => place'[j] = place[j]
      BY Zenon, <2>3
    <3> QED  BY Zenon, <2>1, <2>3, <3>1, <1>OutsidePlaced
  <2>4. CASE /\ sh' = [sh EXCEPT ![s] = r]
             /\ place' = [k \in Conns |-> IF k \in ks THEN "held" ELSE place[k]]
    <3>1. h = NoConn \/ h \in ks  OBVIOUS
    <3>2. \A k \in ks : k \in Conns /\ place[k] = "conns"  BY DEF InConns
    <3>3. r.held = h /\ r.batch = sh[s].batch /\ r.new = sh[s].new
      BY <2>1 DEF ShardStates
    <3> HIDE DEF ks, h, r
    <3>4. sh'[s] = r /\ \A t \in Shards : t # s => sh'[t] = sh[t]  BY Zenon, Known, <2>4
    <3>5. \A j \in Conns : place[j] # "conns" => place'[j] = place[j]  BY <2>4, <3>2
    <3>6. \A t \in Shards : SteadyBut(t, NoConn)  BY <3>5 DEF SteadyBut
    <3>7. h = NoConn \/ place'[h] = "held"  BY <2>4, <3>1, <3>2
    <3>8. Absent(NoConn, sq[s]) /\ Absent(NoConn, sh'[s].batch) /\ sh[s].pc # "insert"
          /\ sq'[s] = sq[s]
      BY <2>1, <1>NothingAbsent
    <3>9. sh'[s].held = NoConn \/ place'[sh'[s].held] = "held"  BY Zenon, <3>3, <3>4, <3>7
    <3>10. sh'[s].new = NoConn \/ (sh'[s].new = sh[s].new /\ sh[s].pc # "insert" /\ sh[s].new # NoConn)
      BY Zenon, <3>3, <3>4, <3>8
    <3>11. RequestsPlaced(s)'
      BY Zenon, <3>3, <3>4, <3>6, <3>8, <3>9, <3>10, <1>RequestsKept
    <3>12. \A t \in Shards : t # s => RequestsPlaced(t)'
      BY Zenon, <2>1, <3>4, <3>6, <1>ShardUntouched
    <3> QED  BY Zenon, <3>11, <3>12 DEF RInv
  <2> QED  BY Zenon, <2>2, <2>3, <2>4

(* The miot thread ends and drops the sockets it has, or has panicked.     *)
<1>CloseMiotPlaced. ASSUME IInv, LInv, RInv, NEW s \in Shards, CloseMiot(s) \/ MiotGone(s)
                    PROVE  RInv'
  <2> USE <1>CloseMiotPlaced
  <2>1. sh' = sh /\ sq' = sq  BY DEF CloseMiot, MiotGone
  <2>2. \/ place' = place
        \/ place' = Dropped({k \in Conns : place[k] = "conns" /\ Shard(k) = s})
    BY DEF CloseMiot, MiotGone, sockVars
  <2>3. \A j \in Conns : place[j] \in {"shard", "queued", "held"} => place'[j] = place[j]
    BY <2>2 DEF Dropped
  <2> QED  BY Zenon, <2>1, <2>3, <1>OutsidePlaced

(* The shard ends: its channel is dropped.                                 *)
<1>ExitShardPlaced. ASSUME IInv, LInv, RInv, NEW s \in Shards, ExitShard(s)
                    PROVE  RInv'
  <2> USE <1>ExitShardPlaced
  <2>1. /\ sh[s] \in ShardStates /\ sh[s].pc = "close" /\ ControlOK(s) /\ QueuesOK(s)
        /\ HeldOK(s) /\ sq \in [Shards -> Seq(Requests)] /\ sq[s] \in Seq(Requests)
    BY Zenon, Known DEF ExitShard, At, LInv, SocketsOwned
  <2>2. sh[s].held = NoConn /\ sh[s].new = NoConn  BY <2>1 DEF HeldOK, ControlOK, InAdd
  <2>6. CASE sh[s].batch # <<>>
    <3>1. sh' = sh /\ sq' = sq /\ place' = place  BY Zenon, <2>6 DEF ExitShard
    <3>2. \A j \in Conns : place[j] \in {"shard", "queued", "held"} => place'[j] = place[j]
      BY Zenon, <3>1
    <3> QED  BY Zenon, <3>1, <3>2, <1>OutsidePlaced
  <2>7. CASE sh[s].batch = <<>>
    <3> DEFINE r == [sh[s] EXCEPT !.pc = "exited"]
               ks == SocketsIn(sq[s])
    <3>1. sh' = [sh EXCEPT ![s] = r]  BY <2>7, Zenon, Known DEF ExitShard, Goto
    <3>2. r.batch = <<>> /\ r.new = NoConn /\ r.held = NoConn
      BY <2>1, <2>2, <2>7 DEF ShardStates
    <3> HIDE DEF r
    <3>3. sh'[s] = r /\ \A t \in Shards : t # s => sh'[t] = sh[t]  BY Zenon, <3>1, Known
    <3>4. sq' = [sq EXCEPT ![s] = <<>>] /\ place' = Dropped(ks)  BY Zenon, <2>7 DEF ExitShard
    <3>5. sq'[s] = <<>> /\ \A t \in Shards : t # s => sq'[t] = sq[t]  BY Zenon, <2>1, <3>4
    <3>6. ASSUME NEW k \in ks  PROVE Shard(k) = s
      <4>1. PICK i \in 1 .. Len(sq[s]) : k = sq[s][i].conn /\ k # NoConn
        BY Zenon, <2>1, <3>6, SocketOf
      <4>2. sq[s][i] \in Requests  BY <2>1
      <4>3. sq[s][i].type # "close"  BY <4>1, <4>2 DEF Requests
      <4>4. Ours(s, sq[s][i])  BY Zenon, <2>1, <4>1 DEF QueuesOK, AllOurs
      <4> QED  BY Zenon, <4>1, <4>3, <4>4 DEF Ours
    <3> HIDE DEF ks
    <3>7. \A k \in Conns : Shard(k) # s => place'[k] = place[k]  BY <3>4, <3>6 DEF Dropped
    <3>8. RequestsPlaced(s)'
      <4>1. 1 .. Len(<<>>) = {}  BY EmptyQueue
      <4>3. Placed(sq[s])' /\ Placed(sh[s].batch)'
        BY Zenon, <3>2, <3>3, <3>5, <4>1 DEF Placed
      <4>4. Once(sq[s])' /\ Once(sh[s].batch)' /\ Disjoint(sq[s], sh[s].batch)'
        BY Zenon, <3>2, <3>3, <3>5, <4>1 DEF Once, Disjoint
      <4> QED  BY Zenon, <3>2, <3>3, <4>3, <4>4 DEF RequestsPlaced
    <3> QED  BY Zenon, <3>3, <3>5, <3>7, <3>8, <1>OtherShards
  <2> QED  BY <2>6, <2>7
<1> SUFFICES ASSUME IInv, LInv, RInv, [Next]_vars PROVE RInv'  OBVIOUS
<1>1. CASE UNCHANGED vars
  <2>1. sh' = sh /\ sq' = sq /\ place' = place  BY <1>1 DEF vars, sockVars
  <2>2. \A j \in Conns : place[j] \in {"shard", "queued", "held"} => place'[j] = place[j]
    BY Zenon, <2>1
  <2> QED  BY Zenon, <2>1, <2>2, <1>OutsidePlaced
<1>2. ASSUME NEW k \in Conns,
             AcceptConn(k) \/ Handshakes(k) \/ Client(k) \/ Pumps(k) \/ SocketTimeout(k)
      PROVE  RInv'
  BY Zenon, <1>2, <1>ClientPlaced, <1>MiotPlaced DEF Handshakes, Client, Pumps
<1>3. CASE AskClose \/ ClusterStep  BY Zenon, <1>3, <1>ClusterPlaced
<1>4. ASSUME NEW s \in Shards, ShardStep(s) PROVE RInv'
  BY Zenon, <1>4, <1>DrainPlaced, <1>AddSessionPlaced, <1>FlushRequestPlaced, <1>RemovedPlaced,
     <1>InsertSessionPlaced, WorkSteps, <1>WorkedPlaced, <1>ExitShardPlaced, <1>CloseMiotPlaced DEF ShardStep
<1>5. ASSUME NEW s \in Shards, MiotServes(s) \/ FlushConnection(s) PROVE RInv'
  BY Zenon, <1>5, <1>AddConnectionPlaced, <1>RemoveConnectionPlaced, <1>CloseMiotPlaced,
     <1>FlushConnectionPlaced DEF MiotServes
<1> QED  BY Zenon, <1>1, <1>2, <1>3, <1>4, <1>5 DEF Next, Terminated

(***************************************************************************)
(* The queues keep their types.                                            *)
(***************************************************************************)
(* The packets that the broker writes.                                     *)
Written == {"REFUSED", "CONNACK", "PINGRESP", "DISCONNECT"}
(* Those among them that pass through down.                                *)
Queued == {"CONNACK", "PINGRESP"}

(* Initially every queue is empty.                                         *)
LEMMA DataInitially == Init => DataTypeOK
<1> SUFFICES ASSUME Init PROVE DataTypeOK  OBVIOUS
<1>1. MaxSend \in Nat  BY BrokerAssumption
<1>2. peer \in [Conns -> Peers] /\ sent \in [Conns -> 0 .. MaxSend]
  BY <1>1 DEF Init, Peers
<1>3. net \in [Conns -> Seq(Packets)] /\ wire \in [Conns -> Seq(Written)]
      /\ up \in [Conns -> Seq(Packets)] /\ down \in [Conns -> Seq(Queued)]
  BY DEF Init
<1>4. acks \in [Clients -> Nat] /\ miot \in [Shards -> Miots] /\ aborted \in BOOLEAN
  BY DEF Init, Miots
<1> QED  BY <1>2, <1>3, <1>4 DEF DataTypeOK, Written, Queued

(* Every step keeps the types of the data.                                 *)
LEMMA DataInductive == IInv /\ DataTypeOK /\ [Next]_vars => DataTypeOK'
(* One entry of a table is replaced.                                       *)
<1>Updated. ASSUME NEW D, NEW S, NEW f \in [D -> S], NEW x, NEW v \in S
            PROVE  [f EXCEPT ![x] = v] \in [D -> S]
  BY <1>Updated

(* The steps of the clients, the listener and the handshakes.              *)
<1>ClientData.
    ASSUME DataTypeOK, NEW k \in Conns,
           AcceptConn(k) \/ HandOver(k) \/ HandshakeFails(k) \/ ClientSends(k) \/ ClientEnds(k)
    PROVE  DataTypeOK'
  <2> USE <1>ClientData
  <2> USE DEF DataTypeOK
  <2>1. CASE AcceptConn(k)  BY <2>1 DEF AcceptConn, Peers
  <2>2. CASE HandOver(k)  BY <2>2 DEF HandOver
  <2>3. CASE HandshakeFails(k)
    <3>1. wire' \in [Conns -> Seq({"REFUSED", "CONNACK", "PINGRESP", "DISCONNECT"})]
      <4>1. <<"REFUSED">> \in Seq({"REFUSED", "CONNACK", "PINGRESP", "DISCONNECT"})  OBVIOUS
      <4> QED  BY <2>3, <4>1 DEF HandshakeFails
    <3> QED  BY <2>3, <3>1 DEF HandshakeFails
  <2>4. CASE ClientSends(k)
    <3>1. sent' \in [Conns -> 0 .. MaxSend]
      <4>1. MaxSend \in Nat  BY BrokerAssumption
      <4>2. sent[k] \in 0 .. MaxSend /\ sent[k] < MaxSend /\ sent' = [sent EXCEPT ![k] = sent[k] + 1]
        BY <2>4 DEF ClientSends
      <4>3. sent[k] + 1 \in 0 .. MaxSend  BY <4>1, <4>2
      <4> QED  BY <4>2, <4>3
    <3>2. net' \in [Conns -> Seq(Packets)]
      <4>1. PICK p \in Sends : net' = [net EXCEPT ![k] = Append(net[k], p)]
        BY <2>4 DEF ClientSends
      <4>2. p \in Packets  BY BrokerAssumption
      <4>3. Append(net[k], p) \in Seq(Packets)  BY <4>2
      <4> QED  BY <4>1, <4>3
    <3> QED  BY <2>4, <3>1, <3>2 DEF ClientSends
  <2>5. CASE ClientEnds(k)
    <3>1. PICK e \in Endings : peer' = [peer EXCEPT ![k] = e]  BY <2>5 DEF ClientEnds
    <3>2. e \in Peers  BY BrokerAssumption DEF Peers
    <3>3. peer' \in [Conns -> Peers]  BY <3>1, <3>2
    <3> QED  BY <2>5, <3>3 DEF ClientEnds
  <2> QED  BY <2>1, <2>2, <2>3, <2>4, <2>5

(* The steps of the miot threads.                                          *)
<1>MiotData.
    ASSUME DataTypeOK, NEW k \in Conns,
           \/ SocketReset(k) \/ SocketToSession(k) \/ SocketFin(k) \/ SocketTimeout(k)
           \/ SessionToSocket(k)
    PROVE  DataTypeOK'
  <2> USE <1>MiotData
  <2> USE DEF DataTypeOK
  <2>1. CASE SocketReset(k)
    BY <2>1 DEF SocketReset, sockVars, Miots
  <2>2. CASE SocketToSession(k)
    <3>1. net[k] \in Seq(Packets) /\ net[k] # <<>> /\ net' = [net EXCEPT ![k] = Tail(net[k])]
      BY <2>2 DEF SocketToSession
    <3>2. Tail(net[k]) \in Seq(Packets) /\ Head(net[k]) \in Packets  BY <3>1
    <3>3. net' \in [Conns -> Seq(Packets)]  BY <3>1, <3>2
    <3>4. up' = up \/ up' = [up EXCEPT ![k] = Append(up[k], Head(net[k]))]
      BY <2>2 DEF SocketToSession
    <3>5. Append(up[k], Head(net[k])) \in Seq(Packets)  BY <3>2
    <3>6. up' \in [Conns -> Seq(Packets)]  BY <3>4, <3>5
    <3> QED  BY <2>2, <3>3, <3>6 DEF SocketToSession
  <2>3. CASE SocketFin(k) \/ SocketTimeout(k)
    BY <2>3 DEF SocketFin, SocketTimeout
  <2>4. CASE SessionToSocket(k)
    <3>1. \/ wire' = wire /\ down' = down
          \/ wire' = [wire EXCEPT ![k] = wire[k] \o down[k]] /\ down' = [down EXCEPT ![k] = <<>>]
      BY <2>4 DEF SessionToSocket
    <3>2. wire[k] \o down[k] \in Seq({"REFUSED", "CONNACK", "PINGRESP", "DISCONNECT"})
      <4>1. down[k] \in Seq({"REFUSED", "CONNACK", "PINGRESP", "DISCONNECT"})
        <5>1. down[k] \in Seq({"CONNACK", "PINGRESP"})  OBVIOUS
        <5> QED  BY <5>1
      <4> QED  BY <4>1
    <3>3. wire' \in [Conns -> Seq({"REFUSED", "CONNACK", "PINGRESP", "DISCONNECT"})]
      BY <3>1, <3>2
    <3>4. down' \in [Conns -> Seq({"CONNACK", "PINGRESP"})]
      <4>1. <<>> \in Seq({"CONNACK", "PINGRESP"})  OBVIOUS
      <4> QED  BY Zenon, <3>1, <4>1, <1>Updated
    <3> QED  BY <2>4, <3>3, <3>4 DEF SessionToSocket
  <2> QED  BY <2>1, <2>2, <2>3, <2>4

(* The steps of the miot thread that answer its shard.                     *)
<1>ServesData.
    ASSUME DataTypeOK, NEW s \in Shards, AddConnection(s) \/ RemoveConnection(s) \/ CloseMiot(s)
    PROVE  DataTypeOK'
  <2> USE <1>ServesData
  <2>1. /\ peer' = peer /\ sent' = sent /\ net' = net /\ wire' = wire /\ up' = up
        /\ down' = down /\ acks' = acks /\ aborted' = aborted
    BY DEF AddConnection, RemoveConnection, CloseMiot
  <2>2. \/ miot' = miot \/ miot' = [miot EXCEPT ![s] = "dead"]
        \/ miot' = [miot EXCEPT ![s] = "closed"]
    BY Zenon DEF AddConnection, RemoveConnection, CloseMiot
  <2>3. miot' \in [Shards -> Miots]  BY <2>2 DEF DataTypeOK, Miots
  <2> QED  BY <2>1, <2>3 DEF DataTypeOK

(* The steps of the cluster, and of the shards that move no packet.        *)
<1>IdleData.
    ASSUME DataTypeOK,
           \/ AskClose \/ ClusterStep
           \/ \E s \in Shards : \/ Drain(s) \/ DisconnectNext(s) \/ EndIteration(s)
                                \/ CloseRequest(s) \/ InsertSession(s) \/ MiotGone(s)
           \/ UNCHANGED vars
    PROVE  DataTypeOK'
  <2> USE <1>IdleData
  <2>1. /\ peer' = peer /\ sent' = sent /\ net' = net /\ wire' = wire /\ up' = up
        /\ down' = down /\ acks' = acks /\ miot' = miot /\ aborted' \in {aborted, TRUE}
    BY DEF AskClose, ClusterStep, DrainCluster, HandleAddConnection, HandleClose, CloseShard,
           JoinShard, ExitCluster, Drain, DisconnectNext, EndIteration, CloseRequest,
           InsertSession, MiotGone, Abort, vars, sockVars
  <2> QED  BY <2>1 DEF DataTypeOK

(* The steps of a shard that drop sessions and their acknowledgements.     *)
<1>DropData. ASSUME DataTypeOK, IInv, NEW s \in Shards,
                    AddSession(s) \/ FlushRequest(s) \/ Removed(s) \/ ExitShard(s)
             PROVE  DataTypeOK'
  <2> USE <1>DropData
  <2>1. /\ peer' = peer /\ sent' = sent /\ net' = net /\ wire' = wire /\ up' = up
        /\ miot' = miot /\ aborted' \in {aborted, TRUE}
    BY DEF AddSession, FlushRequest, Removed, ExitShard, Abort
  <2>2. down' = down \/ \E k : down' = [down EXCEPT ![k] = <<"CONNACK">>]
    BY Zenon DEF AddSession, FlushRequest, Removed, ExitShard
  <2>3. down' \in [Conns -> Seq({"CONNACK", "PINGRESP"})]
    <3>1. <<"CONNACK">> \in Seq({"CONNACK", "PINGRESP"})  OBVIOUS
    <3> QED  BY <2>2, <3>1 DEF DataTypeOK
  <2>4. \/ acks' = acks \/ \E c : acks' = [acks EXCEPT ![c] = 0]
        \/ acks' = [c \in Clients |-> IF ShardOf[c] = s THEN 0 ELSE acks[c]]
    BY Zenon DEF AddSession, FlushRequest, Removed, ExitShard, StartFlush, DropSession
  <2>5. acks' \in [Clients -> Nat]
    <3>1. acks \in [Clients -> Nat] /\ 0 \in Nat  BY DEF DataTypeOK
    <3>2. CASE \E c : acks' = [acks EXCEPT ![c] = 0]  BY Zenon, <3>1, <3>2, <1>Updated
    <3>3. CASE acks' = [c \in Clients |-> IF ShardOf[c] = s THEN 0 ELSE acks[c]]
      BY <3>1, <3>3
    <3> QED  BY Zenon, <2>4, <3>1, <3>2, <3>3
  <2> QED  BY <2>1, <2>3, <2>5 DEF DataTypeOK

(* The flusher writes what is left, and DISCONNECT.                        *)
<1>FlushData. ASSUME DataTypeOK, NEW s \in Shards, FlushConnection(s)
              PROVE  DataTypeOK'
  <2> USE <1>FlushData
  <2> DEFINE k == sh[s].held
  <2>1. /\ peer' = peer /\ sent' = sent /\ acks' = acks /\ miot' = miot
        /\ aborted' \in {aborted, TRUE}
    BY DEF FlushConnection, Abort
  <2>2. \/ wire' = wire /\ down' = down /\ up' = up /\ net' = net
        \/ /\ wire' = [wire EXCEPT ![k] = wire[k] \o Append(down[k], "DISCONNECT")]
           /\ down' = [down EXCEPT ![k] = <<>>] /\ up' = [up EXCEPT ![k] = <<>>]
           /\ net' = [net EXCEPT ![k] = <<>>]
    BY Zenon DEF FlushConnection
  <2> HIDE DEF k
  <2>3. /\ down' \in [Conns -> Seq({"CONNACK", "PINGRESP"})]
        /\ up' \in [Conns -> Seq(Packets)] /\ net' \in [Conns -> Seq(Packets)]
    <3>1. <<>> \in Seq({"CONNACK", "PINGRESP"}) /\ <<>> \in Seq(Packets)  OBVIOUS
    <3>2. /\ down \in [Conns -> Seq({"CONNACK", "PINGRESP"})]
          /\ up \in [Conns -> Seq(Packets)] /\ net \in [Conns -> Seq(Packets)]
      BY DEF DataTypeOK
    <3>3. down' = down \/ down' = [down EXCEPT ![k] = <<>>]  BY Zenon, <2>2
    <3>4. up' = up \/ up' = [up EXCEPT ![k] = <<>>]  BY Zenon, <2>2
    <3>5. net' = net \/ net' = [net EXCEPT ![k] = <<>>]  BY Zenon, <2>2
    <3>6. down' \in [Conns -> Seq({"CONNACK", "PINGRESP"})]  BY Zenon, <3>1, <3>2, <3>3, <1>Updated
    <3>7. up' \in [Conns -> Seq(Packets)]  BY Zenon, <3>1, <3>2, <3>4, <1>Updated
    <3>8. net' \in [Conns -> Seq(Packets)]  BY Zenon, <3>1, <3>2, <3>5, <1>Updated
    <3> QED  BY <3>6, <3>7, <3>8
  <2>4. wire' \in [Conns -> Seq({"REFUSED", "CONNACK", "PINGRESP", "DISCONNECT"})]
    <3>1. CASE k \notin Conns  BY <2>2, <3>1 DEF DataTypeOK
    <3>2. CASE k \in Conns
      <4>1. down[k] \in Seq({"CONNACK", "PINGRESP"})  BY <3>2 DEF DataTypeOK
      <4>2. down[k] \in Seq({"REFUSED", "CONNACK", "PINGRESP", "DISCONNECT"})  BY <4>1
      <4>3. Append(down[k], "DISCONNECT") \in Seq({"REFUSED", "CONNACK", "PINGRESP", "DISCONNECT"})
        BY <4>2
      <4>4. wire[k] \in Seq({"REFUSED", "CONNACK", "PINGRESP", "DISCONNECT"})
        BY <3>2 DEF DataTypeOK
      <4>5. wire[k] \o Append(down[k], "DISCONNECT")
              \in Seq({"REFUSED", "CONNACK", "PINGRESP", "DISCONNECT"})
        BY <4>3, <4>4
      <4> QED  BY <2>2, <3>2, <4>5 DEF DataTypeOK
    <3> QED  BY <3>1, <3>2
  <2> QED  BY <2>1, <2>3, <2>4 DEF DataTypeOK

(* route_packets turns packets into acknowledgements.                      *)
<1>RouteData. ASSUME DataTypeOK, IInv, NEW s \in Shards, RoutePackets(s)
              PROVE  DataTypeOK'
  <2> USE <1>RouteData
  <2>1. /\ peer' = peer /\ sent' = sent /\ net' = net /\ wire' = wire /\ down' = down
        /\ miot' = miot /\ aborted' \in {aborted, TRUE}
    BY DEF RoutePackets, Abort
  <2>2. \/ up' = up /\ acks' = acks
        \/ /\ up' = [k \in Conns |-> IF \E c \in Sessions(s) : session[c] = k THEN <<>> ELSE up[k]]
           /\ acks' = [c \in Clients |->
                         IF c \in Sessions(s) /\ StopsAt(up[session[c]]) = "none"
                           THEN acks[c] + Len(up[session[c]]) ELSE acks[c]]
    BY Zenon DEF RoutePackets
  <2>3. up' \in [Conns -> Seq(Packets)]
    <3>1. <<>> \in Seq(Packets) /\ up \in [Conns -> Seq(Packets)]  BY DEF DataTypeOK
    <3>2. \A k \in Conns : (IF \E c \in Sessions(s) : session[c] = k THEN <<>> ELSE up[k])
                              \in Seq(Packets)
      BY <3>1
    <3> QED  BY Zenon, <2>2, <3>1, <3>2
  <2>4. \A c \in Sessions(s) : acks[c] + Len(up[session[c]]) \in Nat
    <3> SUFFICES ASSUME NEW c \in Sessions(s) PROVE acks[c] + Len(up[session[c]]) \in Nat
      OBVIOUS
    <3>1. c \in Clients /\ session[c] \in Conns  BY Known DEF Sessions
    <3>2. acks[c] \in Nat /\ up[session[c]] \in Seq(Packets)  BY <3>1 DEF DataTypeOK
    <3> QED  BY <3>2
  <2>5. acks' \in [Clients -> Nat]
    <3>1. acks \in [Clients -> Nat]  BY DEF DataTypeOK
    <3>2. \A c \in Clients : (IF c \in Sessions(s) /\ StopsAt(up[session[c]]) = "none"
                                THEN acks[c] + Len(up[session[c]]) ELSE acks[c]) \in Nat
      BY Zenon, <2>4, <3>1
    <3> QED  BY Zenon, <2>2, <3>1, <3>2
  <2> QED  BY <2>1, <2>3, <2>5 DEF DataTypeOK

(* out_acks_flush turns acknowledgements into packets for the socket.      *)
<1>CommitData. ASSUME DataTypeOK, NEW s \in Shards, CommitAcks(s)
               PROVE  DataTypeOK'
  <2> USE <1>CommitData
  <2>1. /\ peer' = peer /\ sent' = sent /\ net' = net /\ wire' = wire /\ up' = up
        /\ miot' = miot /\ aborted' \in {aborted, TRUE}
    BY DEF CommitAcks, Abort
  <2>2. \/ down' = down /\ acks' = acks
        \/ \E acking \in SUBSET Clients :
             /\ down' = [k \in Conns |->
                           IF session[ClientOf[k]] = k /\ ClientOf[k] \in acking
                             THEN down[k] \o [i \in 1 .. acks[ClientOf[k]] |-> "PINGRESP"]
                             ELSE down[k]]
             /\ acks' = [c \in Clients |-> IF c \in acking THEN 0 ELSE acks[c]]
    <3> DEFINE live == Sessions(s)
               gone == {c \in live : acks[c] > 0 /\ place[session[c]] = "closed"}
               acking == {c \in live : acks[c] > 0} \ gone
    <3>1. acking \in SUBSET Clients  BY DEF Sessions
    <3>2. \/ down' = down /\ acks' = acks
          \/ /\ down' = [k \in Conns |->
                           IF session[ClientOf[k]] = k /\ ClientOf[k] \in acking
                             THEN down[k] \o [i \in 1 .. acks[ClientOf[k]] |-> "PINGRESP"]
                             ELSE down[k]]
             /\ acks' = [c \in Clients |-> IF c \in acking THEN 0 ELSE acks[c]]
      BY Zenon DEF CommitAcks
    <3> HIDE DEF acking
    <3> QED  BY Zenon, <3>1, <3>2
  <2>3. \A k \in Conns : down[k] \o [i \in 1 .. acks[ClientOf[k]] |-> "PINGRESP"]
                           \in Seq({"CONNACK", "PINGRESP"})
    <3> SUFFICES ASSUME NEW k \in Conns
                 PROVE  down[k] \o [i \in 1 .. acks[ClientOf[k]] |-> "PINGRESP"]
                          \in Seq({"CONNACK", "PINGRESP"})
      OBVIOUS
    <3> DEFINE n == acks[ClientOf[k]]
    <3>1. n \in Nat /\ down[k] \in Seq({"CONNACK", "PINGRESP"})
      BY BrokerAssumption DEF DataTypeOK
    <3> HIDE DEF n
    <3>2. [i \in 1 .. n |-> "PINGRESP"] \in Seq({"CONNACK", "PINGRESP"})
      <4>1. [i \in 1 .. n |-> "PINGRESP"] \in [1 .. n -> {"CONNACK", "PINGRESP"}]  OBVIOUS
      <4> QED  BY <3>1, <4>1
    <3>3. down[k] \o [i \in 1 .. n |-> "PINGRESP"] \in Seq({"CONNACK", "PINGRESP"})
      BY <3>1, <3>2
    <3> QED  BY <3>3 DEF n
  <2>4. CASE down' = down /\ acks' = acks  BY <2>1, <2>4 DEF DataTypeOK
  <2>5. ASSUME NEW acking \in SUBSET Clients,
               down' = [k \in Conns |->
                          IF session[ClientOf[k]] = k /\ ClientOf[k] \in acking
                            THEN down[k] \o [i \in 1 .. acks[ClientOf[k]] |-> "PINGRESP"]
                            ELSE down[k]],
               acks' = [c \in Clients |-> IF c \in acking THEN 0 ELSE acks[c]]
        PROVE  DataTypeOK'
    <3>1. /\ acks \in [Clients -> Nat] /\ down \in [Conns -> Seq({"CONNACK", "PINGRESP"})]
          /\ 0 \in Nat
      BY DEF DataTypeOK
    <3>2. down' \in [Conns -> Seq({"CONNACK", "PINGRESP"})]
      <4>1. \A k \in Conns : (IF session[ClientOf[k]] = k /\ ClientOf[k] \in acking
                                 THEN down[k] \o [i \in 1 .. acks[ClientOf[k]] |-> "PINGRESP"]
                                 ELSE down[k]) \in Seq({"CONNACK", "PINGRESP"})
        BY Zenon, <2>3, <3>1
      <4> QED  BY Zenon, <2>5, <4>1
    <3>3. acks' \in [Clients -> Nat]
      <4>1. \A c \in Clients : (IF c \in acking THEN 0 ELSE acks[c]) \in Nat  BY Zenon, <3>1
      <4> QED  BY Zenon, <2>5, <4>1
    <3> QED  BY <2>1, <3>2, <3>3 DEF DataTypeOK
  <2> QED  BY Zenon, <2>2, <2>4, <2>5

<1> SUFFICES ASSUME IInv, DataTypeOK, [Next]_vars PROVE DataTypeOK'  OBVIOUS
<1>1. CASE UNCHANGED vars  BY Zenon, <1>1, <1>IdleData
<1>2. ASSUME NEW k \in Conns,
             AcceptConn(k) \/ Handshakes(k) \/ Client(k) \/ Pumps(k) \/ SocketTimeout(k)
      PROVE  DataTypeOK'
  BY Zenon, <1>2, <1>ClientData, <1>MiotData DEF Handshakes, Client, Pumps
<1>3. CASE AskClose \/ ClusterStep  BY Zenon, <1>3, <1>IdleData
<1>4. ASSUME NEW s \in Shards, ShardStep(s) PROVE DataTypeOK'
  BY Zenon, <1>4, <1>IdleData, <1>DropData, <1>RouteData, <1>CommitData DEF ShardStep
<1>5. ASSUME NEW s \in Shards, MiotServes(s) \/ FlushConnection(s) PROVE DataTypeOK'
  BY Zenon, <1>5, <1>ServesData, <1>FlushData DEF MiotServes
<1> QED  BY Zenon, <1>1, <1>2, <1>3, <1>4, <1>5 DEF Next, Terminated

(***************************************************************************)
(* Every answer is accounted for.                                          *)
(***************************************************************************)
(* What has been written to connection k is legal and will be.             *)
Said(k) == Accounted(k) /\ Legal(wire[k], sent[k])

(* A client without a session has no PINGRESPs recorded.                   *)
Zeroed == \A c \in Clients : session[c] = NoConn => acks[c] = 0

(* The inductive invariant of this part, on top of IInv, LInv and RInv.    *)
WInv == DataTypeOK /\ Zeroed /\ \A k \in Conns : Said(k)

(* No connection gets a session.                                           *)
Later(k) == (Early(k)' => Early(k)) /\ (Taken(k)' => Taken(k))

(* Client c keeps its session and what is recorded for it, or nothing is.  *)
Recorded(c) == (session'[c] = session[c] /\ acks'[c] = acks[c]) \/ acks'[c] = 0

(* The queues of connection k are left alone.                              *)
SameQueues(k) ==
  /\ wire'[k] = wire[k] /\ down'[k] = down[k] /\ up'[k] = up[k]
  /\ net'[k] = net[k] /\ sent'[k] = sent[k]

(* The queues of connection k, typed.                                      *)
LEMMA KnownQueues ==
  ASSUME DataTypeOK, NEW k \in Conns
  PROVE  /\ wire[k] \in Seq(Written) /\ down[k] \in Seq(Written)
         /\ up[k] \in Seq(Packets) /\ net[k] \in Seq(Packets)
         /\ Len(wire[k]) \in Nat /\ Len(down[k]) \in Nat /\ Len(up[k]) \in Nat
         /\ Len(net[k]) \in Nat /\ sent[k] \in Nat /\ Owed(k) \in Nat
         /\ ClientOf[k] \in Clients /\ acks[ClientOf[k]] \in Nat
<1>1. ClientOf[k] \in Clients /\ acks[ClientOf[k]] \in Nat  BY BrokerAssumption DEF DataTypeOK
<1>2. Owed(k) \in Nat  BY <1>1 DEF Owed
<1>3. sent[k] \in Nat
  <2>1. MaxSend \in Nat /\ sent[k] \in 0 .. MaxSend  BY BrokerAssumption DEF DataTypeOK
  <2> QED  BY <2>1
<1>4. down[k] \in Seq(Written)
  <2>1. down[k] \in Seq({"CONNACK", "PINGRESP"})  BY DEF DataTypeOK
  <2> QED  BY <2>1 DEF Written
<1>5. wire[k] \in Seq(Written) /\ up[k] \in Seq(Packets) /\ net[k] \in Seq(Packets)
  BY DEF DataTypeOK, Written
<1>6. /\ Len(wire[k]) \in Nat /\ Len(down[k]) \in Nat /\ Len(up[k]) \in Nat
      /\ Len(net[k]) \in Nat
  BY <1>4, <1>5
<1> QED  BY <1>1, <1>2, <1>3, <1>4, <1>5, <1>6

(* Then the session owes its client no more than before.                   *)
LEMMA OwedLess ==
  ASSUME DataTypeOK, NEW k \in Conns, Recorded(ClientOf[k])
  PROVE  Owed(k)' \in Nat /\ Owed(k)' <= Owed(k)
<1>1. acks[ClientOf[k]] \in Nat /\ Owed(k) \in Nat  BY Zenon, KnownQueues
<1>2. CASE acks'[ClientOf[k]] = 0
  <2>1. Owed(k)' = 0  BY <1>2 DEF Owed
  <2> QED  BY <1>1, <2>1
<1>3. CASE session'[ClientOf[k]] = session[ClientOf[k]] /\ acks'[ClientOf[k]] = acks[ClientOf[k]]
  <2>1. Owed(k)' = Owed(k)  BY Zenon, <1>3 DEF Owed
  <2> QED  BY <1>1, <2>1
<1> QED  BY <1>2, <1>3 DEF Recorded

(* Packets of connection k are moved towards the session or dropped.       *)
LEMMA SaidMoving ==
  ASSUME DataTypeOK, NEW k \in Conns, Said(k),
         wire'[k] = wire[k], down'[k] = down[k], sent'[k] = sent[k],
         ~Early(k)', Taken(k)' => Taken(k), Owed(k)' \in Nat,
         Len(up'[k]) \in Nat, Len(net'[k]) \in Nat,
         Len(up'[k]) + Len(net'[k]) + Owed(k)' <= Len(up[k]) + Len(net[k]) + Owed(k)
  PROVE  Said(k)'
<1>1. Legal(wire[k], sent[k])'
  <2>1. Legal(wire'[k], sent'[k])  BY Zenon DEF Said
  <2> QED  BY Zenon, <2>1 DEF Legal
<1>2. ASSUME Taken(k)' PROVE Opened(k)'
  <2>1. Opened(k)  BY Zenon, <1>2 DEF Said, Accounted
  <2>2. Answers(wire[k] \o down[k])'
    <3>1. Answers(wire'[k] \o down'[k])  BY Zenon, <2>1 DEF Opened
    <3> QED  BY Zenon, <3>1 DEF Answers
  <2>3. Len(wire[k]) + Len(down[k]) + Len(up[k]) + Len(net[k]) + Owed(k) <= sent[k] + 1
    BY Zenon, <2>1 DEF Opened
  <2> DEFINE a == Len(wire[k])
             b == Len(down[k])
             o == Owed(k)
             p == Owed(k)'
             u == Len(up[k])
             v == Len(up'[k])
             x == Len(net[k])
             y == Len(net'[k])
             n == sent[k]
  <2>4. a \in Nat /\ b \in Nat /\ o \in Nat /\ p \in Nat /\ u \in Nat /\ v \in Nat
        /\ x \in Nat /\ y \in Nat /\ n \in Nat
    BY Zenon, KnownQueues
  <2>5. v + y + p <= u + x + o /\ a + b + u + x + o <= n + 1  BY Zenon, <2>3
  <2> HIDE DEF a, b, o, p, u, v, x, y, n
  <2>6. a + b + v + y + p <= n + 1  BY <2>4, <2>5
  <2>7. (Len(wire[k]) + Len(down[k]) + Len(up[k]) + Len(net[k]) + Owed(k) <= sent[k] + 1)'
    BY Zenon, <2>6 DEF a, b, p, v, y, n
  <2> QED  BY Zenon, <2>2, <2>7 DEF Opened
<1> QED  BY Zenon, <1>1, <1>2 DEF Said, Accounted

(* Nothing happens to the queues of connection k.                          *)
LEMMA SaidStill ==
  ASSUME DataTypeOK, NEW k \in Conns, Said(k), SameQueues(k), Later(k),
         Owed(k)' \in Nat, Owed(k)' <= Owed(k)
  PROVE  Said(k)'
<1>1. CASE ~Early(k)'
  <2>1. /\ Owed(k)' \in Nat /\ Owed(k)' <= Owed(k) /\ Owed(k) \in Nat
        /\ Len(up[k]) \in Nat /\ Len(net[k]) \in Nat
    BY Zenon, KnownQueues
  <2>2. /\ wire'[k] = wire[k] /\ down'[k] = down[k] /\ sent'[k] = sent[k]
        /\ up'[k] = up[k] /\ net'[k] = net[k] /\ (Taken(k)' => Taken(k))
    BY Zenon DEF SameQueues, Later
  <2>3. Len(up'[k]) = Len(up[k]) /\ Len(net'[k]) = Len(net[k])  BY Zenon, <2>2
  <2>4. Len(up'[k]) + Len(net'[k]) + Owed(k)' <= Len(up[k]) + Len(net[k]) + Owed(k)
    <3> DEFINE u == Len(up[k])
               x == Len(net[k])
               o == Owed(k)
               p == Owed(k)'
    <3>1. u \in Nat /\ x \in Nat /\ o \in Nat /\ p \in Nat /\ p <= o  BY Zenon, <2>1
    <3> HIDE DEF u, x, o, p
    <3>2. u + x + p <= u + x + o  BY <3>1
    <3> QED  BY Zenon, <2>3, <3>2 DEF u, x, o, p
  <2>5. Len(up'[k]) \in Nat /\ Len(net'[k]) \in Nat  BY Zenon, <2>1, <2>3
  <2> QED  BY Zenon, <1>1, <2>1, <2>2, <2>4, <2>5, SaidMoving
<1>2. CASE Early(k)'
  <2>1. ~Taken(k)'  BY <1>2 DEF Early, Taken
  <2>2. Fresh(k)  BY Zenon, <1>2 DEF Later, Said, Accounted
  <2>3. Fresh(k)'  BY Zenon, <2>2 DEF Fresh, SameQueues
  <2>4. Legal(wire[k], sent[k])'
    <3>1. Legal(wire'[k], sent'[k])  BY Zenon DEF Said, SameQueues
    <3> QED  BY Zenon, <3>1 DEF Legal
  <2> QED  BY Zenon, <2>1, <2>3, <2>4 DEF Said, Accounted
<1> QED  BY Zenon, <1>1, <1>2

(* ... nor to what is recorded for its session.                            *)
LEMMA SaidKept ==
  ASSUME DataTypeOK, NEW k \in Conns, Said(k), SameQueues(k), Later(k), Recorded(ClientOf[k])
  PROVE  Said(k)'
BY Zenon, OwedLess, SaidStill

(* Nor is anything recorded for a client without a session.                *)
LEMMA ZeroedKept ==
  ASSUME Zeroed, \A c \in Clients : Recorded(c)
  PROVE  Zeroed'
BY Zenon DEF Zeroed, Recorded

(* Steps that touch no queue.                                              *)
LEMMA QuietSaid ==
  ASSUME WInv, DataTypeOK', \A k \in Conns : SameQueues(k) /\ Later(k),
         \A c \in Clients : Recorded(c)
  PROVE  WInv'
<1>1. \A k \in Conns : ClientOf[k] \in Clients  BY BrokerAssumption
<1>2. \A k \in Conns : Said(k)'  BY Zenon, <1>1, SaidKept DEF WInv
<1> QED  BY Zenon, <1>2, ZeroedKept DEF WInv

(* Sockets that move without getting a session.                            *)
LEMMA LaterByPlace ==
  ASSUME NEW k \in Conns, sh'[Shard(k)].new = sh[Shard(k)].new,
         \/ place'[k] = place[k] \/ place'[k] = "closed"
         \/ place[k] \in {"none", "handshake"} /\ place'[k] \in {"handshake", "cluster"}
         \/ /\ place[k] \in {"conns", "queued", "held"}
            /\ place'[k] \in {"conns", "queued", "held"}
  PROVE  Later(k)
<1>1. CASE place'[k] = place[k]  BY Zenon, <1>1 DEF Later, Early, Taken
<1>2. CASE place'[k] = "closed"  BY <1>2 DEF Later, Early, Taken
<1>3. CASE place[k] \in {"none", "handshake"} /\ place'[k] \in {"handshake", "cluster"}
  BY <1>3 DEF Later, Early, Taken
<1>4. CASE place[k] \in {"conns", "queued", "held"} /\ place'[k] \in {"conns", "queued", "held"}
  BY <1>4 DEF Later, Early, Taken
<1> QED  BY Zenon, <1>1, <1>2, <1>3, <1>4

(* No queue is touched.                                                    *)
Aside ==
  /\ wire' = wire /\ down' = down /\ up' = up /\ net' = net /\ sent' = sent

(* Such a step keeps the invariant when it opens no session.               *)
LEMMA AsideSaid ==
  ASSUME WInv, DataTypeOK', Aside, \A k \in Conns : Later(k), \A c \in Clients : Recorded(c)
  PROVE  WInv'
<1>1. \A k \in Conns : SameQueues(k)  BY Zenon DEF Aside, SameQueues
<1> QED  BY Zenon, <1>1, QuietSaid

(* The sessions and what is recorded for them are left alone.              *)
LEMMA RecordedSame ==
  ASSUME session' = session, acks' = acks
  PROVE  \A c \in Clients : Recorded(c)
BY Zenon DEF Recorded

(* No socket moves, and no shard changes.                                  *)
LEMMA LaterSame ==
  ASSUME sh' = sh, place' = place
  PROVE  \A k \in Conns : Later(k)
BY Zenon, LaterByPlace

(* Listener, handshakes that succeed, the end of a connection, a reset.    *)
LEMMA ListenerSaid ==
  ASSUME IInv, WInv, DataTypeOK', NEW k \in Conns,
         AcceptConn(k) \/ HandOver(k) \/ ClientEnds(k) \/ SocketReset(k)
  PROVE  WInv'
<1>1. Aside /\ session' = session /\ acks' = acks /\ sh' = sh
  BY DEF Aside, AcceptConn, HandOver, ClientEnds, SocketReset, sockVars
<1>2. \/ place' = place
      \/ /\ place[k] \in {"none", "handshake"}
         /\ \E p \in {"handshake", "cluster", "closed"} : place' = [place EXCEPT ![k] = p]
  BY DEF AcceptConn, HandOver, ClientEnds, SocketReset, sockVars
<1>3. place \in [Conns -> Places]  BY Zenon DEF IInv, ControlTypeOK
<1>4. \A j \in Conns : Later(j)
  <2> SUFFICES ASSUME NEW j \in Conns PROVE Later(j)  OBVIOUS
  <2>1. \/ place'[j] = place[j] \/ place'[j] = "closed"
        \/ place[j] \in {"none", "handshake"} /\ place'[j] \in {"handshake", "cluster"}
    BY <1>2, <1>3
  <2> QED  BY Zenon, <1>1, <2>1, LaterByPlace
<1> QED  BY Zenon, <1>1, <1>4, RecordedSame, AsideSaid

(* A socket goes to the shard in a FlushConnection.                        *)
LEMMA FailsLater ==
  ASSUME IInv, NEW k \in Conns, place[k] = "conns", FailConnection(k), sh' = sh
  PROVE  \A j \in Conns : Later(j)
<1> SUFFICES ASSUME NEW j \in Conns PROVE Later(j)  OBVIOUS
<1>1. place \in [Conns -> Places] /\ place' = [place EXCEPT ![k] = "queued"]
  BY Zenon DEF IInv, ControlTypeOK, FailConnection
<1>2. \/ place'[j] = place[j]
      \/ /\ place[j] \in {"conns", "queued", "held"}
         /\ place'[j] \in {"conns", "queued", "held"}
  BY <1>1
<1> QED  BY Zenon, <1>2, LaterByPlace

(* The end of the stream, or a client that has been silent for too long.   *)
LEMMA FailsSaid ==
  ASSUME IInv, WInv, DataTypeOK', NEW k \in Conns, SocketFin(k) \/ SocketTimeout(k)
  PROVE  WInv'
<1>1. /\ Aside /\ session' = session /\ acks' = acks /\ sh' = sh /\ place[k] = "conns"
      /\ FailConnection(k)
  BY DEF Aside, SocketFin, SocketTimeout, Serving
<1> QED  BY Zenon, <1>1, FailsLater, RecordedSame, AsideSaid

(* The cluster: a socket that is posted to a shard is not yet the one that *)
(* the shard adds.                                                         *)
LEMMA ClusterSaid ==
  ASSUME IInv, LInv, RInv, WInv, DataTypeOK', AskClose \/ ClusterStep
  PROVE  WInv'
<1>1. Aside /\ session' = session /\ acks' = acks /\ sh' = sh
  BY DEF Aside, AskClose, ClusterStep, DrainCluster, HandleAddConnection, HandleClose,
         CloseShard, JoinShard, ExitCluster, sockVars
<1>2. CASE AskClose \/ DrainCluster \/ HandleClose \/ CloseShard \/ JoinShard
  <2>1. place' = place
    BY <1>2 DEF AskClose, DrainCluster, HandleClose, CloseShard, JoinShard, sockVars
  <2> QED  BY Zenon, <1>1, <2>1, LaterSame, RecordedSame, AsideSaid
<1>3. CASE ExitCluster
  <2>1. \A j \in Conns : place'[j] = place[j] \/ place'[j] = "closed"
    BY <1>3 DEF ExitCluster, Dropped
  <2>2. \A j \in Conns : Later(j)  BY Zenon, <1>1, <2>1, LaterByPlace
  <2> QED  BY Zenon, <1>1, <2>2, RecordedSame, AsideSaid
<1>4. CASE HandleAddConnection
  <2>1. /\ place \in [Conns -> Places] /\ cl.batch \in Seq(Requests) /\ ClusterOK
        /\ Waiting(cl.batch)
    BY DEF IInv, ControlTypeOK, ClusterStates, LInv, SocketsOwned, ClusterOwns
  <2>2. cl.batch # <<>> /\ Head(cl.batch).type = "add"
    BY <1>4 DEF HandleAddConnection, Handling
  <2>3. Head(cl.batch) = cl.batch[1] /\ 1 \in 1 .. Len(cl.batch)
    BY Zenon, <2>1, <2>2, TailOfBatch
  <2>4. PICK k \in Conns : k = Head(cl.batch).conn
    BY Zenon, <2>1, <2>2, <2>3 DEF ClusterOK
  <2>5. k # NoConn  BY BrokerAssumption
  <2>6. place[k] = "cluster"  BY Zenon, <2>1, <2>3, <2>4, <2>5 DEF Waiting
  <2>7. place' = place \/ place' = [place EXCEPT ![k] = "shard"]
    BY Zenon, <1>4, <2>4 DEF HandleAddConnection
  <2>8. sh[Shard(k)].new # k
    <3> DEFINE s == Shard(k)
    <3>1. s \in Shards  BY BrokerAssumption DEF Shard
    <3> HIDE DEF s
    <3>2. RequestsPlaced(s) /\ HeldOK(s)  BY Zenon, <3>1 DEF RInv, LInv, SocketsOwned
    <3>3. sh[s].new = k => place[k] = "shard" \/ place[k] \in {"conns", "queued"}
      BY Zenon, <2>5, <3>2 DEF RequestsPlaced, HeldOK
    <3> QED  BY <2>6, <3>3 DEF s
  <2>9. ASSUME NEW j \in Conns PROVE Later(j)
    <3>1. CASE place'[j] = place[j]  BY Zenon, <1>1, <3>1, LaterByPlace
    <3>2. CASE place'[j] # place[j]
      <4>1. j = k  BY <2>1, <2>7, <3>2
      <4>2. place'[k] = "shard"  BY <2>1, <2>7, <3>2, <4>1
      <4>3. Early(k) /\ ~Taken(k)'  BY <1>1, <2>6, <2>8, <4>2 DEF Early, Taken
      <4> QED  BY Zenon, <4>1, <4>3 DEF Later
    <3> QED  BY Zenon, <3>1, <3>2
  <2> QED  BY Zenon, <1>1, <2>9, RecordedSame, AsideSaid
<1> QED  BY Zenon, <1>2, <1>3, <1>4 DEF ClusterStep

(* Steps of a shard that only move its program counter and batch.          *)
LEMMA WorkSaid ==
  ASSUME IInv, WInv, DataTypeOK', NEW s \in Shards,
         Drain(s) \/ DisconnectNext(s) \/ EndIteration(s) \/ CloseRequest(s) \/ MiotGone(s)
  PROVE  WInv'
<1>1. Aside /\ session' = session /\ acks' = acks /\ place' = place
  BY DEF Aside, Drain, DisconnectNext, EndIteration, CloseRequest, MiotGone, sockVars
<1>2. \A t \in Shards : sh'[t].new = sh[t].new
  <2>1. CASE Drain(s)
    <3> DEFINE r == [sh[s] EXCEPT !.pc = "drain", !.batch = sq[s]]
    <3>1. sh' = [sh EXCEPT ![s] = r]  BY Zenon, <2>1, Known DEF Drain
    <3>2. r.new = sh[s].new  BY Known DEF ShardStates
    <3> HIDE DEF r
    <3> QED  BY Zenon, <3>1, <3>2, Known
  <2>2. CASE DisconnectNext(s) \/ EndIteration(s) \/ CloseRequest(s)
    BY Zenon, <2>2, WorkSteps DEF Worked
  <2>3. CASE MiotGone(s)  BY <2>3 DEF MiotGone
  <2> QED  BY Zenon, <2>1, <2>2, <2>3
<1>3. ASSUME NEW j \in Conns PROVE Later(j)
  <2>1. Shard(j) \in Shards  BY BrokerAssumption DEF Shard
  <2> QED  BY Zenon, <1>1, <1>2, <2>1, LaterByPlace
<1> QED  BY Zenon, <1>1, <1>3, RecordedSame, AsideSaid

(* The session is filed; nothing is recorded for it yet.                   *)
LEMMA InsertSessionSaid ==
  ASSUME IInv, LInv, RInv, WInv, DataTypeOK', NEW s \in Shards, InsertSession(s)
  PROVE  WInv'
<1> DEFINE k == sh[s].new
<1>1. /\ sh[s].pc = "insert" /\ ControlOK(s) /\ HeldOK(s)
      /\ session \in [Clients -> Conns \cup {NoConn}]
  BY Zenon, Known DEF InsertSession, At, LInv, SocketsOwned
<1>2. Aside /\ acks' = acks /\ place' = place /\ session' = [session EXCEPT ![ClientOf[k]] = k]
  BY DEF Aside, InsertSession, sockVars
<1>3. k # NoConn /\ session[ClientOf[k]] = NoConn  BY <1>1 DEF ControlOK, InAdd
<1>4. ASSUME NEW c \in Clients PROVE Recorded(c)
  <2>1. CASE c = ClientOf[k]
    <3>1. acks[c] = 0  BY Zenon, <1>3, <2>1 DEF WInv, Zeroed
    <3> QED  BY Zenon, <1>2, <3>1 DEF Recorded
  <2>2. CASE c # ClientOf[k]
    <3>1. session'[c] = session[c]  BY Zenon, <1>1, <1>2, <2>2
    <3> QED  BY Zenon, <1>2, <3>1 DEF Recorded
  <2> QED  BY Zenon, <2>1, <2>2
<1>5. sh'[s].new = NoConn /\ \A t \in Shards : t # s => sh'[t] = sh[t]  BY Zenon, ShardBecomes
<1>6. ASSUME NEW j \in Conns PROVE Later(j)
  <2>1. Shard(j) \in Shards  BY BrokerAssumption DEF Shard
  <2>2. CASE Shard(j) # s  BY Zenon, <1>2, <1>5, <2>1, <2>2, LaterByPlace
  <2>3. CASE Shard(j) = s
    <3>1. place[k] \in {"conns", "queued"}  BY Zenon, <1>1 DEF HeldOK
    <3>2. CASE j = k  BY <1>2, <3>1, <3>2 DEF Later, Early, Taken
    <3>3. CASE j # k
      <4>1. sh[Shard(j)].new # j /\ sh'[Shard(j)].new # j
        BY <1>5, <2>3, <3>3, BrokerAssumption
      <4> QED  BY Zenon, <1>2, <4>1 DEF Later, Early, Taken
    <3> QED  BY Zenon, <3>2, <3>3
  <2> QED  BY Zenon, <2>2, <2>3
<1> QED  BY Zenon, <1>2, <1>4, <1>6, AsideSaid

(* The session of a client is dropped.                                     *)
LEMMA DropRecorded ==
  ASSUME IInv, DataTypeOK, NEW d, DropSession(d)
  PROVE  \A c \in Clients : Recorded(c)
<1>1. /\ session \in [Clients -> Conns \cup {NoConn}] /\ acks \in [Clients -> Nat]
      /\ session' = [session EXCEPT ![d] = NoConn] /\ acks' = [acks EXCEPT ![d] = 0]
  BY Zenon DEF IInv, ControlTypeOK, DataTypeOK, DropSession
<1> SUFFICES ASSUME NEW c \in Clients PROVE Recorded(c)  OBVIOUS
<1>2. CASE c = d
  <2>1. acks'[c] = 0  BY Zenon, <1>1, <1>2
  <2> QED  BY Zenon, <2>1 DEF Recorded
<1>3. CASE c # d
  <2>1. acks'[c] = acks[c] /\ session'[c] = session[c]  BY Zenon, <1>1, <1>3
  <2> QED  BY Zenon, <2>1 DEF Recorded
<1> QED  BY Zenon, <1>2, <1>3

(* A socket goes to the flusher.                                           *)
LEMMA StartFlushSaid ==
  ASSUME IInv, WInv, DataTypeOK', NEW s \in Shards, NEW k \in Conns, NEW ret, NEW b,
         StartFlush(s, k, ret, b), place[k] \in {"queued", "held"}, Aside
  PROVE  WInv'
<1>1. \A t \in Shards : sh'[t].new = sh[t].new
  <2>1. \A j, r, q : StartFlush(s, j, r, q) =>
          /\ sh'[s].new = sh[s].new /\ sh'[s].held = j
          /\ sh'[s].batch = q /\ sh'[s].pc = "flush"
    BY Zenon, ShardBecomes
  <2>2. \E j, r, q : StartFlush(s, j, r, q)  OBVIOUS
  <2>3. \A t \in Shards : t # s => sh'[t] = sh[t]  BY Zenon, <2>2, ShardBecomes
  <2> QED  BY Zenon, <2>1, <2>3
<1>2. /\ place \in [Conns -> Places] /\ place' = [place EXCEPT ![k] = "held"]
      /\ DropSession(ClientOf[k]) /\ DataTypeOK
  BY Zenon DEF IInv, ControlTypeOK, StartFlush, WInv
<1>3. ASSUME NEW j \in Conns PROVE Later(j)
  <2>1. Shard(j) \in Shards  BY BrokerAssumption DEF Shard
  <2>2. sh'[Shard(j)].new = sh[Shard(j)].new  BY Zenon, <1>1, <2>1
  <2>3. \/ place'[j] = place[j]
        \/ /\ place[j] \in {"conns", "queued", "held"}
           /\ place'[j] \in {"conns", "queued", "held"}
    BY <1>2
  <2> QED  BY Zenon, <2>2, <2>3, LaterByPlace
<1>4. \A c \in Clients : Recorded(c)  BY Zenon, <1>2, DropRecorded
<1> QED  BY Zenon, <1>3, <1>4, AsideSaid

(* A FlushConnection is taken from the batch.                              *)
LEMMA FlushRequestSaid ==
  ASSUME IInv, LInv, RInv, WInv, DataTypeOK', NEW s \in Shards, FlushRequest(s)
  PROVE  WInv'
<1> DEFINE k == Head(sh[s].batch).conn
           b == Tail(sh[s].batch)
<1>1. /\ sh[s].batch # <<>> /\ Head(sh[s].batch).type = "flush"
      /\ sh[s].batch \in Seq(Requests) /\ QueuesOK(s) /\ RequestsPlaced(s)
      /\ StartFlush(s, k, "drain", b)
  BY Zenon, Known DEF FlushRequest, RInv
<1>2. Ours(s, Head(sh[s].batch))  BY Zenon, <1>1, AllOursTail DEF QueuesOK
<1>3. k \in Conns  BY Zenon, <1>1, <1>2 DEF Ours
<1>4. Head(sh[s].batch) = sh[s].batch[1] /\ 1 \in 1 .. Len(sh[s].batch)
  BY Zenon, <1>1, TailOfBatch
<1>5. place[k] = "queued"  BY Zenon, <1>1, <1>4 DEF RequestsPlaced, Placed
<1>6. Aside  BY DEF FlushRequest, Aside
<1>7. place[k] \in {"queued", "held"}  BY <1>5
<1> HIDE DEF k, b
<1> QED  BY Zenon, <1>1, <1>3, <1>6, <1>7, StartFlushSaid

(* The miot thread has answered RemoveConnection.                          *)
LEMMA RemovedSaid ==
  ASSUME IInv, LInv, RInv, WInv, DataTypeOK', NEW s \in Shards, Removed(s)
  PROVE  WInv'
<1>1. Aside /\ RequestsPlaced(s)  BY DEF Removed, Aside, RInv
<1>2. \/ Resume(s) /\ session' = session /\ acks' = acks /\ place' = place
      \/ sh' = sh /\ session' = session /\ acks' = acks /\ place' = place
      \/ sh[s].held # NoConn /\ StartFlush(s, sh[s].held, sh[s].ret, sh[s].batch)
  BY Zenon DEF Removed
<1>3. CASE Resume(s) /\ session' = session /\ acks' = acks /\ place' = place
  <2>1. sh'[s].new = sh[s].new /\ \A t \in Shards : t # s => sh'[t] = sh[t]
    BY Zenon, <1>3, ShardBecomes
  <2>2. ASSUME NEW j \in Conns PROVE Later(j)
    <3>1. Shard(j) \in Shards  BY BrokerAssumption DEF Shard
    <3>2. sh'[Shard(j)].new = sh[Shard(j)].new  BY Zenon, <2>1, <3>1
    <3> QED  BY Zenon, <1>3, <3>2, LaterByPlace
  <2> QED  BY Zenon, <1>1, <1>3, <2>2, RecordedSame, AsideSaid
<1>4. CASE sh' = sh /\ session' = session /\ acks' = acks /\ place' = place
  BY Zenon, <1>1, <1>4, LaterSame, RecordedSame, AsideSaid
<1>5. CASE sh[s].held # NoConn /\ StartFlush(s, sh[s].held, sh[s].ret, sh[s].batch)
  <2>1. sh[s].held \in Conns  BY Zenon, <1>5, KnownSockets
  <2>2. place[sh[s].held] = "held"  BY Zenon, <1>1, <1>5 DEF RequestsPlaced
  <2>3. place[sh[s].held] \in {"queued", "held"}  BY <2>2
  <2> QED  BY Zenon, <1>1, <1>5, <2>1, <2>3, StartFlushSaid
<1> QED  BY Zenon, <1>2, <1>3, <1>4, <1>5

(* The shard ends: its sessions go, with what is recorded for them.        *)
LEMMA ExitShardSaid ==
  ASSUME IInv, WInv, DataTypeOK', NEW s \in Shards, ExitShard(s)
  PROVE  WInv'
<1>1. /\ Aside
      /\ session' = [c \in Clients |-> IF ShardOf[c] = s THEN NoConn ELSE session[c]]
      /\ acks' = [c \in Clients |-> IF ShardOf[c] = s THEN 0 ELSE acks[c]]
  BY DEF ExitShard, Aside
<1>2. \A c \in Clients : Recorded(c)  BY <1>1 DEF Recorded
<1>3. \A j \in Conns : place'[j] = place[j] \/ place'[j] = "closed"
  BY DEF ExitShard, Dropped
<1>4. \A t \in Shards : sh'[t].new = sh[t].new
  <2> DEFINE r == [sh[s] EXCEPT !.pc = "exited"]
  <2>1. sh' = sh \/ sh' = [sh EXCEPT ![s] = r]  BY Zenon, Known DEF ExitShard, Goto
  <2>2. r.new = sh[s].new  BY Known DEF ShardStates
  <2> HIDE DEF r
  <2> QED  BY Zenon, <2>1, <2>2, Known
<1>5. ASSUME NEW j \in Conns PROVE Later(j)
  <2>1. Shard(j) \in Shards  BY BrokerAssumption DEF Shard
  <2> QED  BY Zenon, <1>3, <1>4, <2>1, LaterByPlace
<1> QED  BY Zenon, <1>1, <1>2, <1>5, AsideSaid

(* The miot thread takes, gives up or drops sockets for its shard.         *)
LEMMA ServesSaid ==
  ASSUME IInv, LInv, RInv, WInv, DataTypeOK', NEW s \in Shards,
         AddConnection(s) \/ RemoveConnection(s) \/ CloseMiot(s)
  PROVE  WInv'
<1>1. Aside /\ session' = session /\ acks' = acks
  BY DEF AddConnection, RemoveConnection, CloseMiot, Aside
<1>2. \A t \in Shards : sh'[t].new = sh[t].new
  <2>1. \/ sh' = sh \/ sh' = [sh EXCEPT ![s] = [sh[s] EXCEPT !.pc = "insert"]]
        \/ \E h : sh' = [sh EXCEPT ![s] = [sh[s] EXCEPT !.pc = "removed", !.held = h]]
    <3>1. CASE AddConnection(s)  BY Zenon, Known, <3>1 DEF AddConnection
    <3>2. CASE RemoveConnection(s)
      <4> DEFINE h == IF InConns(sh[s].rm) = {} THEN NoConn
                      ELSE CHOOSE k \in InConns(sh[s].rm) : TRUE
      <4>1. sh' = sh \/ sh' = [sh EXCEPT ![s] = [sh[s] EXCEPT !.pc = "removed", !.held = h]]
        BY Zenon, Known, <3>2 DEF RemoveConnection
      <4> HIDE DEF h
      <4> QED  BY Zenon, <4>1
    <3>3. CASE CloseMiot(s)  BY <3>3 DEF CloseMiot
    <3> QED  BY Zenon, <3>1, <3>2, <3>3
  <2>2. ASSUME NEW r, sh' = [sh EXCEPT ![s] = r], r.new = sh[s].new
        PROVE  \A t \in Shards : sh'[t].new = sh[t].new
    BY Zenon, <2>2, Known
  <2>3. [sh[s] EXCEPT !.pc = "insert"].new = sh[s].new  BY Known DEF ShardStates
  <2>4. \A h : [sh[s] EXCEPT !.pc = "removed", !.held = h].new = sh[s].new
    BY Known DEF ShardStates
  <2> QED  BY Zenon, <2>1, <2>2, <2>3, <2>4
<1>3. ASSUME NEW j \in Conns PROVE Later(j)
  <2>1. Shard(j) \in Shards  BY BrokerAssumption DEF Shard
  <2>2. sh'[Shard(j)].new = sh[Shard(j)].new  BY Zenon, <1>2, <2>1
  <2>3. CASE RemoveConnection(s)
    <3>1. \/ place'[j] = place[j]
          \/ place[j] = "conns" /\ place'[j] = "held"
      BY <2>3 DEF RemoveConnection, InConns
    <3>2. \/ place'[j] = place[j]
          \/ /\ place[j] \in {"conns", "queued", "held"}
             /\ place'[j] \in {"conns", "queued", "held"}
      BY <3>1
    <3> QED  BY Zenon, <2>2, <3>2, LaterByPlace
  <2>4. CASE CloseMiot(s)
    <3>1. place'[j] = place[j] \/ place'[j] = "closed"
      BY <2>4 DEF CloseMiot, Dropped
    <3> QED  BY Zenon, <2>2, <3>1, LaterByPlace
  <2>5. CASE AddConnection(s)
    <3> DEFINE k == sh[s].new
    <3>1. sh[s].pc = "add" /\ ControlOK(s)  BY Zenon, <2>5, Known DEF AddConnection
    <3>2. k # NoConn  BY <3>1 DEF ControlOK, InAdd
    <3>3. k \in Conns /\ Shard(k) = s /\ place[k] = "shard"  BY <3>1, <3>2, NewIsAbsent
    <3>4. \/ place' = place
          \/ place' = [Dropped(InConns(ClientOf[k])) EXCEPT ![k] = "conns"]
      BY Zenon, <2>5 DEF AddConnection
    <3> HIDE DEF k
    <3>5. CASE j # k
      <4>1. place'[j] = place[j] \/ place'[j] = "closed"  BY <3>4, <3>5 DEF Dropped
      <4> QED  BY Zenon, <2>2, <4>1, LaterByPlace
    <3>6. CASE j = k
      <4>1. Taken(j)  BY <3>3, <3>6 DEF Taken, k
      <4>2. place'[j] = "conns" \/ place'[j] = place[j]  BY <3>3, <3>4, <3>6 DEF Dropped
      <4>3. CASE place'[j] = "conns"
        <5>1. ~Early(j)'  BY <4>3 DEF Early
        <5> QED  BY Zenon, <4>1, <5>1 DEF Later
      <4>4. CASE place'[j] = place[j]  BY Zenon, <2>2, <4>4, LaterByPlace
      <4> QED  BY Zenon, <4>2, <4>3, <4>4
    <3> QED  BY Zenon, <3>5, <3>6
  <2> QED  BY Zenon, <2>3, <2>4, <2>5
<1> QED  BY Zenon, <1>1, <1>3, RecordedSame, AsideSaid

(* A step at the queues of connection k alone.                             *)
LEMMA OneSaid ==
  ASSUME WInv, DataTypeOK', NEW k \in Conns, Said(k)',
         \A j \in Conns : j # k => SameQueues(j) /\ Later(j),
         \A c \in Clients : Recorded(c)
  PROVE  WInv'
<1>1. \A j \in Conns : ClientOf[j] \in Clients  BY BrokerAssumption
<1>2. \A j \in Conns : j # k => Said(j)'  BY Zenon, <1>1, SaidKept DEF WInv
<1> QED  BY Zenon, <1>2, ZeroedKept DEF WInv

(* What connection k has been told is legal, and what it will be told.     *)
LEMMA SaidOpened ==
  ASSUME NEW k \in Conns, Legal(wire'[k], sent'[k]), ~Early(k)',
         Answers(wire'[k] \o down'[k]),
         Len(wire'[k]) + Len(down'[k]) + Len(up'[k]) + Len(net'[k]) + Owed(k)' <= sent'[k] + 1
  PROVE  Said(k)'
<1>1. Legal(wire[k], sent[k])'  BY Zenon DEF Legal
<1>2. Answers(wire[k] \o down[k])'  BY Zenon DEF Answers
<1>3. (Len(wire[k]) + Len(down[k]) + Len(up[k]) + Len(net[k]) + Owed(k) <= sent[k] + 1)'
  BY Zenon
<1>4. Opened(k)'  BY Zenon, <1>2, <1>3 DEF Opened
<1> QED  BY Zenon, <1>1, <1>4 DEF Said, Accounted

(* A closed connection is told no more.                                    *)
LEMMA SaidClosed ==
  ASSUME NEW k \in Conns, Legal(wire'[k], sent'[k]), place'[k] = "closed"
  PROVE  Said(k)'
<1>1. Legal(wire[k], sent[k])'  BY Zenon DEF Legal
<1>2. ~Early(k)' /\ ~Taken(k)'  BY DEF Early, Taken
<1> QED  BY Zenon, <1>1, <1>2 DEF Said, Accounted

(* The part of Opened that is about numbers.                               *)
LEMMA Counted ==
  ASSUME DataTypeOK, NEW k \in Conns, Opened(k)
  PROVE  /\ Answers(wire[k] \o down[k])
         /\ Len(wire[k]) + Len(down[k]) + Len(up[k]) + Len(net[k]) + Owed(k) <= sent[k] + 1
         /\ Len(wire[k]) + Len(down[k]) <= sent[k] + 1
<1>1. /\ Answers(wire[k] \o down[k])
      /\ Len(wire[k]) + Len(down[k]) + Len(up[k]) + Len(net[k]) + Owed(k) <= sent[k] + 1
  BY Zenon DEF Opened
<1> DEFINE a == Len(wire[k])
           b == Len(down[k])
           u == Len(up[k])
           x == Len(net[k])
           o == Owed(k)
           n == sent[k]
<1>2. a \in Nat /\ b \in Nat /\ u \in Nat /\ x \in Nat /\ o \in Nat /\ n \in Nat
  BY Zenon, KnownQueues
<1>3. a + b + u + x + o <= n + 1  BY Zenon, <1>1
<1> HIDE DEF a, b, u, x, o, n
<1>4. a + b <= n + 1  BY <1>2, <1>3
<1> QED  BY Zenon, <1>1, <1>4 DEF a, b, n

(* The client sends a packet.                                              *)
LEMMA ClientSendsSaid ==
  ASSUME IInv, WInv, DataTypeOK', NEW k \in Conns, ClientSends(k)
  PROVE  WInv'
(* A client may send more than it is answered.                             *)
<1>LegalForMore.
    ASSUME NEW w \in Seq(Written), NEW n \in Nat, NEW m \in Nat, Legal(w, n), n <= m
    PROVE  Legal(w, m)
  <2> USE <1>LegalForMore
  <2>1. CASE w \in {<<>>, <<"REFUSED">>}  BY <2>1 DEF Legal
  <2>2. CASE w \notin {<<>>, <<"REFUSED">>}
    <3>1. \A i \in 2 .. Len(w) : w[i] = "PINGRESP" => i - 1 <= n  BY Zenon, <2>2 DEF Legal
    <3>2. \A i \in 2 .. Len(w) : w[i] = "PINGRESP" => i - 1 <= m  BY <3>1
    <3> QED  BY Zenon, <2>2, <3>2 DEF Legal
  <2> QED  BY <2>1, <2>2

<1>1. /\ wire' = wire /\ down' = down /\ up' = up /\ session' = session /\ acks' = acks
      /\ sh' = sh /\ place' = place /\ place[k] = "conns" /\ DataTypeOK
      /\ sent' = [sent EXCEPT ![k] = sent[k] + 1]
      /\ net \in [Conns -> Seq(Packets)] /\ sent \in [Conns -> 0 .. MaxSend]
  BY DEF ClientSends, WInv, DataTypeOK
<1>2. PICK p \in Sends : net' = [net EXCEPT ![k] = Append(net[k], p)]
  BY Zenon DEF ClientSends
<1>3. p \in Packets /\ net[k] \in Seq(Packets) /\ sent[k] \in Nat
  BY <1>1, KnownQueues, BrokerAssumption
<1>4. Len(Append(net[k], p)) = Len(net[k]) + 1  BY <1>3
<1>5. /\ sent'[k] = sent[k] + 1 /\ net'[k] = Append(net[k], p)
      /\ \A j \in Conns : j # k => sent'[j] = sent[j] /\ net'[j] = net[j]
  BY Zenon, <1>1, <1>2
<1>6. Taken(k) /\ ~Early(k)'  BY <1>1 DEF Taken, Early
<1>7. Opened(k) /\ Legal(wire[k], sent[k])  BY Zenon, <1>6 DEF WInv, Said, Accounted
<1>8. Legal(wire'[k], sent'[k])
  <2>1. wire[k] \in Seq(Written) /\ sent[k] + 1 \in Nat /\ sent[k] <= sent[k] + 1
    BY <1>1, <1>3, KnownQueues
  <2>2. Legal(wire[k], sent[k] + 1)  BY <1>3, <1>7, <2>1, <1>LegalForMore
  <2> QED  BY Zenon, <1>1, <1>5, <2>2
<1>9. Owed(k)' = Owed(k)  BY Zenon, <1>1 DEF Owed
<1>10. Len(wire'[k]) + Len(down'[k]) + Len(up'[k]) + Len(net'[k]) + Owed(k)' <= sent'[k] + 1
  <2> DEFINE a == Len(wire[k])
             b == Len(down[k])
             u == Len(up[k])
             x == Len(net[k])
             o == Owed(k)
             n == sent[k]
  <2>1. a \in Nat /\ b \in Nat /\ u \in Nat /\ x \in Nat /\ o \in Nat /\ n \in Nat
    BY Zenon, <1>1, KnownQueues
  <2>2. a + b + u + x + o <= n + 1  BY Zenon, <1>1, <1>7, Counted
  <2>3. Len(net'[k]) = x + 1 /\ sent'[k] = n + 1  BY Zenon, <1>4, <1>5
  <2>4. Len(wire'[k]) = a /\ Len(down'[k]) = b /\ Len(up'[k]) = u /\ Owed(k)' = o
    BY Zenon, <1>1, <1>9
  <2> HIDE DEF a, b, u, x, o, n
  <2>5. a + b + u + (x + 1) + o <= (n + 1) + 1  BY <2>1, <2>2
  <2> QED  BY Zenon, <2>3, <2>4, <2>5
<1>11. Answers(wire'[k] \o down'[k])  BY Zenon, <1>1, <1>7 DEF Opened
<1>12. Said(k)'  BY Zenon, <1>6, <1>8, <1>10, <1>11, SaidOpened
<1>13. \A j \in Conns : j # k => SameQueues(j) /\ Later(j)
  BY Zenon, <1>1, <1>5, LaterSame DEF SameQueues
<1> QED  BY Zenon, <1>1, <1>12, <1>13, RecordedSame, OneSaid

(* A packet goes from the socket to the session, or is dropped with the    *)
(* failed connection.                                                      *)
LEMMA SocketToSessionSaid ==
  ASSUME IInv, WInv, DataTypeOK', NEW k \in Conns, SocketToSession(k)
  PROVE  WInv'
<1>1. /\ wire' = wire /\ down' = down /\ sent' = sent /\ session' = session /\ acks' = acks
      /\ sh' = sh /\ place[k] = "conns" /\ DataTypeOK /\ net[k] # <<>>
      /\ net' = [net EXCEPT ![k] = Tail(net[k])]
      /\ net \in [Conns -> Seq(Packets)] /\ up \in [Conns -> Seq(Packets)]
  BY DEF SocketToSession, Serving, WInv, DataTypeOK
<1>2. \/ FailConnection(k) /\ up' = up
      \/ up' = [up EXCEPT ![k] = Append(up[k], Head(net[k]))] /\ place' = place
  BY Zenon DEF SocketToSession
<1>3. \A j \in Conns : Later(j)
  BY Zenon, <1>1, <1>2, FailsLater, LaterSame
<1>4. /\ net'[k] = Tail(net[k])
      /\ up'[k] = up[k] \/ up'[k] = Append(up[k], Head(net[k]))
      /\ \A j \in Conns : j # k => up'[j] = up[j] /\ net'[j] = net[j]
  BY Zenon, <1>1, <1>2
<1>5. /\ net[k] \in Seq(Packets) /\ up[k] \in Seq(Packets) /\ Len(up[k]) \in Nat
      /\ Len(net[k]) \in Nat /\ Owed(k) \in Nat /\ Head(net[k]) \in Packets
  <2>1. net[k] \in Seq(Packets)  BY Zenon, <1>1, KnownQueues
  <2>2. Head(net[k]) \in Packets  BY <1>1, <2>1
  <2> QED  BY Zenon, <1>1, <2>2, KnownQueues
<1>6. Len(Tail(net[k])) = Len(net[k]) - 1 /\ Len(net[k]) >= 1  BY <1>1, <1>5
<1>7. Len(Append(up[k], Head(net[k]))) = Len(up[k]) + 1  BY <1>5
<1>8. Taken(k) /\ ~Early(k)'
  <2>1. Taken(k) /\ ~Early(k)  BY <1>1 DEF Taken, Early
  <2> QED  BY Zenon, <1>3, <2>1 DEF Later
<1>9. Owed(k)' = Owed(k)  BY Zenon, <1>1 DEF Owed
<1>10. /\ Len(up'[k]) \in Nat /\ Len(net'[k]) \in Nat /\ Owed(k)' \in Nat
       /\ Len(up'[k]) + Len(net'[k]) + Owed(k)' <= Len(up[k]) + Len(net[k]) + Owed(k)
  <2> DEFINE u == Len(up[k])
             x == Len(net[k])
             o == Owed(k)
  <2>1. u \in Nat /\ x \in Nat /\ o \in Nat /\ x >= 1  BY Zenon, <1>5, <1>6
  <2>2. Len(net'[k]) = x - 1 /\ Owed(k)' = o  BY Zenon, <1>4, <1>6, <1>9
  <2>3. Len(up'[k]) = u \/ Len(up'[k]) = u + 1  BY Zenon, <1>4, <1>7
  <2> HIDE DEF u, x, o
  <2>4. /\ x - 1 \in Nat /\ u + 1 \in Nat
        /\ u + (x - 1) + o <= u + x + o /\ (u + 1) + (x - 1) + o <= u + x + o
    BY <2>1
  <2>5. Len(up'[k]) + Len(net'[k]) + Owed(k)' <= u + x + o  BY Zenon, <2>2, <2>3, <2>4
  <2> QED  BY Zenon, <2>1, <2>2, <2>3, <2>4, <2>5 DEF u, x, o
<1>11. Said(k)'
  <2>1. Said(k)  BY Zenon DEF WInv
  <2>2. wire'[k] = wire[k] /\ down'[k] = down[k] /\ sent'[k] = sent[k]  BY Zenon, <1>1
  <2> QED  BY Zenon, <1>1, <1>8, <1>10, <2>1, <2>2, SaidMoving
<1>12. \A j \in Conns : j # k => SameQueues(j) /\ Later(j)
  BY Zenon, <1>1, <1>3, <1>4 DEF SameQueues
<1> QED  BY Zenon, <1>1, <1>11, <1>12, RecordedSame, OneSaid

(* The miot thread writes what the session has queued.                     *)
LEMMA SessionToSocketSaid ==
  ASSUME IInv, WInv, DataTypeOK', NEW k \in Conns, SessionToSocket(k)
  PROVE  WInv'
(***************************************************************************)
(* Legal words.                                                            *)
(***************************************************************************)
(* Answers to no more packets than the client sent are a legal thing to    *)
(* write, ...                                                              *)
<1>AnswersAreLegal.
    ASSUME NEW w \in Seq(Written), NEW n \in Nat, Answers(w), Len(w) <= n + 1
    PROVE  Legal(w, n)
  <2> USE <1>AnswersAreLegal
  <2>1. /\ Len(w) \in Nat /\ Len(w) >= 1 /\ w[1] = "CONNACK"
        /\ \A i \in 2 .. Len(w) : w[i] = "PINGRESP"
    BY DEF Answers
  <2>2. \A i \in 2 .. Len(w) : i - 1 <= n  BY <2>1
  <2> QED  BY <2>1, <2>2 DEF Legal

<1>1. /\ up' = up /\ net' = net /\ sent' = sent /\ session' = session /\ acks' = acks
      /\ sh' = sh /\ place[k] = "conns" /\ DataTypeOK
      /\ wire \in [Conns -> Seq({"REFUSED", "CONNACK", "PINGRESP", "DISCONNECT"})]
      /\ down \in [Conns -> Seq({"CONNACK", "PINGRESP"})]
  BY DEF SessionToSocket, Serving, WInv, DataTypeOK
<1>2. \/ FailConnection(k) /\ wire' = wire /\ down' = down
      \/ /\ wire' = [wire EXCEPT ![k] = wire[k] \o down[k]]
         /\ down' = [down EXCEPT ![k] = <<>>] /\ place' = place
  BY Zenon DEF SessionToSocket
<1>3. CASE FailConnection(k) /\ wire' = wire /\ down' = down
  <2>1. Aside  BY Zenon, <1>1, <1>3 DEF Aside
  <2> QED  BY Zenon, <1>1, <1>3, <2>1, FailsLater, RecordedSame, AsideSaid
<1>4. CASE /\ wire' = [wire EXCEPT ![k] = wire[k] \o down[k]]
           /\ down' = [down EXCEPT ![k] = <<>>] /\ place' = place
  <2>1. /\ wire'[k] = wire[k] \o down[k] /\ down'[k] = <<>>
        /\ \A j \in Conns : j # k => wire'[j] = wire[j] /\ down'[j] = down[j]
    BY Zenon, <1>1, <1>4
  <2>2. Taken(k) /\ ~Early(k)'  BY <1>1, <1>4 DEF Taken, Early
  <2>3. Opened(k)  BY Zenon, <2>2 DEF WInv, Said, Accounted
  <2>4. /\ Answers(wire[k] \o down[k]) /\ Len(wire[k]) + Len(down[k]) <= sent[k] + 1
        /\ Len(wire[k]) + Len(down[k]) + Len(up[k]) + Len(net[k]) + Owed(k) <= sent[k] + 1
    BY Zenon, <1>1, <2>3, Counted
  <2>5. wire[k] \in Seq(Written) /\ down[k] \in Seq(Written) /\ sent[k] \in Nat
    BY Zenon, <1>1, KnownQueues
  <2>6. /\ wire[k] \o down[k] \in Seq(Written)
        /\ Len(wire[k] \o down[k]) = Len(wire[k]) + Len(down[k])
        /\ (wire[k] \o down[k]) \o <<>> = wire[k] \o down[k] /\ Len(<<>>) = 0
    BY <2>5
  <2>7. Legal(wire'[k], sent'[k])
    <3>1. Len(wire[k] \o down[k]) <= sent[k] + 1  BY Zenon, <2>4, <2>6
    <3>2. Legal(wire[k] \o down[k], sent[k])  BY Zenon, <2>4, <2>5, <2>6, <3>1, <1>AnswersAreLegal
    <3> QED  BY Zenon, <1>1, <2>1, <3>2
  <2>8. Answers(wire'[k] \o down'[k])  BY Zenon, <2>1, <2>4, <2>6
  <2>9. Owed(k)' = Owed(k)  BY Zenon, <1>1 DEF Owed
  <2>10. Len(wire'[k]) + Len(down'[k]) + Len(up'[k]) + Len(net'[k]) + Owed(k)' <= sent'[k] + 1
    <3> DEFINE a == Len(wire[k])
               b == Len(down[k])
    <3>1. a \in Nat /\ b \in Nat  BY Zenon, <1>1, KnownQueues
    <3>2. Len(wire'[k]) = a + b /\ Len(down'[k]) = 0  BY Zenon, <2>1, <2>6
    <3>3. a + b + Len(up[k]) + Len(net[k]) + Owed(k) <= sent[k] + 1  BY Zenon, <2>4
    <3> HIDE DEF a, b
    <3>4. (a + b) + 0 = a + b  BY <3>1
    <3> QED  BY Zenon, <1>1, <2>9, <3>2, <3>3, <3>4
  <2>11. Said(k)'  BY Zenon, <2>2, <2>7, <2>8, <2>10, SaidOpened
  <2>12. \A j \in Conns : j # k => SameQueues(j) /\ Later(j)
    BY Zenon, <1>1, <1>4, <2>1, LaterSame DEF SameQueues
  <2> QED  BY Zenon, <1>1, <2>11, <2>12, RecordedSame, OneSaid
<1> QED  BY Zenon, <1>2, <1>3, <1>4

(* A handshake fails: its connection has heard nothing yet.                *)
LEMMA HandshakeFailsSaid ==
  ASSUME IInv, WInv, DataTypeOK', NEW k \in Conns, HandshakeFails(k)
  PROVE  WInv'
<1>1. /\ sent' = sent /\ net' = net /\ up' = up /\ down' = down /\ session' = session
      /\ acks' = acks /\ sh' = sh /\ place' = [place EXCEPT ![k] = "closed"]
      /\ wire' = wire \/ wire' = [wire EXCEPT ![k] = <<"REFUSED">>]
      /\ place \in [Conns -> Places]
      /\ wire \in [Conns -> Seq({"REFUSED", "CONNACK", "PINGRESP", "DISCONNECT"})]
  BY DEF HandshakeFails, WInv, DataTypeOK, IInv, ControlTypeOK
<1>2. /\ place'[k] = "closed" /\ (wire'[k] = wire[k] \/ wire'[k] = <<"REFUSED">>)
      /\ \A j \in Conns : j # k => place'[j] = place[j] /\ wire'[j] = wire[j]
  BY Zenon, <1>1
<1>3. Legal(wire'[k], sent'[k])
  <2>1. Legal(wire[k], sent[k])  BY Zenon DEF WInv, Said
  <2>2. Legal(<<"REFUSED">>, sent[k])  BY Zenon DEF Legal
  <2> QED  BY Zenon, <1>1, <1>2, <2>1, <2>2
<1>4. Said(k)'  BY Zenon, <1>2, <1>3, SaidClosed
<1>5. \A j \in Conns : j # k => SameQueues(j) /\ Later(j)
  BY Zenon, <1>1, <1>2, LaterByPlace DEF SameQueues
<1> QED  BY Zenon, <1>1, <1>4, <1>5, RecordedSame, OneSaid

(* The flusher writes what is left, and DISCONNECT as the last packet.     *)
LEMMA FlushConnectionSaid ==
  ASSUME IInv, LInv, RInv, WInv, DataTypeOK', NEW s \in Shards, FlushConnection(s)
  PROVE  WInv'
(* ... and all of them with a DISCONNECT at the end.                       *)
<1>DisconnectIsLegal. ASSUME NEW w \in Seq(Written), NEW d \in Seq(Written), NEW n \in Nat,
                             Answers(w \o d), Len(w) + Len(d) <= n + 1
                      PROVE  Legal(w \o Append(d, "DISCONNECT"), n)
  <2> USE <1>DisconnectIsLegal
  <2> DEFINE q == w \o d
             e == w \o Append(d, "DISCONNECT")
  <2>1. /\ q \in Seq(Written) /\ Len(q) \in Nat /\ Len(q) = Len(w) + Len(d) /\ Len(q) <= n + 1
    OBVIOUS
  <2>2. Append(d, "DISCONNECT") \in Seq(Written)  BY DEF Written
  <2>3. /\ e \in Seq(Written) /\ Len(e) = Len(q) + 1 /\ e[Len(q) + 1] = "DISCONNECT"
        /\ \A i \in 1 .. Len(q) : e[i] = q[i]
    BY <2>1, <2>2
  <2> HIDE DEF q, e
  <2>4. Len(q) >= 1 /\ q[1] = "CONNACK" /\ \A i \in 2 .. Len(q) : q[i] = "PINGRESP"
    <3>1. Answers(q)  BY DEF q
    <3> QED  BY <2>1, <3>1 DEF Answers
  <2>5. ASSUME NEW i \in 2 .. Len(e), e[i] = "PINGRESP"
        PROVE  i - 1 <= n
    <3>1. i # Len(q) + 1
      <4>1. e[Len(q) + 1] # "PINGRESP"  BY <2>3
      <4> QED  BY Zenon, <2>5, <4>1
    <3>2. Len(q) \in Nat /\ Len(e) = Len(q) + 1 /\ Len(q) <= n + 1  BY Zenon, <2>1, <2>3
    <3> QED  BY <3>1, <3>2
  <2>6. e[1] = "CONNACK" /\ \A i \in 2 .. Len(e) - 1 : e[i] = "PINGRESP"
    BY <2>1, <2>3, <2>4
  <2>7. e[Len(e)] = "DISCONNECT"  BY <2>3
  <2>8. Legal(e, n)  BY <2>5, <2>6, <2>7 DEF Legal
  <2> QED  BY <2>8 DEF e

<1>1. /\ sh[s].pc = "flush" /\ sent' = sent /\ session' = session /\ acks' = acks
      /\ RequestsPlaced(s) /\ ControlOK(s) /\ place \in [Conns -> Places] /\ DataTypeOK
  BY Zenon, Known DEF FlushConnection, At, RInv, WInv
<1>2. sh[s].held # NoConn  BY Zenon, <1>1 DEF ControlOK
<1>3. PICK k \in Conns : k = sh[s].held  BY Zenon, <1>2, KnownSockets
<1>4. place[k] = "held"  BY Zenon, <1>1, <1>2, <1>3 DEF RequestsPlaced
<1>5. \/ Aside /\ place' = place /\ sh' = sh
      \/ /\ wire' = [wire EXCEPT ![k] = wire[k] \o Append(down[k], "DISCONNECT")]
         /\ down' = [down EXCEPT ![k] = <<>>] /\ up' = [up EXCEPT ![k] = <<>>]
         /\ net' = [net EXCEPT ![k] = <<>>] /\ place' = [place EXCEPT ![k] = "closed"]
         /\ Resume(s)
  BY Zenon, <1>3 DEF FlushConnection, Aside
<1>6. CASE Aside /\ place' = place /\ sh' = sh
  BY Zenon, <1>1, <1>6, LaterSame, RecordedSame, AsideSaid
<1>7. CASE /\ wire' = [wire EXCEPT ![k] = wire[k] \o Append(down[k], "DISCONNECT")]
           /\ down' = [down EXCEPT ![k] = <<>>] /\ up' = [up EXCEPT ![k] = <<>>]
           /\ net' = [net EXCEPT ![k] = <<>>] /\ place' = [place EXCEPT ![k] = "closed"]
           /\ Resume(s)
  <2>1. sh'[s].new = sh[s].new /\ \A t \in Shards : t # s => sh'[t] = sh[t]
    BY Zenon, <1>7, ShardBecomes
  <2>2. /\ wire \in [Conns -> Seq({"REFUSED", "CONNACK", "PINGRESP", "DISCONNECT"})]
        /\ down \in [Conns -> Seq({"CONNACK", "PINGRESP"})]
        /\ up \in [Conns -> Seq(Packets)] /\ net \in [Conns -> Seq(Packets)]
    BY Zenon, <1>1 DEF DataTypeOK
  <2>3. /\ place'[k] = "closed" /\ wire'[k] = wire[k] \o Append(down[k], "DISCONNECT")
        /\ \A j \in Conns : j # k => /\ wire'[j] = wire[j] /\ down'[j] = down[j]
                                     /\ up'[j] = up[j] /\ net'[j] = net[j]
                                     /\ place'[j] = place[j]
    BY Zenon, <1>1, <1>3, <1>7, <2>2
  <2>4. Taken(k)  BY <1>4 DEF Taken
  <2>5. Opened(k)  BY Zenon, <1>3, <2>4 DEF WInv, Said, Accounted
  <2>6. /\ Answers(wire[k] \o down[k]) /\ Len(wire[k]) + Len(down[k]) <= sent[k] + 1
        /\ wire[k] \in Seq(Written) /\ down[k] \in Seq(Written) /\ sent[k] \in Nat
    BY Zenon, <1>1, <1>3, <2>5, Counted, KnownQueues
  <2>7. Legal(wire[k] \o Append(down[k], "DISCONNECT"), sent[k])
    BY Zenon, <2>6, <1>DisconnectIsLegal
  <2>8. Legal(wire'[k], sent'[k])  BY Zenon, <1>1, <2>3, <2>7
  <2>9. Said(k)'  BY Zenon, <1>3, <2>3, <2>8, SaidClosed
  <2>10. ASSUME NEW j \in Conns, j # k PROVE SameQueues(j) /\ Later(j)
    <3>1. Shard(j) \in Shards  BY BrokerAssumption DEF Shard
    <3>2. sh'[Shard(j)].new = sh[Shard(j)].new  BY Zenon, <2>1, <3>1
    <3>3. Later(j)  BY Zenon, <2>3, <2>10, <3>2, LaterByPlace
    <3> QED  BY Zenon, <1>1, <2>3, <2>10, <3>3 DEF SameQueues
  <2> QED  BY Zenon, <1>1, <1>3, <2>9, <2>10, RecordedSame, OneSaid
<1> QED  BY Zenon, <1>5, <1>6, <1>7

(* An AddSession: CONNACK is the first packet in the new queue.            *)
LEMMA AddSessionSaid ==
  ASSUME IInv, LInv, RInv, WInv, DataTypeOK', NEW s \in Shards, AddSession(s)
  PROVE  WInv'
<1>1. /\ sh[s].batch # <<>> /\ sh[s].batch \in Seq(Requests)
      /\ Head(sh[s].batch).type = "add" /\ RequestsPlaced(s) /\ QueuesOK(s)
      /\ sent' = sent /\ net' = net /\ wire' = wire /\ up' = up /\ place' = place
      /\ down \in [Conns -> Seq({"CONNACK", "PINGRESP"})] /\ DataTypeOK
      /\ session \in [Clients -> Conns \cup {NoConn}]
  BY Zenon, Known DEF AddSession, RInv, WInv, DataTypeOK
<1>2. PICK k \in Conns :
           /\ k = Head(sh[s].batch).conn /\ Shard(k) = s /\ k # NoConn
           /\ \/ sh' = sh /\ session' = session /\ acks' = acks /\ down' = down
              \/ /\ sh'[s].batch = Tail(sh[s].batch) /\ sh'[s].new = k
                 /\ sh'[s].held = sh[s].held
                 /\ \A t \in Shards : t # s => sh'[t] = sh[t]
                 /\ session' = [session EXCEPT ![ClientOf[k]] = NoConn]
                 /\ acks' = [acks EXCEPT ![ClientOf[k]] = 0]
                 /\ down' = [down EXCEPT ![k] = <<"CONNACK">>]
  BY Zenon, AddSessionBecomes
<1>3. CASE sh' = sh /\ session' = session /\ acks' = acks /\ down' = down
  <2>1. Aside  BY Zenon, <1>1, <1>3 DEF Aside
  <2> QED  BY Zenon, <1>1, <1>3, <2>1, LaterSame, RecordedSame, AsideSaid
<1>4. CASE /\ sh'[s].new = k /\ \A t \in Shards : t # s => sh'[t] = sh[t]
           /\ session' = [session EXCEPT ![ClientOf[k]] = NoConn]
           /\ acks' = [acks EXCEPT ![ClientOf[k]] = 0]
           /\ down' = [down EXCEPT ![k] = <<"CONNACK">>]
  <2>1. Head(sh[s].batch) = sh[s].batch[1] /\ 1 \in 1 .. Len(sh[s].batch)
    BY Zenon, <1>1, TailOfBatch
  <2>2. place[k] = "shard"  BY Zenon, <1>1, <1>2, <2>1 DEF RequestsPlaced, Placed
  <2>3. sh[s].new = NoConn  BY Zenon, <1>1, <2>1 DEF QueuesOK, NoAdd
  <2>4. Early(k)  BY Zenon, <1>2, <2>2, <2>3 DEF Early
  <2>5. Fresh(k)  BY Zenon, <2>4 DEF WInv, Said, Accounted
  <2>6. down'[k] = <<"CONNACK">> /\ \A j \in Conns : j # k => down'[j] = down[j]
    BY Zenon, <1>1, <1>4
  <2>7. wire'[k] = <<>> /\ up'[k] = <<>> /\ net'[k] = net[k] /\ Len(net[k]) <= sent[k]
        /\ sent'[k] = sent[k]
    BY Zenon, <1>1, <2>5 DEF Fresh
  <2>8. Legal(wire'[k], sent'[k])  BY Zenon, <2>7 DEF Legal
  <2>9. Answers(wire'[k] \o down'[k])
    <3>1. <<>> \o <<"CONNACK">> = <<"CONNACK">>  OBVIOUS
    <3>2. Answers(<<"CONNACK">>)  BY DEF Answers
    <3> QED  BY Zenon, <2>6, <2>7, <3>1, <3>2
  <2>10. Owed(k)' = 0
    <3>1. ClientOf[k] \in Clients  BY BrokerAssumption
    <3>2. session'[ClientOf[k]] = NoConn  BY Zenon, <1>1, <1>4, <3>1
    <3> QED  BY Zenon, <1>2, <3>2 DEF Owed
  <2>11. Len(wire'[k]) + Len(down'[k]) + Len(up'[k]) + Len(net'[k]) + Owed(k)' <= sent'[k] + 1
    <3> DEFINE x == Len(net[k])
               n == sent[k]
    <3>1. x \in Nat /\ n \in Nat /\ x <= n  BY Zenon, <1>1, <2>7, KnownQueues
    <3>2. Len(<<>>) = 0 /\ Len(<<"CONNACK">>) = 1  OBVIOUS
    <3>3. /\ Len(wire'[k]) = 0 /\ Len(down'[k]) = 1 /\ Len(up'[k]) = 0 /\ Len(net'[k]) = x
          /\ sent'[k] = n
      BY Zenon, <2>6, <2>7, <3>2
    <3> HIDE DEF x, n
    <3>4. 0 + 1 + 0 + x + 0 <= n + 1  BY <3>1
    <3> QED  BY Zenon, <2>10, <3>3, <3>4
  <2>12. ~Early(k)'
    <3>1. place'[k] = "shard" /\ sh'[Shard(k)].new = k  BY Zenon, <1>1, <1>2, <1>4, <2>2
    <3> QED  BY <3>1 DEF Early
  <2>13. Said(k)'  BY Zenon, <2>8, <2>9, <2>11, <2>12, SaidOpened
  <2>14. ASSUME NEW j \in Conns, j # k PROVE SameQueues(j) /\ Later(j)
    <3>1. Shard(j) \in Shards /\ j # NoConn  BY BrokerAssumption DEF Shard
    <3>2. CASE Shard(j) # s
      <4>1. sh'[Shard(j)].new = sh[Shard(j)].new  BY Zenon, <1>4, <3>1, <3>2
      <4> QED  BY Zenon, <1>1, <2>6, <2>14, <4>1, LaterByPlace DEF SameQueues
    <3>3. CASE Shard(j) = s
      <4>1. sh[Shard(j)].new # j /\ sh'[Shard(j)].new # j  BY <1>4, <2>3, <2>14, <3>1, <3>3
      <4>2. Later(j)  BY Zenon, <1>1, <4>1 DEF Later, Early, Taken
      <4> QED  BY Zenon, <1>1, <2>6, <2>14, <4>2 DEF SameQueues
    <3> QED  BY Zenon, <3>2, <3>3
  <2>15. DropSession(ClientOf[k])  BY Zenon, <1>4 DEF DropSession
  <2>16. \A c \in Clients : Recorded(c)  BY Zenon, <1>1, <2>15, DropRecorded
  <2> QED  BY Zenon, <2>13, <2>14, <2>16, OneSaid
<1> QED  BY Zenon, <1>2, <1>3, <1>4

(* The socket of a session is open while its shard routes packets and      *)
(* commits acknowledgements.                                               *)
LEMMA SocketIsOpen ==
  ASSUME IInv, LInv, NEW s \in Shards, sh[s].pc \in {"drain", "failed"},
         NEW c \in Clients, ShardOf[c] = s, session[c] # NoConn
  PROVE  /\ session[c] \in Conns /\ ClientOf[session[c]] = c
         /\ place[session[c]] \in {"conns", "queued"}
<1>1. HeldOK(s)  BY Zenon DEF LInv, SocketsOwned
<1>2. sh[s].held = NoConn /\ sh[s].pc # "close"  BY <1>1 DEF HeldOK
<1>3. /\ session[c] \in Conns /\ ClientOf[session[c]] = c
      /\ \/ place[session[c]] \in {"conns", "queued"}
         \/ session[c] = sh[s].held \/ sh[s].pc = "close"
  BY Zenon, KnownSockets
<1> QED  BY <1>2, <1>3

(* route_packets answers at most as many packets as it takes.              *)
LEMMA RoutePacketsSaid ==
  ASSUME IInv, LInv, WInv, DataTypeOK', NEW s \in Shards, RoutePackets(s)
  PROVE  WInv'
<1>1. /\ sent' = sent /\ net' = net /\ wire' = wire /\ down' = down
      /\ place' = place /\ session' = session /\ sh[s].pc = "drain"
      /\ session \in [Clients -> Conns \cup {NoConn}] /\ DataTypeOK
  BY Zenon, Known DEF RoutePackets, At, WInv
<1>2. \/ up' = up /\ acks' = acks
      \/ /\ up' = [k \in Conns |-> IF \E c \in Sessions(s) : session[c] = k THEN <<>> ELSE up[k]]
         /\ acks' = [c \in Clients |->
                       IF c \in Sessions(s) /\ StopsAt(up[session[c]]) = "none"
                         THEN acks[c] + Len(up[session[c]]) ELSE acks[c]]
  BY Zenon DEF RoutePackets
<1>3. ASSUME NEW j \in Conns PROVE Later(j)
  <2>1. Shard(j) \in Shards  BY BrokerAssumption DEF Shard
  <2>2. sh'[Shard(j)].new = sh[Shard(j)].new  BY Zenon, <2>1, WorkSteps DEF Worked
  <2> QED  BY Zenon, <1>1, <2>2, LaterByPlace
<1>4. CASE up' = up /\ acks' = acks
  <2>1. Aside  BY Zenon, <1>1, <1>4 DEF Aside
  <2> QED  BY Zenon, <1>1, <1>3, <1>4, <2>1, RecordedSame, AsideSaid
<1>5. CASE /\ up' = [k \in Conns |->
                       IF \E c \in Sessions(s) : session[c] = k THEN <<>> ELSE up[k]]
           /\ acks' = [c \in Clients |->
                         IF c \in Sessions(s) /\ StopsAt(up[session[c]]) = "none"
                           THEN acks[c] + Len(up[session[c]]) ELSE acks[c]]
  <2>1. \A c \in Sessions(s) : /\ c \in Clients /\ ShardOf[c] = s /\ session[c] # NoConn
                               /\ session[c] \in Conns /\ ClientOf[session[c]] = c
                               /\ place[session[c]] \in {"conns", "queued"}
    <3> SUFFICES ASSUME NEW c \in Sessions(s)
                 PROVE  /\ c \in Clients /\ ShardOf[c] = s /\ session[c] # NoConn
                        /\ session[c] \in Conns /\ ClientOf[session[c]] = c
                        /\ place[session[c]] \in {"conns", "queued"}
      OBVIOUS
    <3>1. c \in Clients /\ ShardOf[c] = s /\ session[c] # NoConn  BY DEF Sessions
    <3>2. sh[s].pc \in {"drain", "failed"}  BY <1>1
    <3> QED  BY Zenon, <3>1, <3>2, SocketIsOpen
  <2>2. Zeroed'
    <3> SUFFICES ASSUME NEW c \in Clients, session'[c] = NoConn PROVE acks'[c] = 0
      BY DEF Zeroed
    <3>1. c \notin Sessions(s)  BY Zenon, <1>1, <2>1
    <3>2. acks'[c] = acks[c]  BY Zenon, <1>5, <3>1
    <3> QED  BY Zenon, <1>1, <3>2 DEF WInv, Zeroed
  <2>3. ASSUME NEW j \in Conns PROVE Said(j)'
    <3> DEFINE d == ClientOf[j]
    <3>1. /\ Said(j) /\ d \in Clients /\ acks[d] \in Nat /\ Owed(j) \in Nat
          /\ Len(up[j]) \in Nat /\ Len(net[j]) \in Nat
      BY Zenon, <1>1, KnownQueues DEF WInv
    <3>2. wire'[j] = wire[j] /\ down'[j] = down[j] /\ sent'[j] = sent[j] /\ net'[j] = net[j]
      BY Zenon, <1>1
    <3>3. CASE d \in Sessions(s) /\ session[d] = j
      <4>1. up'[j] = <<>> /\ Len(<<>>) = 0
        <5>1. up'[j] = <<>>  BY Zenon, <1>5, <3>3
        <5> QED  BY <5>1
      <4>2. acks'[d] = acks[d] + Len(up[j]) \/ acks'[d] = acks[d]  BY Zenon, <1>5, <3>1, <3>3
      <4>3. Owed(j) = acks[d] /\ Owed(j)' = acks'[d]  BY Zenon, <1>1, <3>3 DEF Owed
      <4>4. place[j] \in {"conns", "queued"}  BY Zenon, <2>1, <3>3
      <4>5. Taken(j) /\ ~Early(j)  BY <4>4 DEF Taken, Early
      <4>6. ~Early(j)' /\ (Taken(j)' => Taken(j))  BY Zenon, <1>3, <4>5 DEF Later
      <4>7. /\ Owed(j)' \in Nat /\ Len(up'[j]) \in Nat /\ Len(net'[j]) \in Nat
            /\ Len(up'[j]) + Len(net'[j]) + Owed(j)' <= Len(up[j]) + Len(net[j]) + Owed(j)
        <5> DEFINE u == Len(up[j])
                   x == Len(net[j])
                   o == acks[d]
                   p == acks'[d]
        <5>1. u \in Nat /\ x \in Nat /\ o \in Nat /\ (p = o + u \/ p = o)
          BY Zenon, <3>1, <4>2
        <5>2. Len(up'[j]) = 0 /\ Len(net'[j]) = x /\ Owed(j)' = p /\ Owed(j) = o
          BY Zenon, <3>2, <4>1, <4>3
        <5> HIDE DEF u, x, o, p
        <5>3. p \in Nat /\ 0 \in Nat /\ 0 + x + p <= u + x + o  BY <5>1
        <5> QED  BY Zenon, <5>1, <5>2, <5>3 DEF u, x
      <4> QED  BY Zenon, <1>1, <3>1, <3>2, <4>6, <4>7, SaidMoving
    <3>4. CASE ~(d \in Sessions(s) /\ session[d] = j)
      <4>1. ~\E c \in Sessions(s) : session[c] = j  BY Zenon, <2>1, <3>4
      <4>2. up'[j] = up[j]  BY Zenon, <1>5, <4>1
      <4>3. Owed(j)' = Owed(j)
        <5>1. CASE session[d] # j  BY Zenon, <1>1, <5>1 DEF Owed
        <5>2. CASE d \notin Sessions(s)
          <6>1. acks'[d] = acks[d]  BY Zenon, <1>5, <3>1, <5>2
          <6> QED  BY Zenon, <1>1, <6>1 DEF Owed
        <5> QED  BY Zenon, <3>4, <5>1, <5>2
      <4>4. SameQueues(j)  BY Zenon, <3>2, <4>2 DEF SameQueues
      <4>5. Owed(j)' \in Nat /\ Owed(j)' <= Owed(j)  BY <3>1, <4>3
      <4> QED  BY Zenon, <1>1, <1>3, <3>1, <4>4, <4>5, SaidStill
    <3> QED  BY Zenon, <3>3, <3>4
  <2> QED  BY Zenon, <2>2, <2>3 DEF WInv
<1> QED  BY Zenon, <1>2, <1>4, <1>5

(* out_acks_flush queues what was recorded.                                *)
LEMMA CommitAcksSaid ==
  ASSUME IInv, LInv, WInv, DataTypeOK', NEW s \in Shards, CommitAcks(s)
  PROVE  WInv'
(* Queues of answers, extended.                                            *)
<1>MoreAnswers.
    ASSUME NEW w \in Seq(Written), NEW d \in Seq(Written), NEW n \in Nat, Answers(w \o d)
    PROVE  LET e == d \o [i \in 1 .. n |-> "PINGRESP"]
           IN /\ Answers(w \o e) /\ Len(e) = Len(d) + n
              /\ (w \o d) \o <<>> = w \o d
  <2> USE <1>MoreAnswers
  <2> DEFINE p == [i \in 1 .. n |-> "PINGRESP"]
             e == d \o p
             q == w \o d
             r == w \o e
  <2>1. p \in Seq(Written) /\ Len(p) = n /\ \A i \in 1 .. n : p[i] = "PINGRESP"
    <3>1. p \in [1 .. n -> Written]  BY DEF Written
    <3> QED  BY <3>1
  <2> HIDE DEF p
  <2>2. e \in Seq(Written) /\ Len(e) = Len(d) + n /\ q \in Seq(Written) /\ Len(q) = Len(w) + Len(d)
    BY <2>1
  <2>3. /\ r \in Seq(Written) /\ Len(r) = Len(q) + n
        /\ \A i \in 1 .. Len(q) : r[i] = q[i]
        /\ \A i \in 1 .. Len(r) : i > Len(q) => r[i] = "PINGRESP"
    <3>1. Len(w) \in Nat /\ Len(d) \in Nat  OBVIOUS
    <3>2. r \in Seq(Written) /\ Len(r) = Len(q) + n  BY <2>2, <3>1
    <3>3. \A i \in 1 .. Len(e) : e[i] = IF i <= Len(d) THEN d[i] ELSE p[i - Len(d)]
      BY <2>1, <2>2, <3>1
    <3>4. \A i \in 1 .. Len(r) : r[i] = IF i <= Len(w) THEN w[i] ELSE e[i - Len(w)]
      BY <2>2, <3>1
    <3>5. \A i \in 1 .. Len(q) : q[i] = IF i <= Len(w) THEN w[i] ELSE d[i - Len(w)]
      BY <2>2, <3>1
    <3> HIDE DEF e, q, r
    <3>6. ASSUME NEW i \in 1 .. Len(q) PROVE r[i] = q[i]
      <4>1. i \in 1 .. Len(r)  BY <2>2, <3>1, <3>2
      <4>2. CASE i <= Len(w)  BY <3>4, <3>5, <4>1, <4>2
      <4>3. CASE ~(i <= Len(w))
        <5>1. r[i] = e[i - Len(w)] /\ q[i] = d[i - Len(w)]  BY Zenon, <3>4, <3>5, <4>1, <4>3
        <5>2. i - Len(w) \in 1 .. Len(e) /\ i - Len(w) <= Len(d)  BY <2>2, <3>1, <4>3
        <5>3. e[i - Len(w)] = d[i - Len(w)]  BY Zenon, <3>3, <5>2
        <5> QED  BY Zenon, <5>1, <5>3
      <4> QED  BY Zenon, <4>2, <4>3
    <3>7. ASSUME NEW i \in 1 .. Len(r), i > Len(q) PROVE r[i] = "PINGRESP"
      <4>1. r[i] = e[i - Len(w)] /\ i - Len(w) \in 1 .. Len(e) /\ i - Len(w) > Len(d)
        BY <2>2, <3>1, <3>2, <3>4, <3>7
      <4>2. ~(i - Len(w) <= Len(d)) /\ (i - Len(w)) - Len(d) \in 1 .. n  BY <2>2, <3>1, <4>1
      <4>3. e[i - Len(w)] = p[(i - Len(w)) - Len(d)]  BY Zenon, <3>3, <4>1, <4>2
      <4> QED  BY Zenon, <2>1, <4>1, <4>2, <4>3
    <3> QED  BY <3>2, <3>6, <3>7
  <2>4. Len(q) \in Nat /\ Len(q) >= 1 /\ q[1] = "CONNACK" /\ \A i \in 2 .. Len(q) : q[i] = "PINGRESP"
    BY <2>2 DEF Answers
  <2> HIDE DEF q, e, r
  <2>5. r # <<>> /\ r[1] = "CONNACK" /\ \A i \in 2 .. Len(r) : r[i] = "PINGRESP"
    <3>1. Len(r) \in Nat /\ Len(r) >= 1  BY <2>3, <2>4
    <3>2. r # <<>>  BY <2>3, <3>1
    <3>3. r[1] = "CONNACK"  BY <2>3, <2>4
    <3>4. ASSUME NEW i \in 2 .. Len(r) PROVE r[i] = "PINGRESP"
      <4>1. CASE i <= Len(q)
        <5>1. i \in 1 .. Len(q) /\ i \in 2 .. Len(q)  BY <2>4, <3>1, <4>1
        <5> QED  BY Zenon, <2>3, <2>4, <5>1
      <4>2. CASE i > Len(q)
        <5>1. i \in 1 .. Len(r)  BY <3>1
        <5> QED  BY Zenon, <2>3, <4>2, <5>1
      <4> QED  BY <2>4, <3>1, <4>1, <4>2
    <3> QED  BY <3>2, <3>3, <3>4
  <2>6. Answers(r)  BY Zenon, <2>5 DEF Answers
  <2>7. q \o <<>> = q  BY <2>2
  <2> QED  BY <2>2, <2>6, <2>7 DEF e, q, r, p

<1>1. /\ sent' = sent /\ net' = net /\ wire' = wire /\ up' = up
      /\ place' = place /\ session' = session /\ sh[s].pc = "failed"
      /\ session \in [Clients -> Conns \cup {NoConn}] /\ DataTypeOK
  BY Zenon, Known DEF CommitAcks, At, WInv
<1>2. \/ down' = down /\ acks' = acks
      \/ \E acking \in SUBSET Sessions(s) :
           /\ down' = [k \in Conns |->
                         IF session[ClientOf[k]] = k /\ ClientOf[k] \in acking
                           THEN down[k] \o [i \in 1 .. acks[ClientOf[k]] |-> "PINGRESP"]
                           ELSE down[k]]
           /\ acks' = [c \in Clients |-> IF c \in acking THEN 0 ELSE acks[c]]
  <2> DEFINE live == Sessions(s)
             gone == {c \in live : acks[c] > 0 /\ place[session[c]] = "closed"}
             acking == {c \in live : acks[c] > 0} \ gone
  <2>1. acking \in SUBSET Sessions(s)  OBVIOUS
  <2>2. \/ down' = down /\ acks' = acks
        \/ /\ down' = [k \in Conns |->
                         IF session[ClientOf[k]] = k /\ ClientOf[k] \in acking
                           THEN down[k] \o [i \in 1 .. acks[ClientOf[k]] |-> "PINGRESP"]
                           ELSE down[k]]
           /\ acks' = [c \in Clients |-> IF c \in acking THEN 0 ELSE acks[c]]
    BY Zenon DEF CommitAcks
  <2> HIDE DEF acking
  <2> QED  BY Zenon, <2>1, <2>2
<1>3. ASSUME NEW j \in Conns PROVE Later(j)
  <2>1. Shard(j) \in Shards  BY BrokerAssumption DEF Shard
  <2>2. sh'[Shard(j)].new = sh[Shard(j)].new  BY Zenon, <2>1, WorkSteps DEF Worked
  <2> QED  BY Zenon, <1>1, <2>2, LaterByPlace
<1>4. CASE down' = down /\ acks' = acks
  <2>1. Aside  BY Zenon, <1>1, <1>4 DEF Aside
  <2> QED  BY Zenon, <1>1, <1>3, <1>4, <2>1, RecordedSame, AsideSaid
<1>5. ASSUME NEW acking \in SUBSET Sessions(s),
             down' = [k \in Conns |->
                        IF session[ClientOf[k]] = k /\ ClientOf[k] \in acking
                          THEN down[k] \o [i \in 1 .. acks[ClientOf[k]] |-> "PINGRESP"]
                          ELSE down[k]],
             acks' = [c \in Clients |-> IF c \in acking THEN 0 ELSE acks[c]]
      PROVE  WInv'
  <2>1. ASSUME NEW c \in Clients PROVE Recorded(c)
    <3>1. acks'[c] = 0 \/ acks'[c] = acks[c]  BY Zenon, <1>5
    <3> QED  BY Zenon, <1>1, <3>1 DEF Recorded
  <2>2. ASSUME NEW j \in Conns PROVE Said(j)'
    <3> DEFINE d == ClientOf[j]
               n == acks[d]
    <3>1. Said(j) /\ d \in Clients /\ n \in Nat /\ wire[j] \in Seq(Written) /\ down[j] \in Seq(Written)
      BY Zenon, <1>1, KnownQueues DEF WInv
    <3>2. wire'[j] = wire[j] /\ up'[j] = up[j] /\ sent'[j] = sent[j] /\ net'[j] = net[j]
      BY Zenon, <1>1
    <3>3. CASE session[d] = j /\ d \in acking
      <4>1. down'[j] = down[j] \o [i \in 1 .. n |-> "PINGRESP"]  BY Zenon, <1>5, <3>3
      <4>2. Owed(j) = n /\ Owed(j)' = 0
        <5>1. acks'[d] = 0  BY Zenon, <1>5, <3>1, <3>3
        <5> QED  BY Zenon, <1>1, <3>3, <5>1 DEF Owed
      <4>3. place[j] \in {"conns", "queued"}
        <5>1. d \in Clients /\ ShardOf[d] = s /\ session[d] # NoConn  BY <3>3 DEF Sessions
        <5>2. sh[s].pc \in {"drain", "failed"}  BY <1>1
        <5> QED  BY Zenon, <3>3, <5>1, <5>2, SocketIsOpen
      <4>4. Taken(j) /\ ~Early(j)  BY <4>3 DEF Taken, Early
      <4>5. ~Early(j)'  BY Zenon, <1>3, <4>4 DEF Later
      <4>6. Opened(j) /\ Legal(wire[j], sent[j])  BY Zenon, <3>1, <4>4 DEF Said, Accounted
      <4>7. Legal(wire'[j], sent'[j])  BY Zenon, <3>2, <4>6
      <4> DEFINE e == down[j] \o [i \in 1 .. n |-> "PINGRESP"]
      <4>8. Answers(wire[j] \o down[j])  BY Zenon, <1>1, <4>6, Counted
      <4>9. Answers(wire[j] \o e) /\ Len(e) = Len(down[j]) + n
        <5> HIDE DEF n
        <5> QED  BY <3>1, <4>8, <1>MoreAnswers
      <4>10. Answers(wire'[j] \o down'[j])  BY Zenon, <3>2, <4>1, <4>9
      <4>11. Len(wire'[j]) + Len(down'[j]) + Len(up'[j]) + Len(net'[j]) + Owed(j)' <= sent'[j] + 1
        <5> DEFINE a == Len(wire[j])
                   b == Len(down[j])
                   u == Len(up[j])
                   x == Len(net[j])
                   m == sent[j]
        <5>1. a \in Nat /\ b \in Nat /\ u \in Nat /\ x \in Nat /\ m \in Nat /\ n \in Nat
          BY Zenon, <1>1, KnownQueues
        <5>2. a + b + u + x + n <= m + 1  BY Zenon, <1>1, <4>2, <4>6, Counted
        <5>3. /\ Len(wire'[j]) = a /\ Len(down'[j]) = b + n /\ Len(up'[j]) = u
              /\ Len(net'[j]) = x /\ sent'[j] = m
          BY Zenon, <3>2, <4>1, <4>9
        <5> HIDE DEF a, b, u, x, m, n
        <5>4. a + (b + n) + u + x + 0 <= m + 1  BY <5>1, <5>2
        <5> QED  BY Zenon, <4>2, <5>3, <5>4
      <4> QED  BY Zenon, <4>5, <4>7, <4>10, <4>11, SaidOpened
    <3>4. CASE ~(session[d] = j /\ d \in acking)
      <4>1. down'[j] = down[j]  BY Zenon, <1>5, <3>4
      <4>2. SameQueues(j)  BY Zenon, <3>2, <4>1 DEF SameQueues
      <4> QED  BY Zenon, <1>1, <1>3, <2>1, <3>1, <4>2, SaidKept
    <3> QED  BY Zenon, <3>3, <3>4
  <2>3. Zeroed'  BY Zenon, <2>1, ZeroedKept DEF WInv
  <2> QED  BY Zenon, <2>2, <2>3 DEF WInv
<1> QED  BY Zenon, <1>2, <1>4, <1>5

(* Initially nothing has been written or sent.                             *)
LEMMA SaidInitially == Init => WInv
<1> SUFFICES ASSUME Init PROVE WInv  OBVIOUS
<1>1. DataTypeOK  BY Zenon, DataInitially
<1>2. Zeroed  BY DEF Init, Zeroed
<1>3. ASSUME NEW k \in Conns PROVE Said(k)
  <2>1. /\ wire[k] = <<>> /\ down[k] = <<>> /\ up[k] = <<>> /\ net[k] = <<>> /\ sent[k] = 0
        /\ place[k] = "none"
    BY <1>3 DEF Init
  <2>2. Len(<<>>) <= 0  OBVIOUS
  <2>3. Fresh(k)  BY Zenon, <2>1, <2>2 DEF Fresh
  <2>4. ~Taken(k)  BY <2>1 DEF Taken
  <2>5. Legal(wire[k], sent[k])  BY Zenon, <2>1 DEF Legal
  <2> QED  BY Zenon, <2>3, <2>4, <2>5 DEF Said, Accounted
<1> QED  BY Zenon, <1>1, <1>2, <1>3 DEF WInv

(* Every step keeps what is written legal and accounted for.               *)
LEMMA SaidInductive == IInv /\ LInv /\ RInv /\ WInv /\ [Next]_vars => WInv'
<1> SUFFICES ASSUME IInv, LInv, RInv, WInv, [Next]_vars PROVE WInv'  OBVIOUS
<1>1. DataTypeOK'
  <2>1. DataTypeOK  BY Zenon DEF WInv
  <2> QED  BY Zenon, <2>1, DataInductive
<1>2. CASE UNCHANGED vars
  <2>1. Aside /\ sh' = sh /\ place' = place /\ session' = session /\ acks' = acks
    BY <1>2 DEF Aside, vars, sockVars
  <2> QED  BY Zenon, <1>1, <2>1, LaterSame, RecordedSame, AsideSaid
<1>3. ASSUME NEW k \in Conns,
             AcceptConn(k) \/ Handshakes(k) \/ Client(k) \/ Pumps(k) \/ SocketTimeout(k)
      PROVE  WInv'
  BY Zenon, <1>1, <1>3, ListenerSaid, HandshakeFailsSaid, ClientSendsSaid, FailsSaid,
     SocketToSessionSaid, SessionToSocketSaid DEF Handshakes, Client, Pumps
<1>4. CASE AskClose \/ ClusterStep  BY Zenon, <1>1, <1>4, ClusterSaid
<1>5. ASSUME NEW s \in Shards, ShardStep(s) PROVE WInv'
  BY Zenon, <1>1, <1>5, WorkSaid, AddSessionSaid, FlushRequestSaid, RemovedSaid,
     InsertSessionSaid, RoutePacketsSaid, CommitAcksSaid, ExitShardSaid DEF ShardStep
<1>6. ASSUME NEW s \in Shards, MiotServes(s) \/ FlushConnection(s) PROVE WInv'
  BY Zenon, <1>1, <1>6, ServesSaid, FlushConnectionSaid DEF MiotServes
<1> QED  BY Zenon, <1>2, <1>3, <1>4, <1>5, <1>6 DEF Next, Terminated

(* The broker's state is consistent in every reachable state: the threads  *)
(* agree on who has which socket and which client's session through        *)
(* handle_add_session and handle_flush_connection, no request names a      *)
(* socket twice, and on every open connection the CONNACK and the          *)
(* PINGRESPs, written, queued or still recorded in a session, are no more  *)
(* than the client's packets plus one.                                     *)
THEOREM StateIsConsistent == Spec => []Consistent
<1>1. IInv /\ LInv /\ RInv /\ WInv => Consistent
  BY Zenon DEF IInv, LInv, RInv, WInv, Zeroed, Said, Consistent, TypeOK, Balanced
<1> QED
  BY <1>1, Invariance, OwnedInitially, OwnedInductive, PlacedInitially, PlacedInductive,
     SaidInitially, SaidInductive, PTL DEF Spec

(* What a client sees is a refusal and nothing else, or CONNACK before     *)
(* anything else, no more PINGRESPs than it has sent packets, and          *)
(* DISCONNECT last, whoever of handshake, shard, miot thread and flusher   *)
(* writes (send_connack, commit_acks, session_to_socket, send_disconnect). *)
THEOREM WireIsLegal == Spec => []WireProtocol
<1>1. WInv => WireProtocol  BY Zenon DEF WInv, Said, WireProtocol
<1> QED
  BY <1>1, Invariance, OwnedInitially, OwnedInductive, PlacedInitially, PlacedInductive,
     SaidInitially, SaidInductive, PTL DEF Spec
=============================================================================

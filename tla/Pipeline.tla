------------------------------- MODULE Pipeline -------------------------------
(***************************************************************************)
(* The way of one connection's bytes: MQTTRead puts packets together from  *)
(* whatever the kernel has, the miot thread moves them into a bounded      *)
(* queue, the session answers each, and the answers go through a second    *)
(* bounded queue and MQTTWrite into the kernel's buffer.  Full queues and  *)
(* a full buffer hold everything back.                                     *)
(*                                                                         *)
(* A packet is its bytes: the first one, the length of the rest in digits  *)
(* of base Base (128 in the code), least digit first, where all but the    *)
(* last digit have Base added, and the rest.                               *)
(* Clients send lengths of at most the four digits that VarU32 takes; that *)
(* a client goes away is in MiotThread.                                    *)
(***************************************************************************)
EXTENDS Naturals, Sequences, FiniteSetsExt, Functions, QueueOps

CONSTANTS
  Base,       \* of the digits of a length
  Sent,       \* the sequences of packets a client may send
  Answer(_),  \* the bytes of the session's answer to a packet
  MaxSize,    \* mqtt_max_packet_size
  Batch,      \* mqtt_pkt_batch_size, also the capacity of the queues
  SendBuffer  \* bytes in the kernel on their way to the client

(* The number that the digits of a length stand for.                       *)
Number(digits) ==
  FoldFunction(+, 0, [i \in DOMAIN digits |-> (digits[i] % Base) * Base ^ (i - 1)])

(* The bytes of a packet, whose length ends at e.                          *)
IsPacket(p) ==
  /\ p \in Seq(Nat)
  /\ \E e \in 2 .. Len(p) :
       /\ \A i \in 2 .. e - 1 : p[i] >= Base
       /\ p[e] < Base
       /\ Len(p) = e + Number(SubSeq(p, 2, e))

(* The bytes of some packets, one behind the other.                        *)
Bytes(packets) == Flatten(packets)

ASSUME PipelineAssumption ==
  /\ {Base, Batch, SendBuffer} \subseteq Nat \ {0} /\ MaxSize \in Nat
  /\ Sent \subseteq Seq(Seq(Nat))
  /\ \A s \in Sent : \A i \in 1 .. Len(s) : IsPacket(s[i]) /\ Answer(s[i]) \in Seq(Nat)

Scratch == 5

VARIABLES
  stream,   \* all the client sends
  arrived,  \* how much of it has reached the kernel
  ipos,     \* how much of it has been read
  pr,       \* rd.pr: MQTTRead's state, the bytes it has, the length of the packet
  rdTimer,  \* whether rd.timeout is set
  rd,       \* rd.packets
  up,       \* the queue to the session
  handled,  \* the packets the session has handled
  acks,     \* out_acks
  down,     \* the queue to the socket
  wt,       \* wt.packets
  pw,       \* wt.pw: what MQTTWrite has left of its packet
  wtTimer,  \* whether wt.timeout is set
  wire,     \* all bytes written
  taken,    \* how much of it has reached the client
  pc,       \* where the miot thread is
  recvd     \* packets received by the try_recvs it is in

readVars == <<arrived, ipos, pr, rd, rdTimer>>
sessionVars == <<handled, acks>>
writeVars == <<wt, pw, wire, recvd, wtTimer>>
vars == <<stream, readVars, up, sessionVars, down, writeVars, taken, pc>>

Init ==
  /\ \E s \in Sent : stream = Bytes(s)
  /\ arrived = 0 /\ ipos = 0
  /\ pr = [state |-> "Init", data |-> <<>>, size |-> 0]
  /\ rd = <<>> /\ up = <<>> /\ handled = <<>> /\ acks = <<>> /\ down = <<>> /\ wt = <<>>
  /\ pw = <<>> /\ wire = <<>> /\ taken = 0
  /\ pc = "send" /\ recvd = 0 /\ rdTimer = FALSE /\ wtTimer = FALSE
-----------------------------------------------------------------------------
(* The kernel and the client.                                              *)
Arrive ==
  /\ \E n \in arrived + 1 .. Len(stream) : arrived' = n
  /\ UNCHANGED <<stream, ipos, pr, rd, rdTimer, up, sessionVars, down, writeVars, taken, pc>>

ClientReads ==
  /\ taken < Len(wire)
  /\ taken' = taken + 1
  /\ UNCHANGED <<stream, readVars, up, sessionVars, down, writeVars, pc>>
-----------------------------------------------------------------------------
(* VarU32::decode: the length ends with the first byte below Base.         *)
LengthEnds(data) ==
  LET last == {i \in 2 .. Len(data) : data[i] < Base}
  IN IF last = {} THEN 0 ELSE Min(last)

PktLen(data) == LengthEnds(data) + Number(SubSeq(data, 2, LengthEnds(data)))

HasLength(data) == LengthEnds(data) # 0

(* A packet is complete: parse it, and reset to the bytes behind it.       *)
Finish(data, size) ==
  /\ rd' = Append(rd, SubSeq(data, 1, size))
  /\ pr' = [state |-> "Init", data |-> SubSeq(data, size + 1, Len(data)), size |-> 0]
  /\ pc' = IF Len(rd) + 1 < Batch THEN "send" ELSE "sendlast"
  /\ rdTimer' = FALSE

(* The packet is too large: the connection fails.                          *)
Fail == pc' = "failed" /\ UNCHANGED <<pr, rd, rdTimer>>

(* It is not: come back later, or fail if sock_mqtt_read_timeout seconds   *)
(* have passed since the first time this was so after the last packet.     *)
Wait(state, data, size) ==
  /\ pr' = [state |-> state, data |-> data, size |-> size]
  /\ \/ pc' = "sendlast" /\ rdTimer' = TRUE
     \/ rdTimer /\ pc' = "failed" /\ rdTimer' = FALSE
  /\ UNCHANGED rd

(* Mutant of PreRead: bytes that were read too far are left until others   *)
(* come.                                                                   *)
PreReadNothing == FALSE

(* pre_read finds a whole packet in what the last read got too much.       *)
PreRead ==
  /\ pr.state = "Init"
  /\ Len(pr.data) > 1 /\ HasLength(pr.data)
  /\ PktLen(pr.data) <= MaxSize => PktLen(pr.data) <= Len(pr.data)

(* Mutant of Buffered: it overlooks that bytes were read already.          *)
BufferedFresh(got) == got

(* The bytes MQTTRead has after a read.                                    *)
Buffered(got) == pr.data \o got

Least(m, n) == IF m < n THEN m ELSE n

(* read_packet: MQTTRead::read, and parse and reset when it is at the end. *)
ReadPacket ==
  /\ pc = "read"
  /\ IF PreRead
     THEN /\ IF PktLen(pr.data) > MaxSize THEN Fail ELSE Finish(pr.data, PktLen(pr.data))
          /\ UNCHANGED ipos
     ELSE LET room == IF pr.state = "Remain" THEN pr.size - Len(pr.data) ELSE Scratch
              n == Least(room, arrived - ipos)
              data == Buffered(SubSeq(stream, ipos + 1, ipos + n))
          IN /\ ipos' = ipos + n
             /\ \/ /\ n = 0   \* WouldBlock
                   /\ Wait(pr.state, pr.data, pr.size)
                \/ /\ n > 0 /\ ~HasLength(data)
                   /\ Wait("Header", data, 0)
                \/ /\ n > 0 /\ HasLength(data)
                   /\ LET size == PktLen(data)
                      IN \/ size > MaxSize /\ Fail
                         \/ size \in Len(data) + 1 .. MaxSize /\ Wait("Remain", data, size)
                         \/ size <= Least(MaxSize, Len(data)) /\ Finish(data, size)
  /\ UNCHANGED <<stream, arrived, up, sessionVars, down, writeVars, taken>>

(* try_sends takes the next packet: there is one, and the queue has room.  *)
TrySend == rd # <<>> /\ Len(up) < Batch

(* Mutant of SendUpstream: the socket is read though the queue is full.    *)
SendUpstreamReadsOn ==
  /\ pc \in {"send", "sendlast"}
  /\ IF TrySend
     THEN rd' = Tail(rd) /\ up' = Append(up, Head(rd)) /\ UNCHANGED pc
     ELSE pc' = (IF pc = "send" THEN "read" ELSE "flush") /\ UNCHANGED <<rd, up>>
  /\ UNCHANGED <<stream, arrived, ipos, pr, rdTimer, sessionVars, down, writeVars, taken>>

(* send_upstream, packet by packet: with all packets sent the socket is    *)
(* read, with the queue full it is not.                                    *)
SendUpstream ==
  /\ pc \in {"send", "sendlast"}
  /\ IF TrySend
     THEN rd' = Tail(rd) /\ up' = Append(up, Head(rd)) /\ UNCHANGED pc
     ELSE pc' = (IF pc = "send" /\ rd = <<>> THEN "read" ELSE "flush") /\ UNCHANGED <<rd, up>>
  /\ UNCHANGED <<stream, arrived, ipos, pr, rdTimer, sessionVars, down, writeVars, taken>>
-----------------------------------------------------------------------------
(* The session: route_packets takes a packet and records its answer.       *)
RoutePacket ==
  /\ up # <<>>
  /\ up' = Tail(up)
  /\ handled' = Append(handled, Head(up))
  /\ acks' = Append(acks, Answer(Head(up)))
  /\ UNCHANGED <<stream, readVars, down, writeVars, taken, pc>>

(* out_acks_flush: answers move to the socket while there is room.         *)
FlushAck ==
  /\ acks # <<>> /\ Len(down) < Batch
  /\ down' = Append(down, Head(acks))
  /\ acks' = Tail(acks)
  /\ UNCHANGED <<stream, readVars, up, handled, writeVars, taken, pc>>
-----------------------------------------------------------------------------
(* MQTTWrite::write: the kernel takes what it has room for.                *)
Writes == Least(SendBuffer - (Len(wire) - taken), Len(pw))

(* Mutant of WritePacket: the next packet replaces what is left.           *)
WritePacketAnew ==
  /\ pc \in {"flush", "flushlast"}
  /\ wire' = wire \o SubSeq(pw, 1, Writes)
  /\ IF wt # <<>> THEN pw' = Head(wt) /\ wt' = Tail(wt) /\ UNCHANGED pc
     ELSE /\ pc' = IF pc = "flush" THEN "recv" ELSE "send"
          /\ pw' = SubSeq(pw, Writes + 1, Len(pw))
          /\ UNCHANGED wt
  /\ recvd' = 0 /\ UNCHANGED wtTimer
  /\ UNCHANGED <<stream, readVars, up, sessionVars, down, taken>>

(* flush_packets, one call of write_packet.  With the packet written the   *)
(* next one is encoded; with none the socket receives from its queue;      *)
(* otherwise the thread comes back later, or the connection fails if       *)
(* sock_mqtt_write_timeout seconds have passed since that first was so.    *)
WritePacket ==
  /\ pc \in {"flush", "flushlast"}
  /\ LET rest == SubSeq(pw, Writes + 1, Len(pw))
     IN /\ wire' = wire \o SubSeq(pw, 1, Writes)
        /\ \/ /\ rest = <<>> /\ wt # <<>>
              /\ pw' = Head(wt) /\ wt' = Tail(wt)
              /\ wtTimer' = FALSE /\ UNCHANGED pc
           \/ /\ rest = <<>> /\ wt = <<>>
              /\ pc' = IF pc = "flush" THEN "recv" ELSE "send"
              /\ pw' = rest /\ wtTimer' = FALSE /\ UNCHANGED wt
           \/ /\ rest # <<>>
              /\ \/ pc' = "send" /\ wtTimer' = TRUE
                 \/ wtTimer /\ pc' = "failed" /\ wtTimer' = FALSE
              /\ pw' = rest /\ UNCHANGED wt
  /\ recvd' = 0
  /\ UNCHANGED <<stream, readVars, up, sessionVars, down, taken>>

(* try_recvs stops one packet past the batch, which a session that sends   *)
(* meanwhile can bring about.                                              *)
BatchFull == recvd >= Batch

(* write_packets receives, packet by packet, and flushes what it got.      *)
Receive ==
  /\ pc = "recv"
  /\ IF down = <<>>
     THEN pc' = "flushlast" /\ UNCHANGED <<down, wt, recvd>>
     ELSE /\ wt' = Append(wt, Head(down))
          /\ down' = Tail(down)
          /\ recvd' = recvd + 1
          /\ pc' = IF BatchFull THEN "flush" ELSE "recv"
  /\ UNCHANGED <<stream, readVars, up, sessionVars, pw, wire, wtTimer, taken>>
-----------------------------------------------------------------------------
Miot == SendUpstream \/ ReadPacket \/ WritePacket \/ Receive

(* A failed connection goes to the flusher.                                *)
Terminated == pc = "failed" /\ UNCHANGED vars

Next == Arrive \/ ClientReads \/ Miot \/ RoutePacket \/ FlushAck \/ Terminated

Spec == Init /\ [][Next]_vars

(* The ticker wakes shard and miot threads again and again; the client's   *)
(* bytes arrive and it reads what it is sent.                              *)
FairSpec ==
  /\ Spec
  /\ WF_vars(Miot) /\ WF_vars(RoutePacket) /\ WF_vars(FlushAck)
  /\ WF_vars(Arrive) /\ WF_vars(ClientReads)
-----------------------------------------------------------------------------
(* The packets that have been read, in the order they were sent.           *)
Read == handled \o up \o rd

(* No byte the client sends is lost, doubled or moved on its way to the    *)
(* session, whatever the pieces it came in and however far it was read     *)
(* ahead: the packets handled, queued and waiting in the socket are the    *)
(* first of those that the client sent, and the bytes of the reader and of *)
(* the kernel are the rest, unless the connection has failed.              *)
StreamIsWhole ==
  \E s \in Sent :
    /\ stream = Bytes(s)
    /\ Len(Read) <= Len(s) /\ Read = SubSeq(s, 1, Len(Read))
    /\ pc # "failed" => pr.data \o SubSeq(stream, ipos + 1, Len(stream)) =
                          Bytes(SubSeq(s, Len(Read) + 1, Len(s)))

Answers == [i \in DOMAIN handled |-> Answer(handled[i])]

(* The client gets the answers, whole and in the order of the requests,    *)
(* although they wait in four places and the kernel takes them in pieces.  *)
AnswersAreWhole ==
  wire \o pw \o Bytes(wt \o down \o acks) = Bytes(Answers)

(* Back pressure: a full queue stops the reading of the socket with at     *)
(* most one packet parsed, and a client that does not read stops the       *)
(* socket with at most one batch and one packet taken from its queue.      *)
SocketsAreBounded == Len(rd) <= 1 /\ Len(wt) <= Batch + 1

(* Every packet that the client sends whole is answered, also one that the *)
(* reader has read ahead of with the end of the one before, unless the     *)
(* connection fails.                                                       *)
AllAnswered ==
  <>(\/ pc = "failed"
     \/ Bytes(handled) = stream /\ taken = Len(Bytes(Answers)))
=============================================================================

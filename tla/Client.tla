-------------------------------- MODULE Client --------------------------------
(* The client of src/client.rs, on one thread of an application, with the   *)
(* bytes of its connection as the codec makes them.  The broker at the      *)
(* other end is anything that answers with packets.                         *)
(*                                                                          *)
(* Of the two halves clone_read makes, the model follows one.  A call is    *)
(* followed read by read; the application makes one call at a time, and     *)
(* keeps to the documentation: clone_read and as_mut_mio_tcpstream are      *)
(* called on a whole, the latter on a non-blocking, connection.             *)
EXTENDS Packets

CONSTANTS
  Configs,        \* what ClientBuilder may hold
  Answers(_),     \* what the broker may answer: bytes, and the packet they are
  Pieces(_, _),   \* how many of n bytes a read may return, for a configuration
  MaxConnects(_), \* bound: connections made, for a configuration
  MaxAnswers(_)   \* bound: answers of the broker on a connection

VARIABLES
  cfg,      \* the configuration
  cio,      \* the variant of Client::cio; "Gone" when an error consumed self
  call,     \* the call being made: none, or its name, cio and step
  pr,       \* the MQTTRead of cio
  inbox,    \* bytes of the broker that were not read
  open,     \* the broker has not closed the connection
  timer,    \* RwTimeout::timeout: unset, ahead or past
  conns,    \* connections made
  outbox,   \* frames written on the connection
  answers,  \* answers of the broker on the connection
  parsed,   \* how many of them were parsed
  got,      \* what the last one was parsed as
  result    \* of the last call

conn == <<pr, inbox, open, timer, outbox, answers, parsed, got>>
vars == <<cfg, cio, call, conn, conns, result>>

Whole == {"Blocking", "NoBlock"}
NoCall == [of |-> "none"]
NotParsed == [res |-> "none"]
Fresh == [state |-> "Init", data |-> <<>>, size |-> 0]

(* ClientBuilder::into_client.                                              *)
Init ==
  /\ cfg \in Configs
  /\ cio = "None" /\ call = NoCall /\ pr = Fresh /\ inbox = <<>> /\ open = TRUE
  /\ timer = "unset" /\ conns = 0 /\ outbox = <<>> /\ answers = <<>>
  /\ parsed = 0 /\ got = NotParsed /\ result = "none"

(***************************************************************************)
(* The CONNECT of a client.                                                 *)
(***************************************************************************)
HasWill(c) ==
  {"will_topic", "will_properties", "will_payload"} \subseteq DOMAIN c.connect

(* Client::to_connect that forgets the flag of the password.                *)
ToConnectNoPassword(c, clean_start) ==
  LET flags == (IF clean_start THEN 2 ELSE 0)
               + (IF HasWill(c) THEN 4 + 8 * c.will_qos ELSE 0)
               + (IF "username" \in DOMAIN c.connect THEN 64 ELSE 0)
  IN Normalize(c.connect @@ [type |-> "Connect", flags |-> flags,
                             protocol_name |-> <<77, 81, 84, 84>>,
                             protocol_version |-> 5])

(* Client::to_connect.                                                      *)
ToConnect(c, clean_start) ==
  LET flag(holds, weight) == IF holds THEN weight ELSE 0
      flags == flag(clean_start, 2)
               + flag(HasWill(c), 4 + 8 * c.will_qos + flag(c.will_retain, 32))
               + flag("username" \in DOMAIN c.connect, 64)
               + flag("password" \in DOMAIN c.connect, 128)
  IN Normalize(c.connect @@ [type |-> "Connect", flags |-> flags,
                             protocol_name |-> <<77, 81, 84, 84>>,
                             protocol_version |-> 5])

(* Connect::max_packet_size, with the client's own as the default.          *)
MaxPacketSize ==
  LET c == cfg.connect
  IN IF "properties" \in DOMAIN c /\ 39 \in DOMAIN c.properties
     THEN 65536 * c.properties[39][1][1] + c.properties[39][1][2]
     ELSE cfg.max_packet_size

Request == IF call.of = "ping" THEN [type |-> "PingReq"]
           ELSE ToConnect(cfg, call.of = "connect")

(***************************************************************************)
(* Calls.                                                                   *)
(***************************************************************************)
Connected == /\ pr' = Fresh /\ inbox' = <<>> /\ open' = TRUE /\ timer' = "unset"
             /\ outbox' = <<>> /\ answers' = <<>> /\ parsed' = 0
             /\ got' = NotParsed

(* ClientBuilder::connect and connect_noblock.                              *)
Connect ==
  /\ cio = "None" /\ conns = 0
  /\ call' = [of |-> "connect", cio |-> "None", at |-> "write"]
  /\ conns' = 1 /\ Connected
  /\ UNCHANGED <<cfg, cio, result>>

(* An unreachable!() or panic!() in a call.                                 *)
Panics == result' = "panic" /\ call' = NoCall

Idle == conns > 0 /\ call = NoCall /\ cio # "Gone" /\ result # "panic"

(* Client::reconnect, which asks the old cio whether it is blocking.        *)
Reconnect ==
  /\ Idle /\ conns < MaxConnects(cfg)
  /\ IF cio = "None"
     THEN Panics /\ UNCHANGED <<cio, conn, conns>>
     ELSE /\ conns' = conns + 1
          /\ call' = [of |-> "reconnect", cio |-> cio, at |-> "write"]
          /\ Connected /\ UNCHANGED <<cio, result>>
  /\ UNCHANGED cfg

(* Client::ping takes cio, and does not put it back.                        *)
Ping ==
  /\ Idle
  /\ IF cio \in Whole \union {"BlockWt", "NoBlockWt"}
     THEN /\ call' = [of |-> "ping", cio |-> cio, at |-> "write"]
          /\ cio' = "None" /\ timer' = "unset" /\ UNCHANGED result
     ELSE Panics /\ UNCHANGED <<cio, timer>>
  /\ UNCHANGED <<cfg, pr, inbox, open, conns, outbox, answers, parsed, got>>

(* Client::clone_read and split_sock.  An error in cloning the socket or in *)
(* shutting down its half leaves the client without cio.                    *)
CloneRead ==
  /\ Idle /\ cio \in Whole
  /\ \/ /\ result' = "ok"
        /\ cio' \in IF cio = "Blocking" THEN {"BlockRd", "BlockWt"}
                    ELSE {"NoBlockRd", "NoBlockWt"}
     \/ result' = "err" /\ cio' = "None"
  /\ UNCHANGED <<cfg, call, conn, conns>>

(* local_addr, peer_addr, nodelay, read_timeout, write_timeout and ttl ask  *)
(* the socket of cio.                                                       *)
Accessor ==
  /\ Idle
  /\ IF cio = "None" THEN Panics ELSE result' = "ok" /\ UNCHANGED call
  /\ UNCHANGED <<cfg, cio, conn, conns>>

(* Client::as_mut_mio_tcpstream.                                            *)
AsMio ==
  /\ Idle /\ cio \in {"None", "NoBlock", "NoBlockRd", "NoBlockWt"}
  /\ IF cio = "None" THEN Panics ELSE result' = "ok" /\ UNCHANGED call
  /\ UNCHANGED <<cfg, cio, conn, conns>>

(* A call returns an error: connect and reconnect consume the client.       *)
Fails ==
  /\ call' = NoCall /\ result' = "err"
  /\ cio' = IF call.of = "ping" THEN "None" ELSE "Gone"

(***************************************************************************)
(* write_packet: the frame is written at once, left out when it is larger   *)
(* than max_packet_size, or the call fails: what the kernel takes in two    *)
(* pieces is an error, because write_elapsed is false before a timeout is   *)
(* set.  On half a connection it always fails: each of the two handles of   *)
(* split_sock shuts its direction down for the socket both refer to.        *)
(***************************************************************************)
Write ==
  /\ call.of # "none" /\ call.at = "write"
  /\ \/ Fails /\ UNCHANGED outbox
     \/ /\ Encodes(Request) /\ (call.of = "ping" => call.cio \in Whole)
        /\ \E frame \in {PacketEncode(Request)} :
             outbox' = IF Len(frame) > MaxPacketSize THEN outbox
                       ELSE Append(outbox, frame)
        /\ call' = [call EXCEPT !.at = "read"]
        /\ UNCHANGED <<cio, result>>
  /\ UNCHANGED <<cfg, pr, inbox, open, timer, conns, answers, parsed, got>>

Reading == call.of # "none" /\ call.at = "read"

(***************************************************************************)
(* read_packet.                                                             *)
(***************************************************************************)
(* The blocking flag handshake got, and the variant it makes of it.         *)
Handshaken ==
  IF call.of = "connect"
  THEN IF cfg.blocking THEN "Blocking" ELSE "NoBlock"
  ELSE IF call.cio \in {"Blocking", "BlockRd", "BlockWt"} THEN "Blocking"
       ELSE "NoBlock"

(* The packet is whole: parse it and go back to Init with what was read     *)
(* behind it.  handshake wants a CONNACK, ping a PINGRESP.                  *)
Complete(data, size) ==
  LET wanted == IF call.of = "ping" THEN "PingResp" ELSE "ConnAck"
  IN \E p \in {Parse(SubSeq(data, 1, size))} :
     LET fine == p.res = "ok" /\ p.val.type = wanted
     IN /\ got' = p /\ parsed' = parsed + 1 /\ timer' = "unset"
        /\ pr' = [Fresh EXCEPT !.data = SubSeq(data, size + 1, Len(data))]
        /\ call' = NoCall
        /\ result' = CASE p.res = "panic" -> "panic" [] fine -> "ok"
                       [] OTHER -> "err"
        /\ cio' = CASE call.of = "ping" -> "None"
                    [] call.of # "ping" /\ fine -> Handshaken
                    [] OTHER -> "Gone"

(* It is not: the first time set a timeout and read again; later read again *)
(* if the timeout has passed, fail if it has not (read_elapsed).            *)
Incomplete(state, data, size) ==
  /\ pr' = [state |-> state, data |-> data, size |-> size]
  /\ \/ timer = "ahead" /\ timer' = "unset" /\ Fails
     \/ /\ timer # "ahead"
        /\ timer' = IF timer = "unset" THEN "ahead" ELSE timer
        /\ UNCHANGED <<cio, call, result>>
  /\ UNCHANGED <<got, parsed>>

Broken == Fails /\ timer' = "unset" /\ UNCHANGED <<pr, got, parsed>>

HasLength(data) == \E i \in 2 .. Len(data) : data[i] < 128

PktLen(data) == VarDecode(data, 1).n + VarDecode(data, 1).val

Least(m, n) == IF m < n THEN m ELSE n

(* The state of MQTTRead after it has got bytes.                            *)
Got(data) ==
  IF ~HasLength(data)
  THEN Incomplete("Header", data, 0)
  ELSE \/ VarDecode(data, 1).res # "ok" /\ Broken
       \/ /\ VarDecode(data, 1).res = "ok"
          /\ LET size == PktLen(data)
             IN \/ size > MaxPacketSize /\ Broken
                \/ size \in Len(data) + 1 .. MaxPacketSize
                   /\ Incomplete("Remain", data, size)
                \/ size =< Least(Len(data), MaxPacketSize)
                   /\ Complete(data, size)

(* A buffer that takes what there is.                                       *)
ScratchWide == 64

(* The bytes MQTTRead::read asks for before it knows the length.            *)
Scratch == 5

(* One MQTTRead::read that reads bytes.  pre_read finds nothing to do: no   *)
(* call starts with a packet left from the one before (NoPacketReadAhead).  *)
Read ==
  /\ Reading
  /\ LET room == IF pr.state = "Remain" THEN pr.size - Len(pr.data) ELSE Scratch
     IN /\ inbox # <<>>
        /\ \E n \in Pieces(cfg, Least(room, Len(inbox))) :
             /\ inbox' = SubSeq(inbox, n + 1, Len(inbox))
             /\ Got(pr.data \o SubSeq(inbox, 1, n))
  /\ UNCHANGED <<cfg, open, conns, outbox, answers>>

Silent == Reading /\ inbox = <<>>

(* A read that times out in the socket or is interrupted.                   *)
ReadNothing ==
  /\ Silent /\ open
  /\ Incomplete(pr.state, pr.data, pr.size)
  /\ UNCHANGED <<cfg, inbox, open, conns, outbox, answers>>

(* A read at the end of the stream that is taken for one that would block.  *)
ReadEndWaits ==
  /\ Silent /\ ~open /\ timer # "ahead"
  /\ UNCHANGED vars

(* A read of zero bytes: the broker has closed the connection.              *)
ReadEnd ==
  /\ Silent /\ ~open
  /\ Broken
  /\ UNCHANGED <<cfg, inbox, open, conns, outbox, answers>>

TimePasses ==
  /\ timer = "ahead" /\ timer' = "past"
  /\ UNCHANGED <<cfg, cio, call, pr, inbox, open, conns, outbox, answers,
                 parsed, got, result>>

(***************************************************************************)
(* The broker.                                                              *)
(***************************************************************************)
BrokerAnswers ==
  /\ Reading /\ open /\ outbox # <<>> /\ Len(answers) < MaxAnswers(cfg)
  /\ \E a \in Answers(cfg) :
       answers' = Append(answers, a) /\ inbox' = inbox \o a.frame
  /\ UNCHANGED <<cfg, cio, call, pr, open, timer, conns, outbox, parsed, got,
                 result>>

BrokerCloses ==
  /\ Reading /\ open /\ open' = FALSE
  /\ UNCHANGED <<cfg, cio, call, pr, inbox, timer, conns, outbox, answers,
                 parsed, got, result>>

(* The application is left without a client.                                *)
Terminated == (cio = "Gone" \/ result = "panic") /\ UNCHANGED vars

Next ==
  \/ Connect \/ Reconnect \/ Ping \/ CloneRead \/ Accessor \/ AsMio
  \/ Write \/ Read \/ ReadNothing \/ ReadEnd \/ TimePasses
  \/ BrokerAnswers \/ BrokerCloses \/ Terminated

Spec == Init /\ [][Next]_vars

(* A call goes on while there is something to read, and the broker gives a  *)
(* connection up at last (the handshake and the keep alive of a broker).    *)
FairSpec ==
  /\ Spec
  /\ WF_vars(Write) /\ WF_vars(Read \/ ReadEnd) /\ WF_vars(BrokerCloses)

(***************************************************************************)
(* Properties.                                                              *)
(***************************************************************************)
Current == answers[parsed]

(* Packetize: what one end encodes the other end decodes, as the same       *)
(* packet in normal form and nothing of the frame left over, for every      *)
(* type of packet.                                                          *)
WhatIsSentIsRead ==
  got # NotParsed /\ "packet" \in DOMAIN Current =>
    got = Ok(Normalize(Current.packet), Len(Current.frame))

(* A frame with a known packet type parses or fails, whatever is in it: no  *)
(* slice is out of range and no unwrap meets an error in MQTTRead::parse    *)
(* and the decoders it calls.                                               *)
ParseIsTotal == got.res # "panic"

(* What a decoder has accepted, the encoder does not refuse or change, so   *)
(* that a packet which is forwarded arrives as it came.                     *)
AcceptedIsStable ==
  got.res = "ok" /\ got.val.type # "Connect" =>
    /\ Encodes(got.val)
    /\ Parse(PacketEncode(got.val)) =
         Ok(Normalize(got.val), Len(PacketEncode(got.val)))

(* The CONNECT a client writes is one a broker accepts, with all that was   *)
(* configured: the flags to_connect computes say which fields follow.       *)
BrokerReadsConnect ==
  outbox # <<>> =>
    Parse(outbox[1]) = Ok(ToConnect(cfg, conns = 1), Len(outbox[1]))

(* A handshake reads at most one byte behind its CONNACK, though it learns  *)
(* the length of the packet only by reading: no packet hides in the reader  *)
(* where a poll for the socket would not see it, and pre_read has nothing   *)
(* to do.                                                                   *)
NoPacketReadAhead ==
  call = NoCall /\ cio \in Whole => pr.state = "Init" /\ Len(pr.data) =< 1

(* A call returns, though what a broker sends comes in pieces and the       *)
(* timeout may pass, once the broker has answered or gone.                  *)
CallsReturn == call # NoCall ~> call = NoCall
=============================================================================

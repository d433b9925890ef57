------------------------------- MODULE MCClient -------------------------------
(* Six configurations of a client, and a broker that answers the first one *)
(* with a sample of every type of packet, whole, with a byte of it replaced *)
(* or cut short.                                                            *)
EXTENDS Client

A == <<97>>
B == <<98, 47, 99>>
Pair == <<A, B>>

Samples ==
  {[type |-> "PingReq"], [type |-> "PingResp"],
   [type |-> "Connect", protocol_name |-> <<77, 81, 84, 84>>,
    protocol_version |-> 5, flags |-> 246, keep_alive |-> 300, client_id |-> A,
    will_topic |-> B, will_payload |-> A, will_properties |-> 1 :> <<1>>,
    username |-> A, password |-> <<>>,
    properties |-> (33 :> <<2>>) @@ (25 :> <<0>>) @@ (21 :> <<A>>)
                     @@ (39 :> <<<<1, 0>>>>)],
   [type |-> "ConnAck", flags |-> 1, code |-> 135],
   [type |-> "ConnAck", flags |-> 0, code |-> 0,
    properties |-> (17 :> <<<<65535, 65535>>>>) @@ (36 :> <<1>>)
                     @@ (37 :> <<0>>) @@ (18 :> <<A>>) @@ (19 :> <<258>>)
                     @@ (22 :> <<<<0, 255>>>>) @@ (38 :> <<Pair, Pair>>)],
   [type |-> "Publish", retain |-> 0, qos |-> 0, duplicate |-> 0,
    topic_name |-> B, payload |-> <<>>],
   [type |-> "Publish", retain |-> 1, qos |-> 1, duplicate |-> 1,
    topic_name |-> A, packet_id |-> 513,
    payload |-> [i \in 1 .. 122 |-> 7]],
   [type |-> "Publish", retain |-> 0, qos |-> 2, duplicate |-> 0,
    topic_name |-> A, packet_id |-> 1, payload |-> A,
    properties |-> (1 :> <<1>>) @@ (35 :> <<3>>) @@ (8 :> <<B>>)
                     @@ (11 :> <<5, 200>>) @@ (38 :> <<Pair>>)],
   [type |-> "PubAck", packet_id |-> 1, code |-> 0],
   [type |-> "PubRec", packet_id |-> 1, code |-> 16, properties |-> 31 :> <<A>>],
   [type |-> "PubRel", packet_id |-> 1, code |-> 146],
   [type |-> "PubComp", packet_id |-> 1, code |-> 0, properties |-> <<>>],
   [type |-> "Subscribe", packet_id |-> 9, properties |-> 11 :> <<300>>,
    filters |-> <<<<<<43, 47, 35>>, 38>>, <<A, 1>>>>],
   [type |-> "SubAck", packet_id |-> 9, return_codes |-> <<2, 135>>],
   [type |-> "UnSubscribe", packet_id |-> 9, topics |-> <<B, <<43>>>>],
   [type |-> "UnsubAck", packet_id |-> 9, return_codes |-> <<0, 17>>,
    properties |-> 31 :> <<A>>],
   [type |-> "Disconnect", code |-> 0],
   [type |-> "Disconnect", code |-> 142, properties |-> 28 :> <<A>>],
   [type |-> "Auth", code |-> 24,
    properties |-> (21 :> <<A>>) @@ (22 :> <<<<>>>>)]}

Sent(p) == [frame |-> PacketEncode(p), packet |-> p]

(* Frames of one length byte, damaged behind the header, or cut short.      *)
Short == {f \in {PacketEncode(p) : p \in Samples} : Len(f) =< 60}

DamagedFrames ==
  UNION {{[frame |-> [f EXCEPT ![i] = b]] : i \in 3 .. Len(f),
                                            b \in {0, 1, 3, 35, 38, 200}}
         \union {[frame |-> <<f[1], n>> \o SubSeq(f, 3, n + 2)]
                   : n \in 0 .. Len(f) - 3} : f \in Short}

PlainConnect == [keep_alive |-> 0, client_id |-> A, properties |-> <<>>]

WillConnect ==
  [keep_alive |-> 300, client_id |-> A, username |-> A, password |-> B,
   will_topic |-> B, will_payload |-> <<>>, will_properties |-> 24 :> <<<<0, 1>>>>]

Config(name, connect, blocking) ==
  [name |-> name, connect |-> connect, blocking |-> blocking, will_qos |-> 2,
   will_retain |-> TRUE, max_packet_size |-> 1048576]

MCConfigs ==
  {Config("codec", PlainConnect, TRUE), Config("calls", WillConnect, TRUE),
   Config("calls", PlainConnect, FALSE),
   Config("calls", [WillConnect EXCEPT !.will_properties = <<>>], TRUE),
   Config("calls", [PlainConnect EXCEPT !.properties = 39 :> <<<<0, 8>>>>],
          FALSE),
   Config("calls", [PlainConnect EXCEPT !.properties = 39 :> <<<<0, 30>>>>],
          TRUE)}

(* Among them a length that goes on for too long.                           *)
FewAnswers ==
  {[frame |-> <<32, 255, 255, 255, 255, 1>>]} \union {Sent(p) : p \in {q \in Samples : q.type \in {"PingResp", "ConnAck"}}}

AllAnswers == {Sent(p) : p \in Samples} \union DamagedFrames

MCAnswers(c) == IF c.name = "codec" THEN AllAnswers ELSE FewAnswers

(* The answers of the first configuration are read whole, and the bounds    *)
(* keep them to one.                                                        *)
MCPieces(c, n) == IF c.name = "codec" THEN {n} ELSE {1, n}

MCMaxConnects(c) == IF c.name = "codec" THEN 1 ELSE 2

MCMaxAnswers(c) == IF c.name = "codec" THEN 1 ELSE 2
=============================================================================

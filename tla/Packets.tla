------------------------------- MODULE Packets -------------------------------
(* Packetize for the fifteen packets of MQTT 5 (src/v5/), and               *)
(* MQTTRead::parse (src/packet.rs).                                         *)
(*                                                                          *)
(* A packet is a record with its type and its fields.  A field that is None *)
(* is not in the record.  Bytes are compared with the names of the source   *)
(* in the comments: reason codes are their numbers.                         *)
EXTENDS Properties

(* Fields in the order of the wire, with the type of each and, for those    *)
(* the decoder takes only sometimes, when.                                  *)
Field(name, type) == <<name, type, "always">>
FieldIf(name, type, when) == <<name, type, when>>

ConnectDecode ==
  <<Field("protocol_name", "str"), Field("protocol_version", "u8"),
    Field("flags", "u8"), Field("keep_alive", "u16"),
    Field("properties", "ConnectProperties"), Field("client_id", "str"),
    FieldIf("will_properties", "WillProperties", "will"),
    FieldIf("will_topic", "topic", "will"),
    FieldIf("will_payload", "bin", "will"), FieldIf("username", "str", "user"),
    FieldIf("password", "bin", "pass")>>
ConnectEncode ==
  <<"protocol_name", "protocol_version", "flags", "keep_alive", "properties",
    "client_id", "will_properties", "will_topic", "will_payload", "username",
    "password">>

ConnAckDecode ==
  <<Field("flags", "u8"), Field("code", "u8"),
    Field("properties", "ConnAckProperties")>>
ConnAckEncode == <<"flags", "code", "properties">>

PublishDecode ==
  <<Field("topic_name", "topic"), FieldIf("packet_id", "u16", "qos"),
    Field("properties", "PublishProperties"), Field("payload", "rest")>>
PublishEncode == <<"topic_name", "packet_id", "properties", "payload">>

(* A remaining length of two or three says what a PUBACK, PUBREC, PUBREL or *)
(* PUBCOMP leaves out.                                                      *)
PubDecode(remaining) ==
  SubSeq(<<Field("packet_id", "u16"), Field("code", "u8"),
           Field("properties", "PubProperties")>>,
         1, CASE remaining = 2 -> 1 [] remaining = 3 -> 2 [] OTHER -> 3)
PubEncode == <<"packet_id", "code", "properties">>

SubscribeDecode ==
  <<Field("packet_id", "u16"), Field("properties", "SubscribeProperties"),
    Field("filters", "filters")>>
SubscribeEncode == <<"packet_id", "properties", "filters">>

SubAckDecode ==
  <<Field("packet_id", "u16"), Field("properties", "SubAckProperties"),
    Field("return_codes", "codes")>>
SubAckEncode == <<"packet_id", "properties", "return_codes">>

UnSubscribeDecode ==
  <<Field("packet_id", "u16"), Field("properties", "UnSubscribeProperties"),
    Field("topics", "topics")>>
UnSubscribeEncode == <<"packet_id", "properties", "topics">>

UnsubAckDecode ==
  <<Field("packet_id", "u16"), Field("properties", "UnsubAckProperties"),
    Field("return_codes", "codes")>>
UnsubAckEncode == <<"packet_id", "properties", "return_codes">>

DisconnectDecode(remaining) ==
  SubSeq(<<Field("code", "u8"), Field("properties", "DisconnProperties")>>,
         1, CASE remaining = 0 -> 0 [] remaining = 1 -> 1 [] OTHER -> 2)
DisconnectEncode == <<"code", "properties">>

AuthDecode(remaining) ==
  IF remaining = 0
  THEN <<>>
  ELSE <<Field("code", "u8"), Field("properties", "AuthProperties")>>
AuthEncode == <<"code", "properties">>

PubTypes == {"PubAck", "PubRec", "PubRel", "PubComp"}

(* Packet::decode: the decoder for a header.                                *)
Layout(type, remaining) ==
  CASE type = "Connect" -> ConnectDecode
    [] type = "ConnAck" -> ConnAckDecode
    [] type = "Publish" -> PublishDecode
    [] type \in PubTypes -> PubDecode(remaining)
    [] type = "Subscribe" -> SubscribeDecode
    [] type = "SubAck" -> SubAckDecode
    [] type = "UnSubscribe" -> UnSubscribeDecode
    [] type = "UnsubAck" -> UnsubAckDecode
    [] type \in {"PingReq", "PingResp"} -> <<>>
    [] type = "Disconnect" -> DisconnectDecode(remaining)
    [] type = "Auth" -> AuthDecode(remaining)

(* Packet::encode.                                                          *)
Order(type) ==
  CASE type = "Connect" -> ConnectEncode
    [] type = "ConnAck" -> ConnAckEncode
    [] type = "Publish" -> PublishEncode
    [] type \in PubTypes -> PubEncode
    [] type = "Subscribe" -> SubscribeEncode
    [] type = "SubAck" -> SubAckEncode
    [] type = "UnSubscribe" -> UnSubscribeEncode
    [] type = "UnsubAck" -> UnsubAckEncode
    [] type \in {"PingReq", "PingResp"} -> <<>>
    [] type = "Disconnect" -> DisconnectEncode
    [] type = "Auth" -> AuthEncode

(***************************************************************************)
(* The bytes of the payload, from n up to the end the header gives.         *)
(***************************************************************************)
(* SubscribeFilter::decode that takes any string for a topic filter.        *)
FilterDecodeAnyString(s, n) ==
  Then(StrDecode(s, n), LAMBDA filter, m : U8Decode(s, m))

(* SubscribeFilter::decode.                                                 *)
FilterDecode(s, n) ==
  Then(ValueDecode("filter", s, n), LAMBDA filter, m : U8Decode(s, m))

RECURSIVE ListDecode(_, _, _, _)
ListDecode(type, s, n, list) ==
  LET more(d) == IF d.res = "ok" THEN ListDecode(type, s, d.n, Append(list, d.val))
                 ELSE d
  IN IF n >= Len(s)
     THEN Ok(list, n)
     ELSE Once(IF type = "filters" THEN FilterDecode(s, n)
               ELSE ValueDecode("filter", s, n), more)

(* A payload may be missing from a PUBLISH only.  A slice that starts       *)
(* behind its end panics.                                                   *)
PayloadDecode(type, s, n, end) ==
  CASE end = n -> IF type = "rest" THEN Nothing(n) ELSE Err
    [] end # n /\ end > Len(s) -> Err
    [] end # n /\ end =< Len(s) /\ n > end -> Panic
    [] OTHER -> IF type \in {"rest", "codes"}
                THEN Slice(s, n, end)
                ELSE ListDecode(type, SubSeq(s, 1, end), n, <<>>)

FieldDecode(type, s, n, end) ==
  CASE type \in {"rest", "codes", "filters", "topics"} ->
         PayloadDecode(type, s, n, end)
    [] type \in DOMAIN PropertyKinds -> PropertiesDecode(type, s, n)
    [] OTHER -> ValueDecode(type, s, n)

FieldEncode(type, v) ==
  CASE type \in {"rest", "codes"} -> v
    [] type = "filters" ->
         FlattenSeq([i \in 1 .. Len(v) |-> BinEncode(v[i][1]) \o <<v[i][2]>>])
    [] type = "topics" -> FlattenSeq([i \in 1 .. Len(v) |-> BinEncode(v[i])])
    [] type \in DOMAIN PropertyKinds -> PropertiesEncode(type, v)
    [] OTHER -> ValueEncode(type, v)

(***************************************************************************)
(* What the packets check of their fields, in try_from and validate.        *)
(***************************************************************************)
MqttProtocol == {4, 5}

Bit(flags, weight) == (flags \div weight) % 2 = 1

IsWillFlag(p) == Bit(p.flags, 4)
IsUsername(p) == Bit(p.flags, 64)
IsPassword(p) == Bit(p.flags, 128)

SaysUtf8(props) == 1 \in DOMAIN props

(* Connect::validate, and the checks of MqttProtocol and ConnectFlags.  The *)
(* payload of a will is unwrapped when its properties say UTF-8.            *)
ValidConnect(p) ==
  /\ p.protocol_version \in MqttProtocol
  /\ p.protocol_name = <<77, 81, 84, 84>> /\ p.protocol_version = 5
  /\ ~Bit(p.flags, 1) /\ IsQoS((p.flags \div 8) % 4)
  /\ IsWillFlag(p) =>
       {"will_topic", "will_properties", "will_payload"} \subseteq DOMAIN p
  /\ "will_properties" \in DOMAIN p /\ SaysUtf8(p.will_properties) =>
       IsUtf8(p.will_payload)

ConnackReasonCode ==
  {0, 144, 149, 151, 159} \union (128 .. 138) \union {140} \union (153 .. 157)

(* ConnackFlags::unwrap.                                                    *)
ValidConnAck(p) == p.flags =< 1 /\ p.code \in ConnackReasonCode

(* Publish::validate.                                                       *)
ValidPublish(p) ==
  /\ p.qos = 0 => p.duplicate = 0
  /\ p.qos > 0 => "packet_id" \in DOMAIN p
  /\ ({"payload", "properties"} \subseteq DOMAIN p /\ SaysUtf8(p.properties)) =>
       IsUtf8(p.payload)

PubAckReasonCode == {0, 16, 128, 131, 135, 144, 145, 146, 151, 153}
PubRelReasonCode == {0, 146}

(* Pub::validate.                                                           *)
ValidPub(p) ==
  p.code \in IF p.type \in {"PubAck", "PubRec"} THEN PubAckReasonCode
             ELSE PubRelReasonCode

(* Subscribe::validate: no reserved bit, no retain handling 3, no QoS 3.    *)
ValidSubscribe(p) ==
  /\ p.filters # <<>>
  /\ \A i \in 1 .. Len(p.filters) :
       LET opt == p.filters[i][2]
       IN opt < 64 /\ opt \div 16 # 3 /\ IsQoS(opt % 4)

SubAckReasonCode == {0, 1, 2, 128, 131, 135, 143, 145, 151, 158, 161, 162}
UnsubAckReasonCode == {0, 17, 128, 131, 135, 143, 145}
DisconnReasonCode ==
  {0, 4} \union (128 .. 131) \union {135, 137, 139} \union (141 .. 144)
    \union (147 .. 162)
AuthReasonCode == {0, 24, 25}

ValidPacket(p) ==
  CASE p.type = "Connect" -> ValidConnect(p)
    [] p.type = "ConnAck" -> ValidConnAck(p)
    [] p.type = "Publish" -> ValidPublish(p)
    [] p.type \in PubTypes -> ValidPub(p)
    [] p.type = "Subscribe" -> ValidSubscribe(p)
    [] p.type = "SubAck" -> ToSet(p.return_codes) \subseteq SubAckReasonCode
    [] p.type = "UnSubscribe" -> p.topics # <<>>
    [] p.type = "UnsubAck" -> ToSet(p.return_codes) \subseteq UnsubAckReasonCode
    [] p.type = "Disconnect" -> p.code \in DisconnReasonCode
    [] p.type = "Auth" -> p.code \in AuthReasonCode
    [] OTHER -> TRUE

(***************************************************************************)
(* Decoding and encoding a packet.                                          *)
(***************************************************************************)
Taken(when, p) ==
  CASE when = "always" -> TRUE
    [] when = "will" -> IsWillFlag(p)
    [] when = "user" -> IsUsername(p)
    [] when = "pass" -> IsPassword(p)
    [] when = "qos" -> p.qos > 0

(* dec_field! and dec_props! for one field of the packet d has so far.      *)
TakeField(s, end, d, field) ==
  IF d.res # "ok" \/ ~Taken(field[3], d.val)
  THEN d
  ELSE Once(FieldDecode(field[2], s, d.n, end),
            LAMBDA f : CASE f.res # "ok" -> f
                         [] f.res = "ok" /\ "val" \notin DOMAIN f -> Ok(d.val, f.n)
                         [] OTHER -> Ok(d.val @@ (field[1] :> f.val), f.n))

(* What a packet has before its first field, and what a field left out      *)
(* stands for.                                                              *)
FromHeader(h) ==
  IF h.type = "Publish"
  THEN [type |-> h.type, retain |-> h.retain, qos |-> h.qos,
        duplicate |-> h.duplicate]
  ELSE [type |-> h.type]

Defaults(type) ==
  IF type \in PubTypes \union {"Disconnect", "Auth"} THEN "code" :> 0 ELSE <<>>

(* The decoder of each packet.                                              *)
PacketDecode(s) ==
  LET h == HeaderDecode(s)
      end == h.n + h.val.remaining_len
      take(acc, field) == Once(acc, LAMBDA d : TakeField(s, end, d, field))
      finish(d) == LET p == d.val @@ Defaults(h.val.type)
                   IN IF d.res # "ok" THEN d
                      ELSE IF ValidPacket(p) THEN Ok(p, d.n) ELSE Err
  IN IF h.res # "ok"
     THEN h
     ELSE Once(FoldLeft(take, Ok(FromHeader(h.val), h.n),
                        Layout(h.val.type, h.val.remaining_len)), finish)

(* FixedHeader::unwrap, which panics on a header nobody has validated.      *)
KnownHeader(byte1) ==
  byte1 \div 16 \in DOMAIN PacketType /\ IsQoS((byte1 \div 2) % 4)

(* MQTTRead::parse: the packet must be all of the frame.                    *)
Parse(s) ==
  IF ~KnownHeader(s[1])
  THEN Panic
  ELSE Once(Once(s, PacketDecode),
            LAMBDA d : IF d.res = "ok" /\ d.n # Len(s) THEN Err ELSE d)

FieldType(type, name) ==
  LET layout == Layout(type, 4)
  IN layout[SelectInSeq(layout, LAMBDA f : f[1] = name)][2]

(* The encoders call validate in CONNECT and SUBSCRIBE, and fail where a    *)
(* value has no encoding.                                                   *)
Encodes(p) ==
  /\ p.type = "Connect" => ValidConnect(p)
  /\ p.type = "Subscribe" => ValidSubscribe(p)
  /\ \A name \in DOMAIN p \intersect ToSet(Order(p.type)) :
       LET t == FieldType(p.type, name)
       IN CASE t \in DOMAIN PropertyKinds ->
                 \A id \in DOMAIN p[name] : \A i \in 1 .. Len(p[name][id]) :
                   Encodable(TypeOf[id], p[name][id][i])
            [] t = "filters" ->
                 \A i \in 1 .. Len(p[name]) : Encodable("filter", p[name][i][1])
            [] t = "topics" ->
                 \A i \in 1 .. Len(p[name]) : Encodable("filter", p[name][i])
            [] OTHER -> Encodable(t, p[name])

(* The properties of a packet are written also when there are none, those   *)
(* of a will are not.                                                       *)
EncodeField(p, name) ==
  IF name \in DOMAIN p
  THEN FieldEncode(FieldType(p.type, name), p[name])
  ELSE IF name = "properties" THEN VarEncode(0) ELSE <<>>

(* The encoder of each packet.                                              *)
PacketEncode(p) ==
  LET order == Order(p.type)
      fields == [i \in 1 .. Len(order) |-> EncodeField(p, order[i])]
  IN Once(Once(fields, FlattenSeq), LAMBDA data : InsertFixedHeader(p, data))

(* Packet::normalize: empty properties and an empty payload are None.       *)
Normalize(p) ==
  LET empty(name) ==
        \/ name \in {"properties", "will_properties"} /\ p.type # "Auth"
           /\ DOMAIN p[name] = {}
        \/ name = "payload" /\ p[name] = <<>>
  IN [name \in {n \in DOMAIN p : ~empty(n)} |-> p[name]]
=============================================================================

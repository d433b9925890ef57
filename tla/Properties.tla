----------------------------- MODULE Properties -----------------------------
(* The fixed header of a packet and the properties in it (src/v5/mod.rs and *)
(* the properties types of the other files of src/v5/).                     *)
(*                                                                          *)
(* Properties are a function from property types to the sequence of their   *)
(* values; PayloadFormat::Binary is the absence of the payload format       *)
(* indicator.  The eleven properties decoders and encoders are one shape    *)
(* filled from tables: which properties the decoder admits, and in which    *)
(* order the encoder writes them.                                           *)
EXTENDS Wire, TLC

(* PacketType, from 1 on.                                                   *)
PacketType ==
  <<"Connect", "ConnAck", "Publish", "PubAck", "PubRec", "PubRel", "PubComp",
    "Subscribe", "SubAck", "UnSubscribe", "UnsubAck", "PingReq", "PingResp",
    "Disconnect", "Auth">>

TypeNumber(t) == CHOOSE i \in DOMAIN PacketType : PacketType[i] = t

(***************************************************************************)
(* The fixed header.                                                       *)
(***************************************************************************)

(* The flags FixedHeader::new, new_pubrel, new_subscribe and                *)
(* new_unsubscribe give a packet.                                           *)
FlagsOf(t) == IF t \in {"PubRel", "Subscribe", "UnSubscribe"} THEN 2 ELSE 0

(* FixedHeader::validate.                                                   *)
ValidHeader(byte1) ==
  /\ byte1 \div 16 \in DOMAIN PacketType
  /\ IsQoS((byte1 \div 2) % 4)
  /\ LET t == PacketType[byte1 \div 16]
     IN t = "Publish" \/ byte1 % 16 = FlagsOf(t)

(* FixedHeader::decode and unwrap.                                          *)
HeaderDecode(s) ==
  LET rem == VarDecode(s, 1)
  IN IF s = <<>> \/ rem.res # "ok" \/ ~ValidHeader(s[1])
     THEN Err
     ELSE Ok([type |-> PacketType[s[1] \div 16], retain |-> s[1] % 2,
              qos |-> (s[1] \div 2) % 4, duplicate |-> (s[1] \div 8) % 2,
              remaining_len |-> rem.val], rem.n)

(* fixed_byte!.                                                             *)
FixedByte(p) ==
  16 * TypeNumber(p.type)
    + IF p.type = "Publish"
      THEN p.retain + 2 * p.qos + 8 * p.duplicate
      ELSE FlagsOf(p.type)

(* FixedHeader::encode and insert_fixed_header.                             *)
InsertFixedHeader(p, data) == <<FixedByte(p)>> \o VarEncode(Len(data)) \o data

(***************************************************************************)
(* Properties.  What each decoder admits: the property types, those whose   *)
(* value may not be zero, those that are Boolean (or a payload format), and *)
(* those that may come twice.                                               *)
(***************************************************************************)
Admits(types, nonzero, bools, many) ==
  [types |-> types, nonzero |-> nonzero, bools |-> bools, many |-> many]

ConnectPropertiesDecode ==
  Admits({17, 33, 39, 34, 25, 23, 38, 21, 22}, {33, 39}, {25, 23}, {38})
ConnectPropertiesEncode == <<17, 33, 39, 34, 25, 23, 21, 22, 38>>

WillPropertiesDecode == Admits({24, 1, 2, 3, 8, 9, 38}, {}, {1}, {38})
WillPropertiesEncode == <<24, 1, 2, 3, 8, 9, 38>>

ConnAckPropertiesDecode ==
  Admits({17, 33, 36, 37, 39, 18, 34, 31, 38, 40, 41, 42, 19, 26, 28, 21, 22},
         {33, 39}, {37, 40, 41, 42}, {38})
ConnAckPropertiesEncode ==
  <<17, 33, 36, 37, 39, 18, 34, 31, 40, 41, 42, 19, 26, 28, 21, 22, 38>>

PublishPropertiesDecode ==
  Admits({1, 2, 35, 8, 9, 11, 3, 38}, {35}, {1}, {38, 11})
PublishPropertiesEncode == <<1, 2, 35, 8, 9, 3, 11, 38>>

PubPropertiesDecode == Admits({31, 38}, {}, {}, {38})
PubPropertiesEncode == <<31, 38>>

SubscribePropertiesDecode == Admits({11, 38}, {11}, {}, {38})
SubscribePropertiesEncode == <<11, 38>>

SubAckPropertiesDecode == Admits({31, 38}, {}, {}, {38})
SubAckPropertiesEncode == <<31, 38>>

UnSubscribePropertiesDecode == Admits({38}, {}, {}, {38})
UnSubscribePropertiesEncode == <<38>>

UnsubAckPropertiesDecode == Admits({31, 38}, {}, {}, {38})
UnsubAckPropertiesEncode == <<31, 38>>

DisconnPropertiesDecode == Admits({17, 31, 28, 38}, {}, {}, {38})
DisconnPropertiesEncode == <<17, 31, 28, 38>>

AuthPropertiesDecode == Admits({21, 22, 31, 38}, {}, {}, {38})
AuthPropertiesEncode == <<21, 22, 31, 38>>

PropertyKinds ==
  [ConnectProperties |-> <<ConnectPropertiesDecode, ConnectPropertiesEncode>>,
   WillProperties |-> <<WillPropertiesDecode, WillPropertiesEncode>>,
   ConnAckProperties |-> <<ConnAckPropertiesDecode, ConnAckPropertiesEncode>>,
   PublishProperties |-> <<PublishPropertiesDecode, PublishPropertiesEncode>>,
   PubProperties |-> <<PubPropertiesDecode, PubPropertiesEncode>>,
   SubscribeProperties |->
     <<SubscribePropertiesDecode, SubscribePropertiesEncode>>,
   SubAckProperties |-> <<SubAckPropertiesDecode, SubAckPropertiesEncode>>,
   UnSubscribeProperties |->
     <<UnSubscribePropertiesDecode, UnSubscribePropertiesEncode>>,
   UnsubAckProperties |->
     <<UnsubAckPropertiesDecode, UnsubAckPropertiesEncode>>,
   DisconnProperties |-> <<DisconnPropertiesDecode, DisconnPropertiesEncode>>,
   AuthProperties |-> <<AuthPropertiesDecode, AuthPropertiesEncode>>]

(* The value zero of a property's type, for the types that compare with it. *)
ZeroOf(id) == IF TypeOf[id] = "u32" THEN <<0, 0>> ELSE 0

(* One turn of the loop of a properties decoder accepts the property: the   *)
(* array `dups` holds the types seen so far, those in props.                *)
Accepts(admits, props, id, v) ==
  /\ id \in admits.types
  /\ id \in DOMAIN props => id \in admits.many
  /\ id \in admits.nonzero => v # ZeroOf(id)
  /\ id \in admits.bools => v =< 1

(* The payload format Binary is the default, not a value.                   *)
DropBinary(props) ==
  [id \in {i \in DOMAIN props : i = 1 => props[i] # <<0>>} |-> props[id]]

(* A repeated property that replaces the one before.                        *)
StoreLast(props, id, v) == (id :> <<v>>) @@ props

(* A property a decoder has accepted: user properties and subscription      *)
(* identifiers are pushed, the others set.                                  *)
Store(props, id, v) ==
  IF id \in DOMAIN props THEN [props EXCEPT ![id] = Append(@, v)]
  ELSE (id :> <<v>>) @@ props

(* The loop of the properties decoders, up to the limit.                    *)
RECURSIVE PropertyLoop(_, _, _, _)
PropertyLoop(admits, s, limit, loop) ==
  LET turn(d) ==
        IF d.res # "ok"
        THEN d
        ELSE IF ~Accepts(admits, loop.val, d.val[1], d.val[2])
        THEN Err
        ELSE Ok(Store(loop.val, d.val[1], d.val[2]), d.n)
  IN CASE loop.res # "ok" -> loop
       [] loop.res = "ok" /\ loop.n >= limit -> Ok(DropBinary(loop.val), loop.n)
       [] OTHER -> Once(Once(PropertyDecode(s, loop.n), turn),
                        LAMBDA next : PropertyLoop(admits, s, limit, next))

(* dec_props! and the decoders it calls.  AuthProperties refuses properties *)
(* without a method and data.                                               *)
PropertiesDecode(kind, s, n) ==
  LET len == VarDecode(s, n)
      finish(d) ==
        IF /\ d.res = "ok"
           /\ \/ d.n # len.n + len.val
              \/ kind = "AuthProperties" /\ ~({21, 22} \subseteq DOMAIN d.val)
        THEN Err
        ELSE d
  IN CASE len.res # "ok" -> len
       [] len.res = "ok" /\ len.val = 0 -> Nothing(len.n)
       [] OTHER -> Once(PropertyLoop(PropertyKinds[kind][1], s, len.n + len.val,
                                     Ok(<<>>, len.n)), finish)

(* The properties encoders, and insert_property_len.                        *)
PropertiesEncode(kind, props) ==
  LET of(id) == IF id \in DOMAIN props
                THEN FlattenSeq([i \in 1 .. Len(props[id]) |->
                                   PropertyEncode(id, props[id][i])])
                ELSE <<>>
      order == PropertyKinds[kind][2]
      parts == [i \in 1 .. Len(order) |-> of(order[i])]
  IN Once(Once(parts, FlattenSeq), LAMBDA data : VarEncode(Len(data)) \o data)
=============================================================================

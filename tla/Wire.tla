--------------------------------- MODULE Wire ---------------------------------
(* The wire types of MQTT 5: integers, strings, topics, properties and the  *)
(* fixed header, with the conversions of src/types.rs, src/util.rs and      *)
(* src/v5/mod.rs.  A u32 is the pair of its 16-bit halves.                  *)
EXTENDS VarInt, FiniteSets, SequencesExt

U16Encode(v) == <<v \div 256, v % 256>>

(* The bytes a .. b of s (a slice of Rust, b excluded), if they exist.      *)
Slice(s, a, b) ==
  IF a =< b /\ b =< Len(s) THEN Ok(SubSeq(s, a + 1, b), b) ELSE Panic

(* u8::decode, u16::decode and u32::decode after util::advance.             *)
U8Decode(s, n) == IF Len(s) - n >= 1 THEN Ok(s[n + 1], n + 1) ELSE Err

U16Decode(s, n) ==
  IF Len(s) - n >= 2 THEN Ok(256 * s[n + 1] + s[n + 2], n + 2) ELSE Err

U32Decode(s, n) ==
  IF Len(s) - n >= 4
  THEN Ok(<<256 * s[n + 1] + s[n + 2], 256 * s[n + 3] + s[n + 4]>>, n + 4)
  ELSE Err

(* Vec<u8>::decode without the comparison of the length with the stream.    *)
BinDecodeUnchecked(s, n) ==
  LET len == U16Decode(s, n)
  IN IF len.res # "ok" THEN len ELSE Slice(s, n + 2, n + 2 + len.val)

(* Vec<u8>::decode: a two-byte length, then that many bytes.                *)
BinDecode(s, n) ==
  LET take(len) == CASE len.res # "ok" -> len
                     [] len.res = "ok" /\ len.val + 2 > Len(s) - n -> Err
                     [] OTHER -> Slice(s, n + 2, n + 2 + len.val)
  IN Once(U16Decode(s, n), take)

(* std::str::from_utf8, for text of one-byte characters.                    *)
IsUtf8(b) == \A i \in 1 .. Len(b) : b[i] < 128

(* util::is_valid_utf8_code_point, over the one-byte characters.            *)
IsValidCodePoint(c) == ~(c =< 31 \/ c \in 127 .. 159)

(* What String::decode and String::encode accept.                           *)
IsString(b) ==
  /\ IsUtf8(b)
  /\ \A i \in 1 .. Len(b) : IsValidCodePoint(b[i])
  /\ Len(b) =< 65535

Hash == 35
Plus == 43
Slash == 47

(* TopicName::validate.                                                     *)
IsTopicName(b) ==
  b # <<>> /\ \A i \in 1 .. Len(b) : b[i] \notin {Hash, Plus, 0}

(* TopicFilter::validate: a wildcard is a whole level, and "#" is the last  *)
(* level.                                                                   *)
IsTopicFilter(b) ==
  LET starts(i) == i = 1 \/ b[i - 1] = Slash
      ends(i) == i = Len(b) \/ b[i + 1] = Slash
  IN /\ b # <<>>
     /\ \A i \in 1 .. Len(b) :
          /\ b[i] # 0
          /\ b[i] \in {Hash, Plus} => starts(i) /\ ends(i)
          /\ b[i] = Hash => i = Len(b)

(* A decoder's answer, refused unless the value passes a check.             *)
Checked(decoded, Check(_)) ==
  Once(decoded, LAMBDA d : IF d.res = "ok" /\ ~Check(d.val) THEN Err ELSE d)

(* Two decoders in a row: the value of the first selects the second, which  *)
(* goes on where the first stopped.                                         *)
Then(decoded, Decode(_, _)) ==
  LET pair(a) == Once(Decode(a.val, a.n),
                      LAMBDA b : IF b.res = "ok" THEN Ok(<<a.val, b.val>>, b.n)
                                 ELSE b)
  IN Once(decoded, LAMBDA a : IF a.res = "ok" THEN pair(a) ELSE a)

StrDecode(s, n) == Checked(BinDecode(s, n), IsString)

(* UserProperty::decode: a key and a value.                                 *)
PairDecode(s, n) == Then(StrDecode(s, n), LAMBDA key, m : StrDecode(s, m))

IsQoS(v) == v \in 0 .. 2

(* The values a property or a field can have, by the Rust type of it.       *)
ValueDecode(t, s, n) ==
  CASE t = "u8" -> U8Decode(s, n)
    [] t = "qos" -> Checked(U8Decode(s, n), IsQoS)
    [] t = "u16" -> U16Decode(s, n)
    [] t = "u32" -> U32Decode(s, n)
    [] t = "var" -> VarDecode(s, n)
    [] t = "bin" -> BinDecode(s, n)
    [] t = "str" -> StrDecode(s, n)
    [] t = "topic" -> Checked(StrDecode(s, n), IsTopicName)
    [] t = "filter" -> Checked(StrDecode(s, n), IsTopicFilter)
    [] t = "pair" -> PairDecode(s, n)

BinEncode(b) == U16Encode(Len(b)) \o b

ValueEncode(t, v) ==
  CASE t \in {"u8", "qos"} -> <<v>>
    [] t = "u16" -> U16Encode(v)
    [] t = "u32" -> U16Encode(v[1]) \o U16Encode(v[2])
    [] t = "var" -> VarEncode(v)
    [] t \in {"bin", "str", "topic", "filter"} -> BinEncode(v)
    [] t = "pair" -> BinEncode(v[1]) \o BinEncode(v[2])

(* The values the encoders do not refuse.                                   *)
Encodable(t, v) ==
  CASE t = "var" -> v =< MaxVar
    [] t = "bin" -> Len(v) =< 65535
    [] t = "str" -> IsString(v)
    [] t = "topic" -> IsString(v) /\ IsTopicName(v)
    [] t = "filter" -> IsString(v) /\ IsTopicFilter(v)
    [] t = "pair" -> IsString(v[1]) /\ IsString(v[2])
    [] OTHER -> TRUE

(* PropertyType, with the type of the value each property carries.          *)
PropertyTypes ==
  {"u8"} \X {1, 23, 25, 37, 40, 41, 42} \union {"qos"} \X {36}
    \union {"u16"} \X {19, 33, 34, 35} \union {"u32"} \X {2, 17, 24, 39}
    \union {"var"} \X {11} \union {"str"} \X {3, 18, 21, 26, 28, 31}
    \union {"topic"} \X {8} \union {"bin"} \X {9, 22} \union {"pair"} \X {38}

TypeOf == [id \in {e[2] : e \in PropertyTypes} |->
             (CHOOSE e \in PropertyTypes : e[2] = id)[1]]

(* Property::decode: the type, then the value.                              *)
PropertyDecode(s, n) ==
  Then(VarDecode(s, n),
       LAMBDA id, m : IF id \in DOMAIN TypeOf THEN ValueDecode(TypeOf[id], s, m)
                      ELSE Err)

(* Property::encode and enc_prop!.                                          *)
PropertyEncode(id, v) == VarEncode(id) \o ValueEncode(TypeOf[id], v)
=============================================================================

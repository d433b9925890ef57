-------------------------------- MODULE VarInt --------------------------------
(* What every decoder of the codec returns, and VarU32, the integer of one  *)
(* to four bytes that frames packets and properties (src/types.rs).         *)
(*                                                                          *)
(* A decoder reads a stream of bytes from an offset, the number of bytes    *)
(* already taken.  It takes a value and says where it stopped, takes        *)
(* nothing, fails with an error, or panics (a slice out of range).  Errors  *)
(* are not told apart: every one of them ends the connection.               *)
EXTENDS Integers, Sequences

Byte == 0 .. 255

Ok(v, n) == [res |-> "ok", val |-> v, n |-> n]
Nothing(n) == [res |-> "ok", n |-> n]
Err == [res |-> "err"]
Panic == [res |-> "panic"]

(* Op(v), with v evaluated once.                                            *)
Once(v, Op(_)) == CHOOSE r \in {Op(x) : x \in {v}} : TRUE

(* VarU32::MAX.                                                             *)
MaxVar == 268435455

(* The group of seven bits of v that starts at the bit of weight w.         *)
Group(v, w) == (v \div w) % 128

(* VarU32::encode, for v =< MaxVar.  Every byte but the last carries the    *)
(* continuation bit.                                                        *)
VarEncode(v) ==
  LET more(w) == Group(v, w) + 128
  IN CASE v < 128 -> <<v>>
       [] v >= 128 /\ v < 16384 -> <<more(1), Group(v, 128)>>
       [] v >= 16384 /\ v < 2097152 -> <<more(1), more(128), Group(v, 16384)>>
       [] v >= 2097152 ->
            <<more(1), more(128), more(16384), Group(v, 2097152)>>

(* VarU32::decode: at most four bytes, up to the first without a            *)
(* continuation bit.                                                        *)
VarDecode(s, n) ==
  LET here == Len(s) - n
      low(i) == s[n + i] % 128
  IN IF here >= 1 /\ s[n + 1] < 128
     THEN Ok(low(1), n + 1)
     ELSE IF here >= 2 /\ s[n + 2] < 128
     THEN Ok(low(1) + 128 * low(2), n + 2)
     ELSE IF here >= 3 /\ s[n + 3] < 128
     THEN Ok(low(1) + 128 * low(2) + 16384 * low(3), n + 3)
     ELSE IF here >= 4 /\ s[n + 4] < 128
     THEN Ok(low(1) + 128 * low(2) + 16384 * low(3) + 2097152 * low(4), n + 4)
     ELSE Err
=============================================================================

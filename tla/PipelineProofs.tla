---------------------------- MODULE PipelineProofs ----------------------------
(***************************************************************************)
(* Proofs that no packet is lost or torn on its way to the session, that   *)
(* the client gets the answers whole, and that the socket's own queues     *)
(* are bounded, for every stream of packets, base and size of a queue.     *)
(***************************************************************************)
EXTENDS Pipeline, VarInt, SequenceLemmas

(* What VarU32::encode writes, VarU32::decode reads back.                  *)

(* A number is its lowest seven bits and the rest.                          *)
LEMMA Split ==
  ASSUME NEW v \in Nat
  PROVE  /\ v % 128 \in 0 .. 127
         /\ v \div 128 \in Nat
         /\ v = 128 * (v \div 128) + (v % 128)
<1>1. v % 128 \in 0 .. 127 /\ v \div 128 \in Nat
  BY SMT
<1>2. v = 128 * (v \div 128) + (v % 128)
  BY Z3
<1> QED
  BY <1>1, <1>2

(* The groups VarU32::encode takes from a value are bytes without the       *)
(* continuation bit, and they make up the value again.                      *)
LEMMA Groups ==
  ASSUME NEW v \in Nat, v =< MaxVar
  PROVE  /\ \A w \in {1, 128, 16384, 2097152} : Group(v, w) \in 0 .. 127
         /\ v < 128 => v = Group(v, 1)
         /\ v < 16384 => v = Group(v, 1) + 128 * Group(v, 128)
         /\ v < 2097152 =>
              v = Group(v, 1) + 128 * Group(v, 128) + 16384 * Group(v, 16384)
         /\ v = Group(v, 1) + 128 * Group(v, 128) + 16384 * Group(v, 16384)
                  + 2097152 * Group(v, 2097152)
<1> DEFINE a == v \div 128
           b == a \div 128
           c == b \div 128
<1>1. v \in Nat /\ v < 268435456
  BY Z3 DEF MaxVar
<1>2. a \in Nat /\ v % 128 \in 0 .. 127 /\ v = 128 * a + (v % 128)
  BY <1>1, Split, SMT
<1>3. b \in Nat /\ a % 128 \in 0 .. 127 /\ a = 128 * b + (a % 128)
  BY <1>2, Split, SMT
<1>4. c \in Nat /\ b % 128 \in 0 .. 127 /\ b = 128 * c + (b % 128)
  BY <1>3, Split, SMT
<1>5. /\ Group(v, 1) = v % 128
      /\ Group(v, 128) = a % 128
      /\ Group(v, 16384) = b % 128
      /\ Group(v, 2097152) = c % 128
  <2>1. v \div 1 = v
    BY <1>1, SMT
  <2>2. b = v \div 16384
    BY <1>1, SMT
  <2>3. c = v \div 2097152
    BY <1>1, SMT
  <2> QED
    BY <2>1, <2>2, <2>3, SMT DEF Group
<1> HIDE DEF a, b, c
<1>6. c < 128 /\ c % 128 = c
  <2>1. c < 128
    BY <1>1, <1>2, <1>3, <1>4, SMT
  <2> QED
    BY <2>1, <1>4, SMT
<1>7. \A w \in {1, 128, 16384, 2097152} : Group(v, w) \in 0 .. 127
  BY <1>2, <1>3, <1>4, <1>5, <1>6, SMT
<1>8. v = Group(v, 1) + 128 * Group(v, 128) + 16384 * Group(v, 16384)
            + 2097152 * Group(v, 2097152)
  BY <1>2, <1>3, <1>4, <1>5, <1>6, SMT
<1>9. v < 2097152 => c = 0
  BY <1>2, <1>3, <1>4, SMT
<1>10. v < 16384 => b = 0 /\ c = 0
  BY <1>2, <1>3, <1>4, SMT
<1>11. v < 128 => a = 0 /\ b = 0 /\ c = 0
  BY <1>2, <1>3, <1>4, SMT
<1> QED
  BY <1>2, <1>3, <1>4, <1>5, <1>6, <1>7, <1>8, <1>9, <1>10, <1>11, SMT

(* VarU32::encode followed by VarU32::decode is the identity: in a stream s *)
(* that holds the bytes of a value behind the first n, decode takes exactly *)
(* those bytes and returns the value, whatever follows them.                *)
THEOREM RoundTrip ==
  ASSUME NEW v \in Nat, v =< MaxVar, NEW s \in Seq(Byte), NEW n \in Nat,
         n + Len(VarEncode(v)) =< Len(s),
         \A i \in 1 .. Len(VarEncode(v)) : s[n + i] = VarEncode(v)[i]
  PROVE  VarDecode(s, n) = Ok(v, n + Len(VarEncode(v)))
<1> DEFINE g0 == Group(v, 1)
           g1 == Group(v, 128)
           g2 == Group(v, 16384)
           g3 == Group(v, 2097152)
<1>1. g0 \in 0 .. 127 /\ g1 \in 0 .. 127 /\ g2 \in 0 .. 127 /\ g3 \in 0 .. 127
  BY Groups, SMT
<1>2. /\ (g0 + 128) % 128 = g0 /\ g0 % 128 = g0 /\ (g1 + 128) % 128 = g1
      /\ g1 % 128 = g1 /\ (g2 + 128) % 128 = g2 /\ g2 % 128 = g2
      /\ g3 % 128 = g3
  <2>1. \A g \in 0 .. 127 : (g + 128) % 128 = g /\ g % 128 = g
    BY SMT
  <2> HIDE DEF g0, g1, g2, g3
  <2> QED
    BY <1>1, <2>1, SMT
<1>3. CASE v < 128
  <2>1. VarEncode(v) = <<v>>
    BY <1>3, SMT DEF VarEncode
  <2>2. s[n + 1] = v /\ Len(s) - n >= 1
    BY <2>1, SMT
  <2> QED
    BY <1>3, <2>1, <2>2, SMT DEF VarDecode, Ok
<1>4. CASE v >= 128 /\ v < 16384
  <2>1. VarEncode(v) = <<g0 + 128, g1>>
    BY <1>4, SMT DEF VarEncode
  <2>2. s[n + 1] = g0 + 128 /\ s[n + 2] = g1 /\ Len(s) - n >= 2
    BY <2>1, SMT
  <2> DEFINE sum == g0 + 128 * g1
  <2>3. v = sum
    BY <1>4, Groups, SMT
  <2>4. Len(VarEncode(v)) = 2
    BY <2>1, SMT
  <2> HIDE DEF g0, g1, g2, g3
  <2>5. VarDecode(s, n) = Ok(sum, n + 2)
    BY <1>1, <1>2, <2>2, SMT DEF VarDecode
  <2> HIDE DEF sum
  <2> QED
    BY <2>3, <2>4, <2>5, Zenon
<1>5. CASE v >= 16384 /\ v < 2097152
  <2>1. VarEncode(v) = <<g0 + 128, g1 + 128, g2>>
    BY <1>5, SMT DEF VarEncode
  <2>2. /\ s[n + 1] = g0 + 128 /\ s[n + 2] = g1 + 128 /\ s[n + 3] = g2
        /\ Len(s) - n >= 3
    BY <2>1, SMT
  <2> DEFINE sum == g0 + 128 * g1 + 16384 * g2
  <2>3. v = sum
    BY <1>5, Groups, SMT
  <2>4. Len(VarEncode(v)) = 3
    BY <2>1, SMT
  <2> HIDE DEF g0, g1, g2, g3
  <2>5. VarDecode(s, n) = Ok(sum, n + 3)
    BY <1>1, <1>2, <2>2, SMT DEF VarDecode
  <2> HIDE DEF sum
  <2> QED
    BY <2>3, <2>4, <2>5, Zenon
<1>6. CASE v >= 2097152
  <2>1. VarEncode(v) = <<g0 + 128, g1 + 128, g2 + 128, g3>>
    BY <1>6, SMT DEF VarEncode
  <2>2. /\ s[n + 1] = g0 + 128 /\ s[n + 2] = g1 + 128 /\ s[n + 3] = g2 + 128
        /\ s[n + 4] = g3 /\ Len(s) - n >= 4
    BY <2>1, SMT
  <2> DEFINE sum == g0 + 128 * g1 + 16384 * g2 + 2097152 * g3
  <2>3. v = sum
    BY Groups, SMT
  <2>4. Len(VarEncode(v)) = 4
    BY <2>1, SMT
  <2> HIDE DEF g0, g1, g2, g3
  <2>5. VarDecode(s, n) = Ok(sum, n + 4)
    BY <1>1, <1>2, <2>2, SMTT(30) DEF VarDecode
  <2> HIDE DEF sum
  <2> QED
    BY <2>3, <2>4, <2>5, Zenon
<1> QED
  BY <1>3, <1>4, <1>5, <1>6, SMT
-----------------------------------------------------------------------------
Pcs == {"send", "sendlast", "read", "flush", "flushlast", "recv", "failed"}

TypeOK ==
  /\ stream \in Seq(Nat) /\ arrived \in 0 .. Len(stream) /\ ipos \in 0 .. arrived
  /\ pr \in [state : {"Init", "Header", "Remain"}, data : Seq(Nat), size : Nat]
  /\ rd \in Seq(Seq(Nat)) /\ up \in Seq(Seq(Nat)) /\ handled \in Seq(Seq(Nat))
  /\ acks \in Seq(Seq(Nat)) /\ down \in Seq(Seq(Nat)) /\ wt \in Seq(Seq(Nat))
  /\ pw \in Seq(Nat) /\ wire \in Seq(Nat)
  /\ taken \in 0 .. Len(wire) /\ Len(wire) - taken =< SendBuffer
  /\ pc \in Pcs /\ recvd \in Nat

(* The miot thread reads only with no packet waiting, and receives only    *)
(* with none but those of this batch; a packet that is waited for has      *)
(* bytes to come.                                                          *)
Paced ==
  /\ pr.state = "Remain" => Len(pr.data) < pr.size
  /\ pc = "read" => rd = <<>>
  /\ pc = "recv" => Len(wt) = recvd /\ recvd =< Batch

IInv == TypeOK /\ Paced /\ StreamIsWhole /\ AnswersAreWhole /\ SocketsAreBounded
-----------------------------------------------------------------------------
(* The queues of the pipeline.                                             *)

(* A queue hands its first element on to the end of the one before it.     *)
HandsOn(M) ==
  \A h, u, r \in Seq(M) :
    /\ r # <<>> => h \o Append(u, Head(r)) \o Tail(r) = h \o u \o r
    /\ u # <<>> => Append(h, Head(u)) \o Tail(u) \o r = h \o u \o r

(* Moving an element from one of three queues to the one before it leaves  *)
(* their concatenation: send_upstream, route_packets and out_acks_flush.   *)
LEMMA HandedOn == \A M : HandsOn(M)
<1> SUFFICES ASSUME NEW M, NEW h \in Seq(M), NEW u \in Seq(M), NEW r \in Seq(M)
             PROVE  /\ r # <<>> => h \o Append(u, Head(r)) \o Tail(r) = h \o u \o r
                    /\ u # <<>> => Append(h, Head(u)) \o Tail(u) \o r = h \o u \o r
  BY Zenon DEF HandsOn
<1>1. ASSUME r # <<>>  PROVE h \o Append(u, Head(r)) \o Tail(r) = h \o u \o r
  <2>1. Assoc(M)  BY Zenon, Associative
  <2>2. /\ Append(u, Head(r)) \in Seq(M) /\ Tail(r) \in Seq(M)
        /\ Append(u, Head(r)) \o Tail(r) = u \o r
    BY <1>1, SMTT(30)
  <2>3. (h \o Append(u, Head(r))) \o Tail(r) = h \o (Append(u, Head(r)) \o Tail(r))
    BY Zenon, <2>1, <2>2 DEF Assoc
  <2>4. (h \o u) \o r = h \o (u \o r)  BY Zenon, <2>1 DEF Assoc
  <2> QED  BY Zenon, <2>2, <2>3, <2>4
<1>2. ASSUME u # <<>>  PROVE Append(h, Head(u)) \o Tail(u) \o r = h \o u \o r
  BY <1>2
<1> QED  BY <1>1, <1>2

(* An element joins the last of three queues.                              *)
Joins(M) ==
  \A h, u, r \in Seq(M), x \in M : h \o u \o Append(r, x) = Append(h \o u \o r, x)

(* A new element is the last of the three: what read_packet does.          *)
LEMMA Joined == \A M : Joins(M)
BY DEF Joins

(* Where two sequences split one sequence, they agree.                     *)
LEMMA SameElement ==
  ASSUME NEW M, NEW a \in Seq(M), NEW b \in Seq(M), NEW p \in Seq(M), NEW q \in Seq(M),
         a \o b = p \o q, NEW i \in 1 .. Len(a), i =< Len(p)
  PROVE  a[i] = p[i]
<1>1. (a \o b)[i] = a[i] /\ (p \o q)[i] = p[i]  OBVIOUS
<1> QED  BY <1>1

(* Of two ways to split one sequence, the longer first part begins with    *)
(* the shorter one, and goes on as the other second part does.             *)
LEMMA SplitFurther ==
  ASSUME NEW M, NEW a \in Seq(M), NEW b \in Seq(M), NEW p \in Seq(M), NEW q \in Seq(M),
         a \o b = p \o q, Len(p) =< Len(a)
  PROVE  /\ SubSeq(a, 1, Len(p)) = p
         /\ SubSeq(a, Len(p) + 1, Len(a)) \o b = q
<1> DEFINE f == SubSeq(a, 1, Len(p))
           r == SubSeq(a, Len(p) + 1, Len(a))
<1>0. Len(a) \in Nat /\ Len(p) \in Nat /\ Len(b) \in Nat /\ Len(q) \in Nat  OBVIOUS
<1>1. f \in Seq(M) /\ Len(f) = Len(p) /\ \A i \in 1 .. Len(p) : f[i] = a[i]
  OBVIOUS
<1>2. /\ r \in Seq(M) /\ Len(r) = Len(a) - Len(p)
      /\ \A i \in 1 .. Len(a) - Len(p) : r[i] = a[Len(p) + i]
  OBVIOUS
<1> HIDE DEF f, r
<1>3. \A i \in 1 .. Len(p) : a[i] = p[i]  BY <1>0, SameElement
<1>4. f = p  BY <1>1, <1>3, SeqEqual
<1>5. /\ Len(a \o b) = Len(a) + Len(b) /\ Len(p \o q) = Len(p) + Len(q)
      /\ \A i \in 1 .. Len(a) + Len(b) :
           (a \o b)[i] = IF i <= Len(a) THEN a[i] ELSE b[i - Len(a)]
      /\ \A i \in 1 .. Len(p) + Len(q) :
           (p \o q)[i] = IF i <= Len(p) THEN p[i] ELSE q[i - Len(p)]
  BY ConcatProperties
<1>6. Len(r \o b) = Len(q) /\ r \o b \in Seq(M)  BY <1>0, <1>2, <1>5
<1>7. ASSUME NEW i \in 1 .. Len(q)  PROVE (r \o b)[i] = q[i]
  <2>1. i \in 1 .. Len(r) + Len(b) /\ (i > Len(r) => i - Len(r) \in 1 .. Len(b))
    BY <1>0, <1>2, <1>5
  <2>2. (r \o b)[i] = IF i <= Len(r) THEN r[i] ELSE b[i - Len(r)]
    BY <1>2, <2>1, ConcatProperties
  <2>3. /\ Len(p) + i \in 1 .. Len(a) + Len(b) /\ Len(p) + i \in 1 .. Len(p) + Len(q)
        /\ (Len(p) + i) - Len(p) = i /\ ~ (Len(p) + i <= Len(p))
        /\ (Len(p) + i) - Len(a) = i - Len(r) /\ (i <= Len(r) <=> Len(p) + i <= Len(a))
    BY <1>0, <1>2, <1>5
  <2>4. (p \o q)[Len(p) + i] = q[i]  BY <1>5, <2>3, Zenon
  <2>5. (a \o b)[Len(p) + i] = IF i <= Len(r) THEN a[Len(p) + i] ELSE b[i - Len(r)]
    BY <1>5, <2>3, Zenon
  <2>6. i <= Len(r) => r[i] = a[Len(p) + i]  BY <1>0, <1>2
  <2> QED  BY <2>2, <2>4, <2>5, <2>6
<1>8. r \o b = q  BY <1>6, <1>7, SeqEqual
<1> QED  BY <1>4, <1>8 DEF f, r
-----------------------------------------------------------------------------
(* The elements of a first part.                                           *)
Begins(r, s) == Len(r) <= Len(s) /\ r = SubSeq(s, 1, Len(r))

(* Begins, element by element.                                             *)
LEMMA PrefixElements ==
  ASSUME NEW M, NEW r \in Seq(M), NEW s \in Seq(M)
  PROVE  Begins(r, s) <=> Len(r) =< Len(s) /\ \A i \in 1 .. Len(r) : r[i] = s[i]
<1>1. SubSeq(r, 1, Len(r)) = r  BY SubSeqFull
<1>2. ASSUME Len(r) =< Len(s)
      PROVE  r = SubSeq(s, 1, Len(r)) <=> \A i \in 1 .. Len(r) : r[i] = s[i]
  <2> DEFINE t == SubSeq(s, 1, Len(r))
  <2>1. t \in Seq(M) /\ Len(t) = Len(r) /\ \A i \in 1 .. Len(r) : t[i] = s[i]  BY <1>2
  <2> HIDE DEF t
  <2>2. (\A i \in 1 .. Len(r) : r[i] = s[i]) => r = t  BY <2>1, SeqEqual
  <2>3. r = t => \A i \in 1 .. Len(r) : r[i] = s[i]  BY <2>1
  <2> QED  BY <2>2, <2>3 DEF t
<1> QED  BY <1>1, <1>2 DEF Begins

(* A prefix with the next element is one: the next packet sent is read.    *)
LEMMA PrefixGrows ==
  ASSUME NEW M, NEW r \in Seq(M), NEW s \in Seq(M), Begins(r, s), Len(r) + 1 =< Len(s)
  PROVE  Begins(Append(r, s[Len(r) + 1]), s)
<1> DEFINE x == s[Len(r) + 1]
           t == Append(r, x)
<1>1. Len(r) \in Nat /\ Len(s) \in Nat /\ Len(r) + 1 \in 1 .. Len(s)  OBVIOUS
<1>2. x \in M  BY <1>1
<1>3. \A i \in 1 .. Len(r) : r[i] = s[i]  BY PrefixElements
<1>4. /\ t \in Seq(M) /\ Len(t) = Len(r) + 1 /\ t[Len(r) + 1] = x
      /\ \A i \in 1 .. Len(r) : t[i] = r[i]
  BY <1>2, AppendProperties
<1>5. \A i \in 1 .. Len(t) : t[i] = s[i]  BY <1>1, <1>3, <1>4
<1> HIDE DEF t
<1>6. Begins(t, s)  BY <1>4, <1>5, PrefixElements
<1> QED  BY <1>6 DEF t

(* Reading moves bytes from the stream to the buffer.                      *)
LEMMA BytesMove ==
  ASSUME NEW st \in Seq(Nat), NEW had \in Seq(Nat), NEW i \in 0 .. Len(st),
         NEW n \in 0 .. Len(st) - i
  PROVE  /\ had \o SubSeq(st, i + 1, i + n) \in Seq(Nat)
         /\ SubSeq(st, (i + n) + 1, Len(st)) \in Seq(Nat)
         /\ (had \o SubSeq(st, i + 1, i + n)) \o SubSeq(st, (i + n) + 1, Len(st))
              = had \o SubSeq(st, i + 1, Len(st))
<1> DEFINE got == SubSeq(st, i + 1, i + n)
           left == SubSeq(st, (i + n) + 1, Len(st))
<1>1. Len(st) \in Nat  OBVIOUS
<1>2. got \in Seq(Nat) /\ left \in Seq(Nat)  BY <1>1
<1>3. /\ i + 1 \in 1 .. Len(st) + 1 /\ i + n \in (i + 1) - 1 .. Len(st)
      /\ Len(st) \in i + n .. Len(st)
  BY <1>1
<1>4. got \o left = SubSeq(st, i + 1, Len(st))  BY <1>3, ConcatAdjacentSubSeq
<1> HIDE DEF got, left
<1>5. had \o got \in Seq(Nat)  BY <1>2
<1>6. (had \o got) \o left = had \o (got \o left)
  <2>1. Assoc(Nat)  BY Zenon, Associative
  <2> QED  BY Zenon, <1>2, <2>1 DEF Assoc
<1> QED  BY Zenon, <1>2, <1>4, <1>5, <1>6 DEF got, left
-----------------------------------------------------------------------------
(* What Bytes computes: it is Flatten.                                      *)

(* The bytes of no packet.                                                 *)
LEMMA BytesEmpty == Bytes(<<>>) = <<>>
BY FlattenEmpty DEF Bytes

(* Of packets of bytes they are bytes.                                     *)
LEMMA BytesTyped ==
  ASSUME NEW B, NEW s \in Seq(Seq(B))
  PROVE  Bytes(s) \in Seq(B)
BY FlattenTyped DEF Bytes

(* One more packet.                                                        *)
LEMMA BytesAppend ==
  ASSUME NEW B, NEW s \in Seq(Seq(B)), NEW p \in Seq(B)
  PROVE  Bytes(Append(s, p)) = Bytes(s) \o p
BY FlattenAppend DEF Bytes

(* The bytes of two parts.                                                 *)
LEMMA BytesConcat ==
  ASSUME NEW B, NEW s \in Seq(Seq(B))
  PROVE  \A t \in Seq(Seq(B)) : Bytes(s \o t) = Bytes(s) \o Bytes(t)
BY Zenon, FlattenConcat DEF Bytes

(* The first packet, and the others.                                       *)
LEMMA BytesHead ==
  ASSUME NEW B, NEW s \in Seq(Seq(B)), s # <<>>
  PROVE  Bytes(s) = Head(s) \o Bytes(Tail(s))
<1> DEFINE M == Seq(B)
           p == Head(s)
           t == Tail(s)
<1>0. s \in Seq(M)  OBVIOUS
<1> HIDE DEF M
<1>1. p \in M /\ t \in Seq(M)  BY <1>0
<1>2. s = <<p>> \o t /\ <<p>> \in Seq(M) /\ <<p>> = Append(<<>>, p) /\ <<>> \in Seq(M)
  BY <1>0, <1>1
<1> HIDE DEF p, t
<1>3. Bytes(<<p>>) = p
  <2>1. Bytes(<<p>>) = Bytes(<<>>) \o p  BY <1>1, <1>2, BytesAppend DEF M
  <2> QED  BY <1>1, <2>1, BytesEmpty, ConcatEmptySeq DEF M
<1>4. Bytes(<<p>> \o t) = Bytes(<<p>>) \o Bytes(t)
  BY <1>1, <1>2, BytesConcat DEF M
<1> QED  BY Zenon, <1>2, <1>3, <1>4 DEF p, t
-----------------------------------------------------------------------------
(* The reader at the start of a packet.                                    *)

(* LengthEnds gives the first byte below Base behind the first byte.       *)
LEMMA FirstBelow ==
  ASSUME NEW data \in Seq(Nat), HasLength(data)
  PROVE  /\ LengthEnds(data) \in 2 .. Len(data)
         /\ data[LengthEnds(data)] < Base
         /\ \A i \in 2 .. Len(data) : data[i] < Base => LengthEnds(data) =< i
<1> DEFINE I == {i \in 2 .. Len(data) : data[i] < Base}
<1>1. LengthEnds(data) = IF I # {} THEN Min(I) ELSE 0
  BY DEF LengthEnds
<1>2. I # {} /\ LengthEnds(data) = Min(I)  BY <1>1 DEF HasLength
<1>3. I \in SUBSET Nat  OBVIOUS
<1>4. \E x \in I : \A y \in I : x =< y  BY Zenon, <1>2, <1>3, LeastExists
<1>5. Min(I) \in I /\ \A y \in I : Min(I) =< y  BY Zenon, <1>4 DEF Min
<1> QED  BY <1>2, <1>5

(* The length of a packet is known from any bytes of it that have it.      *)
LEMMA LengthKnown ==
  ASSUME NEW data \in Seq(Nat), NEW rest \in Seq(Nat), NEW p, NEW q \in Seq(Nat),
         IsPacket(p), data \o rest = p \o q, HasLength(data)
  PROVE  PktLen(data) = Len(p)
<1> DEFINE f == LengthEnds(data)
<1>1. p \in Seq(Nat)  BY DEF IsPacket
<1>2. PICK e \in 2 .. Len(p) : /\ \A i \in 2 .. e - 1 : p[i] >= Base
                               /\ p[e] < Base
                               /\ Len(p) = e + Number(SubSeq(p, 2, e))
  BY Zenon DEF IsPacket
<1>3. /\ f \in 2 .. Len(data) /\ data[f] < Base
      /\ \A i \in 2 .. Len(data) : data[i] < Base => f =< i
  BY FirstBelow
<1>4. Base \in Nat /\ Len(p) \in Nat /\ Len(data) \in Nat  BY <1>1, PipelineAssumption
<1> HIDE DEF f
<1>5. \A i \in 1 .. Len(data) : i =< Len(p) => data[i] = p[i]  BY <1>1, SameElement
<1>6. \A i \in 1 .. Len(p) : p[i] \in Nat  BY <1>1
<1>7. ~ (f < e)
  <2> SUFFICES ASSUME f < e  PROVE FALSE  OBVIOUS
  <2>1. f \in 2 .. e - 1 /\ f \in 1 .. Len(p) /\ f \in 1 .. Len(data)  BY <1>2, <1>3, <1>4
  <2>2. data[f] = p[f] /\ p[f] >= Base /\ p[f] \in Nat  BY <1>2, <1>5, <1>6, <2>1
  <2> QED  BY <1>3, <1>4, <2>2
<1>8. e \in 2 .. Len(data) /\ e \in 1 .. Len(p)  BY <1>2, <1>3, <1>4, <1>7
<1>9. f = e
  <2>1. e \in 1 .. Len(data) /\ e =< Len(p)  BY <1>4, <1>8
  <2>2. data[e] < Base  BY <1>2, <1>5, <2>1
  <2>3. f =< e  BY <1>3, <1>8, <2>2
  <2> QED  BY <1>3, <1>7, <1>8, <2>3
<1>10. SubSeq(data, 2, e) = SubSeq(p, 2, e)
  <2>1. /\ SubSeq(data, 2, e) \in Seq(Nat) /\ Len(SubSeq(data, 2, e)) = e - 1
        /\ \A i \in 1 .. e - 1 : SubSeq(data, 2, e)[i] = data[i + 1]
    BY <1>8
  <2>2. /\ SubSeq(p, 2, e) \in Seq(Nat) /\ Len(SubSeq(p, 2, e)) = e - 1
        /\ \A i \in 1 .. e - 1 : SubSeq(p, 2, e)[i] = p[i + 1]
    BY <1>1, <1>8, SMTT(30)
  <2>3. \A i \in 1 .. e - 1 : data[i + 1] = p[i + 1]  BY <1>4, <1>5, <1>8
  <2> QED  BY Zenon, <2>1, <2>2, <2>3, SeqEqual
<1> QED  BY Zenon, <1>2, <1>9, <1>10 DEF PktLen, f

(* The packets from the k-th on.                                           *)
From(s, k) == SubSeq(s, k, Len(s))

(* Where the unread bytes are those of whole packets, a length that can be *)
(* read is that of the next one, and if all of it is there it is followed  *)
(* by the others.                                                          *)
LEMMA NextPacket ==
  ASSUME NEW s \in Sent, NEW k \in 0 .. Len(s), NEW data \in Seq(Nat), NEW rest \in Seq(Nat),
         data \o rest = Bytes(From(s, k + 1)), HasLength(data)
  PROVE  /\ k + 1 \in 1 .. Len(s) /\ PktLen(data) = Len(s[k + 1]) /\ s[k + 1] \in Seq(Nat)
         /\ PktLen(data) =< Len(data) =>
              /\ SubSeq(data, 1, PktLen(data)) = s[k + 1]
              /\ SubSeq(data, PktLen(data) + 1, Len(data)) \o rest
                   = Bytes(From(s, (k + 1) + 1))
<1>1. s \in Seq(Seq(Nat)) /\ Len(s) \in Nat  BY PipelineAssumption
<1>2. Len(data) >= 2  BY FirstBelow
<1>3. k + 1 \in 1 .. Len(s)
  <2> SUFFICES ASSUME k = Len(s)  PROVE FALSE  BY <1>1
  <2>1. From(s, k + 1) = <<>>  BY <1>1, SubSeqEmpty DEF From
  <2>2. data \o rest = <<>>  BY <2>1, BytesEmpty
  <2>3. Len(data \o rest) = Len(data) + Len(rest) /\ Len(rest) \in Nat /\ Len(data) \in Nat
    BY ConcatProperties, LenProperties
  <2> QED  BY <1>2, <2>2, <2>3
<1> DEFINE p == s[k + 1]
           t == From(s, (k + 1) + 1)
<1>4. IsPacket(p) /\ p \in Seq(Nat)  BY Zenon, <1>3, PipelineAssumption DEF IsPacket
<1>5. From(s, k + 1) = <<p>> \o t
  <2> DEFINE M == Seq(Nat)
  <2>1. s \in Seq(M) /\ k + 1 \in 1 .. Len(s) /\ Len(s) \in 1 .. Len(s)  BY <1>1, <1>3
  <2> HIDE DEF M
  <2>2. SubSeq(s, k + 1, Len(s)) = <<s[k + 1]>> \o SubSeq(s, (k + 1) + 1, Len(s))
    BY <2>1, SubSeqRecursiveFirst, SMTT(30)
  <2> QED  BY Zenon, <2>2 DEF From
<1>6. t \in Seq(Seq(Nat))  BY <1>1, <1>3 DEF From
<1>7. Bytes(<<p>>) = p
  <2>1. <<p>> = Append(<<>>, p) /\ <<>> \in Seq(Seq(Nat))  BY <1>4
  <2>2. Bytes(<<p>>) = Bytes(<<>>) \o p  BY Zenon, <1>4, <2>1, BytesAppend
  <2> QED  BY Zenon, <1>4, <2>2, BytesEmpty, ConcatEmptySeq
<1>8. Bytes(From(s, k + 1)) = p \o Bytes(t)
  <2>1. <<p>> \in Seq(Seq(Nat))  BY <1>4
  <2>2. Bytes(<<p>> \o t) = Bytes(<<p>>) \o Bytes(t)  BY Zenon, <1>6, <2>1, BytesConcat
  <2> QED  BY Zenon, <1>5, <1>7, <2>2
<1>9. Bytes(t) \in Seq(Nat)  BY <1>6, BytesTyped
<1> HIDE DEF p, t
<1>10. data \o rest = p \o Bytes(t)  BY Zenon, <1>8
<1>11. PktLen(data) = Len(p)  BY Zenon, <1>4, <1>9, <1>10, LengthKnown
<1>12. ASSUME Len(p) =< Len(data)
       PROVE  /\ SubSeq(data, 1, Len(p)) = p
              /\ SubSeq(data, Len(p) + 1, Len(data)) \o rest = Bytes(t)
  BY Zenon, <1>4, <1>9, <1>10, <1>12, SplitFurther
<1> QED  BY Zenon, <1>3, <1>4, <1>11, <1>12 DEF p, t
-----------------------------------------------------------------------------
(* The stream, given that the packets of s were sent.                      *)
Framed(s) ==
  /\ stream = Bytes(s)
  /\ Begins(Read, s)
  /\ pc # "failed" => pr.data \o SubSeq(stream, ipos + 1, Len(stream)) =
                        Bytes(From(s, Len(Read) + 1))

(* StreamIsWhole, with the packets that were sent named.                   *)
LEMMA WholeIsFramed ==
  /\ StreamIsWhole <=> \E s \in Sent : Framed(s)
  /\ StreamIsWhole' <=> \E s \in Sent : Framed(s)'
BY Zenon DEF StreamIsWhole, Framed, From, Begins

(* The answers to packets that were sent are sequences of bytes.           *)
LEMMA AnswersTyped ==
  ASSUME TypeOK, StreamIsWhole
  PROVE  /\ Answers \in Seq(Seq(Nat))
         /\ up # <<>> => Answer(Head(up)) \in Seq(Nat)
<1> DEFINE M == Seq(Nat)
<1>1. PICK s \in Sent : Framed(s)  BY Zenon, WholeIsFramed
<1>2. /\ handled \in Seq(M) /\ up \in Seq(M) /\ rd \in Seq(M) /\ s \in Seq(M)
      /\ \A i \in 1 .. Len(s) : Answer(s[i]) \in Seq(Nat)
  BY PipelineAssumption DEF TypeOK
<1> HIDE DEF M
<1>3. Read \in Seq(M)  BY <1>2 DEF Read
<1>4. Len(Read) =< Len(s) /\ \A i \in 1 .. Len(Read) : Read[i] = s[i]
  BY <1>1, <1>2, <1>3, PrefixElements DEF Framed
<1>5. /\ Len(handled) \in Nat /\ Len(up) \in Nat /\ Len(rd) \in Nat
      /\ Len(Read) = Len(handled) + Len(up) + Len(rd) /\ Len(s) \in Nat
  BY <1>2 DEF Read
<1>6. \A i \in 1 .. Len(handled) : Read[i] = handled[i]  BY <1>2 DEF Read
<1>7. ASSUME NEW i \in 1 .. Len(handled)  PROVE Answer(handled[i]) \in Seq(Nat)
  <2>1. i \in 1 .. Len(Read) /\ i \in 1 .. Len(s)  BY <1>4, <1>5
  <2>2. handled[i] = s[i]  BY <1>4, <1>6, <2>1
  <2> QED  BY Zenon, <1>2, <2>1, <2>2
<1>8. Answers \in Seq(Seq(Nat))
  <2>1. DOMAIN handled = 1 .. Len(handled)  BY <1>2
  <2> QED  BY <1>5, <1>7, <2>1 DEF Answers
<1>9. ASSUME up # <<>>  PROVE Answer(Head(up)) \in Seq(Nat)
  <2>1. Len(up) >= 1 /\ Head(up) = up[1]  BY <1>2, <1>9
  <2>2. Read[Len(handled) + 1] = up[1]  BY <1>2, <2>1 DEF Read
  <2>3. Len(handled) + 1 \in 1 .. Len(Read) /\ Len(handled) + 1 \in 1 .. Len(s)
    BY <1>4, <1>5, <2>1
  <2> QED  BY <1>2, <1>4, <2>1, <2>2, <2>3
<1> QED  BY <1>8, <1>9

(* The stream is left alone by what moves no packet past the session's     *)
(* queue and reads nothing.                                                *)
LEMMA StreamKept ==
  ASSUME StreamIsWhole, stream' = stream, Read' = Read,
         pc' # "failed" => pc # "failed" /\ pr' = pr /\ ipos' = ipos
  PROVE  StreamIsWhole'
<1>1. PICK s \in Sent : Framed(s)  BY Zenon, WholeIsFramed
<1>2. Framed(s)'  BY Zenon, <1>1 DEF Framed
<1> QED  BY Zenon, <1>2, WholeIsFramed

(* The bytes of the answers, from the client back to the session.          *)
LEMMA AnswersKept ==
  ASSUME AnswersAreWhole, handled' = handled, wire' = wire, pw' = pw, wt' = wt,
         down' = down, acks' = acks
  PROVE  AnswersAreWhole'
BY Zenon DEF AnswersAreWhole, Answers

(* send_upstream moves a packet from the socket to the session's queue, or *)
(* goes on; it goes on to read only with no packet left in the socket.     *)
LEMMA SendUpstreamStep ==
  ASSUME IInv, SendUpstream
  PROVE  IInv'
<1>1. /\ stream' = stream /\ arrived' = arrived /\ ipos' = ipos /\ pr' = pr
      /\ handled' = handled /\ acks' = acks /\ down' = down
      /\ wt' = wt /\ pw' = pw /\ wire' = wire /\ recvd' = recvd /\ taken' = taken
  BY Zenon DEF SendUpstream, sessionVars, writeVars
<1>2. pc \in {"send", "sendlast"}  BY DEF SendUpstream
<1>3. AnswersAreWhole'  BY Zenon, <1>1, AnswersKept DEF IInv
<1>4. CASE TrySend
  <2>1. /\ rd # <<>> /\ rd' = Tail(rd) /\ up' = Append(up, Head(rd)) /\ pc' = pc
    BY <1>4 DEF SendUpstream, TrySend
  <2> DEFINE M == Seq(Nat)
  <2>2. rd \in Seq(M) /\ up \in Seq(M) /\ handled \in Seq(M)  BY DEF IInv, TypeOK
  <2> HIDE DEF M
  <2>3. rd' \in Seq(M) /\ up' \in Seq(M) /\ Len(rd') =< Len(rd) /\ Len(rd) \in Nat
        /\ Len(rd') \in Nat
    BY <2>1, <2>2
  <2>4. Read' = Read
    <3>1. HandsOn(M)  BY Zenon, HandedOn
    <3> QED  BY Zenon, <1>1, <2>1, <2>2, <3>1 DEF Read, HandsOn
  <2>5. StreamIsWhole'  BY Zenon, <1>1, <2>1, <2>4, StreamKept DEF IInv
  <2>6. TypeOK'  BY Zenon, <1>1, <2>1, <2>3 DEF IInv, TypeOK, M
  <2>7. Paced'
    <3>1. pc' # "read" /\ pc' # "recv"  BY <1>2, <2>1
    <3> QED  BY Zenon, <1>1, <3>1 DEF IInv, Paced
  <2>8. SocketsAreBounded'  BY <1>1, <2>3 DEF IInv, SocketsAreBounded
  <2> QED  BY <1>3, <2>5, <2>6, <2>7, <2>8 DEF IInv
<1>5. CASE ~TrySend
  <2>1. /\ rd' = rd /\ up' = up
        /\ pc' = IF pc = "send" /\ rd = <<>> THEN "read" ELSE "flush"
    BY Zenon, <1>5 DEF SendUpstream
  <2>2. Read' = Read  BY <1>1, <2>1 DEF Read
  <2>3. StreamIsWhole'  BY <1>1, <1>2, <2>1, <2>2, StreamKept DEF IInv
  <2>4. pc' \in Pcs  BY <2>1 DEF Pcs
  <2>5. TypeOK'  BY Zenon, <1>1, <2>1, <2>4 DEF IInv, TypeOK
  <2>6. Paced'
    <3>1. (pc' = "read" => rd' = <<>>) /\ pc' # "recv"  BY <2>1
    <3> QED  BY Zenon, <1>1, <3>1 DEF IInv, Paced
  <2>7. SocketsAreBounded'  BY Zenon, <1>1, <2>1 DEF IInv, SocketsAreBounded
  <2> QED  BY <1>3, <2>3, <2>5, <2>6, <2>7 DEF IInv
<1> QED  BY <1>4, <1>5

(* The session handles the first packet of its queue, and owes its answer. *)
LEMMA RoutePacketStep ==
  ASSUME IInv, RoutePacket
  PROVE  IInv'
<1>1. /\ stream' = stream /\ arrived' = arrived /\ ipos' = ipos /\ pr' = pr /\ rd' = rd
      /\ down' = down /\ wt' = wt /\ pw' = pw /\ wire' = wire /\ recvd' = recvd
      /\ taken' = taken /\ pc' = pc
  BY Zenon DEF RoutePacket, readVars, writeVars
<1>2. /\ up # <<>> /\ up' = Tail(up) /\ handled' = Append(handled, Head(up))
      /\ acks' = Append(acks, Answer(Head(up)))
  BY Zenon DEF RoutePacket
<1> DEFINE M == Seq(Nat)
           x == Answer(Head(up))
<1>3. rd \in Seq(M) /\ up \in Seq(M) /\ handled \in Seq(M) /\ acks \in Seq(M)
      /\ wt \in Seq(M) /\ down \in Seq(M) /\ wire \in M /\ pw \in M
  BY DEF IInv, TypeOK
<1>4. Answers \in Seq(M) /\ x \in M  BY <1>2, AnswersTyped DEF IInv
<1> HIDE DEF M, x
<1>5. Assoc(Nat) /\ HandsOn(M) /\ Joins(M)  BY Zenon, Associative, HandedOn, Joined
<1>6. Bytes(wt \o down \o Append(acks, x)) = Bytes(wt \o down \o acks) \o x
  <2>1. wt \in Seq(M) /\ down \in Seq(M) /\ acks \in Seq(M)  BY <1>3
  <2>2. wt \o down \o Append(acks, x) = Append(wt \o down \o acks, x)
    BY ZenonT(40), <1>4, <1>5, <2>1 DEF Joins
  <2>3. wt \o down \o acks \in Seq(M)  BY <1>3
  <2> QED  BY Zenon, <1>4, <2>2, <2>3, BytesAppend DEF M
<1>7. Bytes(wt \o down \o acks) \in M
  <2>1. wt \o down \o acks \in Seq(M)  BY <1>3
  <2> QED  BY Zenon, <2>1, BytesTyped DEF M
<1>8. Answers' = Append(Answers, x)
  <2>1. /\ handled' \in Seq(M) /\ Len(handled') = Len(handled) + 1 /\ Len(handled) \in Nat
        /\ handled'[Len(handled) + 1] = Head(up)
        /\ \A i \in 1 .. Len(handled) : handled'[i] = handled[i]
    BY <1>2, <1>3
  <2>2. DOMAIN handled' = 1 .. Len(handled) + 1 /\ DOMAIN handled = 1 .. Len(handled)
    BY <1>3, <2>1
  <2> QED  BY <2>1, <2>2 DEF Answers, x
<1>9. Bytes(Answers') = Bytes(Answers) \o x  BY <1>4, <1>8, BytesAppend DEF M
<1>10. AnswersAreWhole'
  <2> DEFINE f == Bytes(wt \o down \o acks)
  <2>1. wire \o pw \in M  BY <1>3, ConcatProperties DEF M
  <2>2. (wire \o pw) \o (f \o x) = ((wire \o pw) \o f) \o x
    BY Zenon, <1>4, <1>5, <1>7, <2>1 DEF Assoc, M
  <2>3. (wire \o pw) \o f = Bytes(Answers)  BY Zenon DEF IInv, AnswersAreWhole
  <2> QED  BY Zenon, <1>1, <1>2, <1>6, <1>9, <2>2, <2>3 DEF AnswersAreWhole, x
<1>11. up' \in Seq(M) /\ handled' \in Seq(M) /\ acks' \in Seq(M)  BY <1>2, <1>3, <1>4 DEF x
<1>12. Read' = Read
  <2>1. handled \in Seq(M) /\ up \in Seq(M) /\ rd \in Seq(M)  BY <1>3
  <2>2. Append(handled, Head(up)) \o Tail(up) \o rd = handled \o up \o rd
    BY Zenon, <1>2, <1>5, <2>1 DEF HandsOn
  <2> QED  BY Zenon, <1>1, <1>2, <2>2 DEF Read
<1>13. StreamIsWhole'  BY Zenon, <1>1, <1>12, StreamKept DEF IInv
<1>14. TypeOK'  BY Zenon, <1>1, <1>11 DEF IInv, TypeOK, M
<1>15. Paced' /\ SocketsAreBounded'  BY Zenon, <1>1 DEF IInv, Paced, SocketsAreBounded
<1> QED  BY Zenon, <1>10, <1>13, <1>14, <1>15 DEF IInv

(* An answer moves on towards the client.                                  *)
LEMMA AnswersHandedOn ==
  ASSUME AnswersAreWhole, handled' = handled, wire' = wire, pw' = pw,
         wt' \o down' \o acks' = wt \o down \o acks
  PROVE  AnswersAreWhole'
BY Zenon DEF AnswersAreWhole, Answers

(* out_acks_flush moves an answer to the socket's queue.                   *)
LEMMA FlushAckStep ==
  ASSUME IInv, FlushAck
  PROVE  IInv'
<1>1. /\ stream' = stream /\ arrived' = arrived /\ ipos' = ipos /\ pr' = pr /\ rd' = rd
      /\ up' = up /\ handled' = handled /\ wt' = wt /\ pw' = pw /\ wire' = wire
      /\ recvd' = recvd /\ taken' = taken /\ pc' = pc
  BY Zenon DEF FlushAck, readVars, writeVars
<1>2. acks # <<>> /\ down' = Append(down, Head(acks)) /\ acks' = Tail(acks)
  BY Zenon DEF FlushAck
<1> DEFINE M == Seq(Nat)
<1>3. wt \in Seq(M) /\ down \in Seq(M) /\ acks \in Seq(M)  BY DEF IInv, TypeOK
<1> HIDE DEF M
<1>4. down' \in Seq(M) /\ acks' \in Seq(M)  BY <1>2, <1>3
<1>5. wt' \o down' \o acks' = wt \o down \o acks
  <2>1. HandsOn(M)  BY Zenon, HandedOn
  <2> QED  BY Zenon, <1>1, <1>2, <1>3, <2>1 DEF HandsOn
<1>6. AnswersAreWhole'  BY Zenon, <1>1, <1>5, AnswersHandedOn DEF IInv
<1>7. StreamIsWhole'
  <2>1. Read' = Read  BY Zenon, <1>1 DEF Read
  <2> QED  BY Zenon, <1>1, <2>1, StreamKept DEF IInv
<1>8. TypeOK'  BY Zenon, <1>1, <1>4 DEF IInv, TypeOK, M
<1>9. Paced' /\ SocketsAreBounded'  BY Zenon, <1>1 DEF IInv, Paced, SocketsAreBounded
<1> QED  BY Zenon, <1>6, <1>7, <1>8, <1>9 DEF IInv

(* try_recvs moves an answer to the socket, at most one past the batch.    *)
LEMMA ReceiveStep ==
  ASSUME IInv, Receive
  PROVE  IInv'
<1>1. /\ stream' = stream /\ arrived' = arrived /\ ipos' = ipos /\ pr' = pr /\ rd' = rd
      /\ up' = up /\ handled' = handled /\ acks' = acks /\ pw' = pw /\ wire' = wire
      /\ taken' = taken /\ pc = "recv"
  BY Zenon DEF Receive, readVars, sessionVars
<1>2. StreamIsWhole'
  <2>1. Read' = Read  BY Zenon, <1>1 DEF Read
  <2> QED  BY <1>1, <2>1, StreamKept DEF IInv
<1>3. CASE down = <<>>
  <2>1. down' = down /\ wt' = wt /\ recvd' = recvd /\ pc' = "flushlast"
    BY Zenon, <1>3 DEF Receive
  <2>2. AnswersAreWhole'  BY Zenon, <1>1, <2>1, AnswersKept DEF IInv
  <2>3. pc' \in Pcs  BY <2>1 DEF Pcs
  <2>4. TypeOK'  BY Zenon, <1>1, <2>1, <2>3 DEF IInv, TypeOK
  <2>5. Paced'
    <3>1. pc' # "read" /\ pc' # "recv"  BY <2>1
    <3> QED  BY Zenon, <1>1, <3>1 DEF IInv, Paced
  <2>6. SocketsAreBounded'  BY Zenon, <1>1, <2>1 DEF IInv, SocketsAreBounded
  <2> QED  BY Zenon, <1>2, <2>2, <2>4, <2>5, <2>6 DEF IInv
<1>4. CASE down # <<>>
  <2>1. /\ wt' = Append(wt, Head(down)) /\ down' = Tail(down) /\ recvd' = recvd + 1
        /\ pc' = IF recvd >= Batch THEN "flush" ELSE "recv"
    BY Zenon, <1>4 DEF Receive, BatchFull
  <2> DEFINE M == Seq(Nat)
  <2>2. wt \in Seq(M) /\ down \in Seq(M) /\ acks \in Seq(M)  BY DEF IInv, TypeOK
  <2> HIDE DEF M
  <2>3. wt' \in Seq(M) /\ down' \in Seq(M) /\ Len(wt') = Len(wt) + 1 /\ Len(wt) \in Nat
    BY <1>4, <2>1, <2>2
  <2>4. wt' \o down' \o acks' = wt \o down \o acks
    <3>1. HandsOn(M)  BY Zenon, HandedOn
    <3> QED  BY Zenon, <1>1, <1>4, <2>1, <2>2, <3>1 DEF HandsOn
  <2>5. AnswersAreWhole'  BY Zenon, <1>1, <2>4, AnswersHandedOn DEF IInv
  <2>6. Len(wt) = recvd /\ recvd =< Batch  BY Zenon, <1>1 DEF IInv, Paced
  <2>7. Batch \in Nat /\ recvd \in Nat  BY PipelineAssumption DEF IInv, TypeOK
  <2>8. pc' \in Pcs /\ recvd' \in Nat  BY <2>1, <2>7 DEF Pcs
  <2>9. TypeOK'  BY Zenon, <1>1, <2>3, <2>8 DEF IInv, TypeOK, M
  <2>10. Paced'
    <3>1. pc' = "recv" => recvd < Batch  BY <2>1, <2>7
    <3>2. pc' = "recv" => Len(wt') = recvd' /\ recvd' =< Batch
      BY <2>1, <2>3, <2>6, <2>7, <3>1
    <3>3. pc' # "read"  BY <2>1
    <3> QED  BY Zenon, <1>1, <3>2, <3>3 DEF IInv, Paced
  <2>11. SocketsAreBounded'
    <3>1. Len(wt') =< Batch + 1  BY <2>3, <2>6, <2>7
    <3> QED  BY Zenon, <1>1, <3>1 DEF IInv, SocketsAreBounded
  <2> QED  BY Zenon, <1>2, <2>5, <2>9, <2>10, <2>11 DEF IInv
<1> QED  BY <1>3, <1>4

(* Bytes that arrive are not read yet.                                     *)
LEMMA ArriveStep ==
  ASSUME IInv, Arrive
  PROVE  IInv'
<1>1. /\ stream' = stream /\ ipos' = ipos /\ pr' = pr /\ rd' = rd
      /\ up' = up /\ handled' = handled /\ acks' = acks /\ down' = down /\ wt' = wt
      /\ pw' = pw /\ wire' = wire /\ recvd' = recvd /\ taken' = taken /\ pc' = pc
  BY Zenon DEF Arrive, sessionVars, writeVars
<1>2. PICK n \in arrived + 1 .. Len(stream) : arrived' = n  BY DEF Arrive
<1>3. stream \in Seq(Nat) /\ arrived \in 0 .. Len(stream) /\ ipos \in 0 .. arrived
  BY DEF IInv, TypeOK
<1>4. arrived' \in 0 .. Len(stream) /\ ipos \in 0 .. arrived'  BY <1>2, <1>3
<1>5. TypeOK'  BY Zenon, <1>1, <1>4 DEF IInv, TypeOK
<1>6. StreamIsWhole'
  <2>1. Read' = Read  BY Zenon, <1>1 DEF Read
  <2> QED  BY Zenon, <1>1, <2>1, StreamKept DEF IInv
<1>7. AnswersAreWhole'  BY Zenon, <1>1, AnswersKept DEF IInv
<1>8. Paced' /\ SocketsAreBounded'  BY Zenon, <1>1 DEF IInv, Paced, SocketsAreBounded
<1> QED  BY Zenon, <1>5, <1>6, <1>7, <1>8 DEF IInv

(* The client makes room in the kernel's buffer.                           *)
LEMMA ClientReadsStep ==
  ASSUME IInv, ClientReads
  PROVE  IInv'
<1>1. /\ stream' = stream /\ arrived' = arrived /\ ipos' = ipos /\ pr' = pr /\ rd' = rd
      /\ up' = up /\ handled' = handled /\ acks' = acks /\ down' = down /\ wt' = wt
      /\ pw' = pw /\ wire' = wire /\ recvd' = recvd /\ pc' = pc
  BY Zenon DEF ClientReads, readVars, sessionVars, writeVars
<1>2. taken' = taken + 1 /\ taken < Len(wire)  BY DEF ClientReads
<1>3. /\ wire \in Seq(Nat) /\ taken \in 0 .. Len(wire) /\ Len(wire) - taken =< SendBuffer
      /\ SendBuffer \in Nat
  BY PipelineAssumption DEF IInv, TypeOK
<1>4. taken' \in 0 .. Len(wire) /\ Len(wire) - taken' =< SendBuffer  BY <1>2, <1>3
<1>5. TypeOK'  BY Zenon, <1>1, <1>4 DEF IInv, TypeOK
<1>6. StreamIsWhole'
  <2>1. Read' = Read  BY Zenon, <1>1 DEF Read
  <2> QED  BY Zenon, <1>1, <2>1, StreamKept DEF IInv
<1>7. AnswersAreWhole'  BY Zenon, <1>1, AnswersKept DEF IInv
<1>8. Paced' /\ SocketsAreBounded'  BY Zenon, <1>1 DEF IInv, Paced, SocketsAreBounded
<1> QED  BY Zenon, <1>5, <1>6, <1>7, <1>8 DEF IInv

(* What is written and what is left.                                       *)
LEMMA WrittenAndLeft ==
  ASSUME IInv
  PROVE  /\ Writes \in 0 .. Len(pw)
         /\ SubSeq(pw, 1, Writes) \in Seq(Nat) /\ Len(SubSeq(pw, 1, Writes)) = Writes
         /\ SubSeq(pw, Writes + 1, Len(pw)) \in Seq(Nat)
         /\ SubSeq(pw, 1, Writes) \o SubSeq(pw, Writes + 1, Len(pw)) = pw
         /\ (Len(wire) + Writes) - taken =< SendBuffer
<1>1. /\ pw \in Seq(Nat) /\ wire \in Seq(Nat) /\ taken \in 0 .. Len(wire)
      /\ Len(wire) - taken =< SendBuffer /\ SendBuffer \in Nat
  BY PipelineAssumption DEF IInv, TypeOK
<1>2. Len(pw) \in Nat /\ Len(wire) \in Nat  BY <1>1
<1>3. Writes \in 0 .. Len(pw) /\ (Len(wire) + Writes) - taken =< SendBuffer
  BY <1>1, <1>2 DEF Writes, Least
<1> DEFINE w == Writes
<1> HIDE DEF w
<1>4. w \in 0 .. Len(pw)  BY <1>3 DEF w
<1>5. /\ SubSeq(pw, 1, w) \in Seq(Nat) /\ Len(SubSeq(pw, 1, w)) = w
      /\ SubSeq(pw, w + 1, Len(pw)) \in Seq(Nat)
  BY <1>1, <1>2, <1>4
<1>6. SubSeq(pw, 1, w) \o SubSeq(pw, w + 1, Len(pw)) = pw
  <2>1. 1 \in 1 .. Len(pw) + 1 /\ w \in 1 - 1 .. Len(pw) /\ Len(pw) \in w .. Len(pw)
    BY <1>2, <1>4
  <2>2. SubSeq(pw, 1, w) \o SubSeq(pw, w + 1, Len(pw)) = SubSeq(pw, 1, Len(pw))
    BY Zenon, <1>1, <2>1, ConcatAdjacentSubSeq
  <2> QED  BY Zenon, <1>1, <2>2, SubSeqFull
<1> QED  BY Zenon, <1>3, <1>5, <1>6 DEF w

(* write_packet moves bytes to the kernel, and takes the next answer when  *)
(* the last one is written.                                                *)
LEMMA WritePacketStep ==
  ASSUME IInv, WritePacket
  PROVE  IInv'
<1> DEFINE front == SubSeq(pw, 1, Writes)
           rest == SubSeq(pw, Writes + 1, Len(pw))
           M == Seq(Nat)
<1>1. /\ stream' = stream /\ arrived' = arrived /\ ipos' = ipos /\ pr' = pr /\ rd' = rd
      /\ up' = up /\ handled' = handled /\ acks' = acks /\ down' = down /\ taken' = taken
      /\ recvd' = 0 /\ wire' = wire \o front /\ pc \in {"flush", "flushlast"}
  BY Zenon DEF WritePacket, readVars, sessionVars
<1>2. \/ rest = <<>> /\ wt # <<>> /\ pw' = Head(wt) /\ wt' = Tail(wt) /\ pc' = pc
      \/ pw' = rest /\ wt' = wt /\ wt = <<>> /\ pc' = (IF pc = "flush" THEN "recv" ELSE "send")
      \/ pw' = rest /\ wt' = wt /\ pc' \in {"send", "failed"}
  BY DEF WritePacket
<1>3. /\ front \in M /\ rest \in M /\ front \o rest = pw /\ wire \in M /\ pw \in M
      /\ wt \in Seq(M) /\ down \in Seq(M) /\ acks \in Seq(M)
  BY Zenon, WrittenAndLeft DEF IInv, TypeOK
<1>4. wire' \in M /\ taken' \in 0 .. Len(wire') /\ Len(wire') - taken' =< SendBuffer
  <2>1. Len(front) = Writes /\ Writes \in Nat /\ (Len(wire) + Writes) - taken =< SendBuffer
    BY WrittenAndLeft, LenProperties DEF IInv, TypeOK
  <2>2. taken \in 0 .. Len(wire)  BY DEF IInv, TypeOK
  <2> HIDE DEF front
  <2>3. wire' \in M /\ Len(wire') = Len(wire) + Len(front)  BY <1>1, <1>3, ConcatProperties
  <2>4. Len(wire) \in Nat  BY <1>3
  <2> QED  BY <1>1, <2>1, <2>2, <2>3, <2>4
<1> HIDE DEF front, rest, M
<1>5. Assoc(Nat)  BY Zenon, Associative
<1>6. (wire \o front) \o rest = wire \o pw
  <2>1. wire \in Seq(Nat) /\ front \in Seq(Nat) /\ rest \in Seq(Nat)  BY Zenon, <1>3 DEF M
  <2>2. (wire \o front) \o rest = wire \o (front \o rest)  BY Zenon, <1>5, <2>1 DEF Assoc
  <2> QED  BY Zenon, <1>3, <2>2
<1>7. StreamIsWhole'
  <2>1. Read' = Read  BY Zenon, <1>1 DEF Read
  <2>2. pc # "failed"  BY <1>1
  <2> QED  BY Zenon, <1>1, <2>1, <2>2, StreamKept DEF IInv
<1>8. pc' \in Pcs /\ (pc' = "recv" => wt' = <<>>) /\ pc' # "read"  BY <1>1, <1>2 DEF Pcs
<1>9. CASE rest = <<>> /\ wt # <<>> /\ pw' = Head(wt) /\ wt' = Tail(wt) /\ pc' = pc
  <2> DEFINE q == wt \o down \o acks
  <2>1. q \in Seq(M) /\ q # <<>> /\ Head(q) = Head(wt) /\ Tail(q) = Tail(wt) \o down \o acks
    BY <1>3, <1>9
  <2> HIDE DEF q
  <2>2. Head(q) \in M /\ Tail(q) \in Seq(M)  BY <2>1
  <2>3. Bytes(q) = Head(q) \o Bytes(Tail(q)) /\ Bytes(Tail(q)) \in M
    BY Zenon, <2>1, <2>2, BytesHead, BytesTyped DEF M
  <2>4. wire' = wire \o pw
    <3>1. (wire \o front) \o <<>> = wire \o front  BY <1>1, <1>4, ConcatEmptySeq DEF M
    <3> QED  BY Zenon, <1>1, <1>6, <1>9, <3>1
  <2>5. wire \o pw \in M  BY <1>4, <2>4
  <2>6. (wire \o pw) \o (Head(q) \o Bytes(Tail(q)))
          = ((wire \o pw) \o Head(q)) \o Bytes(Tail(q))
    BY Zenon, <1>5, <2>2, <2>3, <2>5 DEF Assoc, M
  <2>7. (wire \o pw) \o Bytes(q) = Bytes(Answers)
    BY Zenon DEF IInv, AnswersAreWhole, q
  <2>8. AnswersAreWhole'
    <3>1. wt' \o down' \o acks' = Tail(q)  BY Zenon, <1>1, <1>9, <2>1
    <3>2. Answers' = Answers  BY Zenon, <1>1 DEF Answers
    <3> QED  BY Zenon, <1>9, <2>1, <2>3, <2>4, <2>6, <2>7, <3>1, <3>2 DEF AnswersAreWhole
  <2>9. pw' \in M /\ wt' \in Seq(M) /\ Len(wt') =< Len(wt) /\ Len(wt) \in Nat /\ Len(wt') \in Nat
    BY <1>3, <1>9
  <2>10. TypeOK'  BY Zenon, <1>1, <1>4, <1>8, <2>9 DEF IInv, TypeOK, M
  <2>11. pc' # "recv"  BY <1>1, <1>9
  <2>12. Paced'  BY Zenon, <1>1, <1>8, <2>11 DEF IInv, Paced
  <2>13. SocketsAreBounded'
    <3>1. Len(rd) =< 1 /\ Len(wt) =< Batch + 1 /\ Batch \in Nat
      BY PipelineAssumption DEF IInv, SocketsAreBounded
    <3>2. Len(wt') =< Batch + 1  BY <2>9, <3>1
    <3> QED  BY Zenon, <1>1, <3>1, <3>2 DEF SocketsAreBounded
  <2> QED  BY Zenon, <1>7, <2>8, <2>10, <2>12, <2>13 DEF IInv
<1>10. CASE pw' = rest /\ wt' = wt
  <2>1. AnswersAreWhole'
    <3>1. wire' \o pw' = wire \o pw  BY Zenon, <1>1, <1>6, <1>10
    <3> QED  BY Zenon, <1>1, <1>10, <3>1 DEF IInv, AnswersAreWhole, Answers
  <2>2. 0 \in Nat  OBVIOUS
  <2>3. TypeOK'  BY Zenon, <1>1, <1>3, <1>4, <1>8, <1>10, <2>2 DEF IInv, TypeOK, M
  <2>4. Paced'
    <3>1. 0 =< Batch /\ Len(<<>>) = 0  BY PipelineAssumption
    <3> QED  BY Zenon, <1>1, <1>8, <3>1 DEF IInv, Paced
  <2>5. SocketsAreBounded'  BY Zenon, <1>1, <1>10 DEF IInv, SocketsAreBounded
  <2> QED  BY Zenon, <1>7, <2>1, <2>3, <2>4, <2>5 DEF IInv
<1> QED  BY Zenon, <1>2, <1>9, <1>10
-----------------------------------------------------------------------------
(* What every outcome of a read keeps.                                     *)
ReadKeeps ==
  /\ stream' = stream /\ arrived' = arrived /\ up' = up /\ handled' = handled
  /\ acks' = acks /\ down' = down /\ wt' = wt /\ pw' = pw /\ wire' = wire
  /\ recvd' = recvd /\ taken' = taken

(* The bytes that were not read.                                           *)
Unread == SubSeq(stream, ipos + 1, Len(stream))

(* read_packet with a packet that is too large: the connection fails with  *)
(* what was handed on still a prefix of what was sent.                     *)
LEMMA FailStep ==
  ASSUME IInv, pc = "read", ReadKeeps, ipos' \in 0 .. arrived, Fail
  PROVE  IInv'
<1>1. pc' = "failed" /\ pr' = pr /\ rd' = rd  BY DEF Fail
<1>2. pc' \in Pcs /\ pc' # "read" /\ pc' # "recv"  BY <1>1 DEF Pcs
<1>3. TypeOK'  BY Zenon, <1>1, <1>2 DEF IInv, TypeOK, ReadKeeps
<1>4. Paced'  BY Zenon, <1>1, <1>2 DEF IInv, Paced
<1>5. StreamIsWhole'
  <2>1. PICK s \in Sent : Framed(s)  BY Zenon, WholeIsFramed DEF IInv
  <2>2. Read' = Read  BY Zenon, <1>1 DEF Read, ReadKeeps
  <2>3. Framed(s)'  BY Zenon, <1>1, <2>1, <2>2 DEF Framed, ReadKeeps
  <2> QED  BY Zenon, <2>3, WholeIsFramed
<1>6. AnswersAreWhole'  BY Zenon, AnswersKept DEF IInv, ReadKeeps
<1>7. SocketsAreBounded'  BY Zenon, <1>1 DEF IInv, SocketsAreBounded, ReadKeeps
<1> QED  BY Zenon, <1>3, <1>4, <1>5, <1>6, <1>7 DEF IInv

(* read_packet with part of a packet: the bytes read and the bytes to read *)
(* are the same stream.                                                    *)
LEMMA WaitStep ==
  ASSUME IInv, pc = "read", ReadKeeps, ipos' \in 0 .. arrived,
         NEW state \in {"Init", "Header", "Remain"}, NEW data \in Seq(Nat), NEW size \in Nat,
         state = "Remain" => Len(data) < size,
         data \o Unread' = pr.data \o Unread, Wait(state, data, size)
  PROVE  IInv'
<1> DEFINE r == [state |-> state, data |-> data, size |-> size]
<1>1. pr' = r /\ rd' = rd /\ pc' \in {"sendlast", "failed"}  BY DEF Wait
<1>2. pc' \in Pcs /\ pc' # "read" /\ pc' # "recv"  BY <1>1 DEF Pcs
<1>3. /\ r \in [state : {"Init", "Header", "Remain"}, data : Seq(Nat), size : Nat]
      /\ r.state = state /\ r.data = data /\ r.size = size
  OBVIOUS
<1> HIDE DEF r
<1>4. TypeOK'  BY Zenon, <1>1, <1>2, <1>3 DEF IInv, TypeOK, ReadKeeps
<1>5. Paced'  BY Zenon, <1>1, <1>2, <1>3 DEF Paced
<1>6. StreamIsWhole'
  <2>1. PICK s \in Sent : Framed(s)  BY Zenon, WholeIsFramed DEF IInv
  <2>2. Read' = Read  BY Zenon, <1>1 DEF Read, ReadKeeps
  <2>3. pc # "failed"  OBVIOUS
  <2>4. data \o Unread' = Bytes(From(s, Len(Read) + 1))
    BY Zenon, <2>1, <2>3 DEF Framed, Unread
  <2>5. Framed(s)'  BY Zenon, <1>1, <1>3, <2>1, <2>2, <2>4 DEF Framed, Unread, ReadKeeps
  <2> QED  BY Zenon, <2>5, WholeIsFramed
<1>7. AnswersAreWhole'  BY Zenon, AnswersKept DEF IInv, ReadKeeps
<1>8. SocketsAreBounded'  BY Zenon, <1>1 DEF IInv, SocketsAreBounded, ReadKeeps
<1> QED  BY Zenon, <1>4, <1>5, <1>6, <1>7, <1>8 DEF IInv

(* read_packet with a whole packet: it is the next one sent, and the bytes *)
(* read too far belong to those behind it.                                 *)
LEMMA FinishStep ==
  ASSUME IInv, pc = "read", ReadKeeps, ipos' \in 0 .. arrived, NEW data \in Seq(Nat),
         data \o Unread' = pr.data \o Unread, Unread' \in Seq(Nat), HasLength(data),
         PktLen(data) =< Len(data), Finish(data, PktLen(data))
  PROVE  IInv'
<1> DEFINE M == Seq(Nat)
           p == SubSeq(data, 1, PktLen(data))
           left == SubSeq(data, PktLen(data) + 1, Len(data))
           r == [state |-> "Init", data |-> left, size |-> 0]
<1>1. pr' = r /\ rd' = Append(rd, p) /\ pc' \in {"send", "sendlast"}  BY DEF Finish
<1>2. pc' \in Pcs /\ pc' # "read" /\ pc' # "recv" /\ pc' # "failed"  BY <1>1 DEF Pcs
<1>3. PICK s \in Sent : Framed(s)  BY Zenon, WholeIsFramed DEF IInv
<1>4. /\ handled \in Seq(M) /\ up \in Seq(M) /\ rd \in Seq(M) /\ s \in Seq(M) /\ rd = <<>>
  BY PipelineAssumption DEF IInv, TypeOK, Paced
<1>5. Len(Read) \in 0 .. Len(s) /\ Read \in Seq(M)
  <2> HIDE DEF M
  <2>1. Read \in Seq(M)  BY <1>4 DEF Read
  <2>2. Len(Read) =< Len(s)  BY <1>3, <1>4, <2>1, PrefixElements DEF Framed
  <2> QED  BY <1>4, <2>1, <2>2
<1> DEFINE k == Len(Read)
<1>6. data \o Unread' = Bytes(From(s, k + 1))
  <2>1. pc # "failed"  OBVIOUS
  <2> QED  BY Zenon, <1>3, <2>1 DEF Framed, Unread
<1> HIDE DEF k
<1>7. /\ k + 1 \in 1 .. Len(s) /\ PktLen(data) = Len(s[k + 1]) /\ s[k + 1] \in Seq(Nat)
      /\ p = s[k + 1] /\ left \o Unread' = Bytes(From(s, (k + 1) + 1))
  <2>1. k \in 0 .. Len(s)  BY <1>5 DEF k
  <2> DEFINE u == Unread'
  <2>2. u \in Seq(Nat) /\ data \o u = Bytes(From(s, k + 1))  BY <1>6
  <2> HIDE DEF u
  <2>3. /\ k + 1 \in 1 .. Len(s) /\ PktLen(data) = Len(s[k + 1]) /\ s[k + 1] \in Seq(Nat)
        /\ p = s[k + 1] /\ left \o u = Bytes(From(s, (k + 1) + 1))
    BY Zenon, <2>1, <2>2, NextPacket
  <2> QED  BY Zenon, <2>3 DEF u
<1>8. left \in Seq(Nat)
  <2>1. PktLen(data) \in Nat  BY <1>7
  <2> QED  BY <2>1
<1>9. /\ r \in [state : {"Init", "Header", "Remain"}, data : Seq(Nat), size : Nat]
      /\ r.state # "Remain" /\ r.data = left
  BY Zenon, <1>8
<1> HIDE DEF p, left, r
<1>10. p \in M /\ Append(rd, p) \in Seq(M) /\ Len(Append(rd, p)) =< 1
  <2>1. p \in M  BY <1>7
  <2> HIDE DEF M
  <2> QED  BY <1>4, <2>1
<1>11. Read' = Append(Read, p) /\ Len(Append(Read, p)) = k + 1
  <2>1. Read' = handled \o up \o Append(rd, p)  BY Zenon, <1>1 DEF Read, ReadKeeps
  <2> HIDE DEF M
  <2>2. handled \o up \in Seq(M)  BY <1>4
  <2>3. (handled \o up) \o Append(rd, p) = Append((handled \o up) \o rd, p)
    <3> DEFINE h == handled \o up
    <3> HIDE DEF h
    <3>1. h \in Seq(M)  BY <2>2 DEF h
    <3>2. h \o Append(rd, p) = Append(h \o rd, p)  BY <1>4, <1>10, <3>1
    <3> QED  BY <3>2 DEF h
  <2>4. Len(Append(Read, p)) = Len(Read) + 1  BY <1>5, <1>10
  <2> QED  BY Zenon, <2>1, <2>3, <2>4 DEF Read, k
<1>12. Begins(Append(Read, p), s)
  <2> HIDE DEF M
  <2>1. Len(Read) + 1 =< Len(s) /\ p = s[Len(Read) + 1]  BY <1>5, <1>7 DEF k
  <2>2. Begins(Read, s)  BY <1>3 DEF Framed
  <2> QED  BY <1>4, <1>5, <2>1, <2>2, PrefixGrows
<1>13. TypeOK'  BY Zenon, <1>1, <1>2, <1>9, <1>10 DEF IInv, TypeOK, ReadKeeps, M
<1>14. Paced'  BY Zenon, <1>1, <1>2, <1>9 DEF Paced
<1>15. StreamIsWhole'
  <2>1. stream' = Bytes(s)  BY Zenon, <1>3 DEF Framed, ReadKeeps
  <2>2. pr'.data \o Unread' = Bytes(From(s, Len(Read') + 1))
    BY Zenon, <1>1, <1>7, <1>9, <1>11
  <2>3. Framed(s)'  BY Zenon, <1>11, <1>12, <2>1, <2>2 DEF Framed, Unread
  <2> QED  BY Zenon, <2>3, WholeIsFramed
<1>16. AnswersAreWhole'  BY Zenon, AnswersKept DEF IInv, ReadKeeps
<1>17. SocketsAreBounded'  BY Zenon, <1>1, <1>10 DEF IInv, SocketsAreBounded, ReadKeeps
<1> QED  BY Zenon, <1>13, <1>14, <1>15, <1>16, <1>17 DEF IInv

(* A length that was read is one.                                          *)
LEMMA LengthTyped ==
  ASSUME IInv, pc = "read", NEW data \in Seq(Nat), NEW rest \in Seq(Nat),
         data \o rest = pr.data \o Unread, HasLength(data)
  PROVE  PktLen(data) \in Nat
<1> DEFINE M == Seq(Nat)
           k == Len(Read)
<1>1. PICK s \in Sent : Framed(s)  BY Zenon, WholeIsFramed DEF IInv
<1>2. handled \in Seq(M) /\ up \in Seq(M) /\ rd \in Seq(M) /\ s \in Seq(M)
  BY PipelineAssumption DEF IInv, TypeOK
<1>3. k \in 0 .. Len(s)
  <2> HIDE DEF M
  <2>1. Read \in Seq(M)  BY <1>2 DEF Read
  <2>2. Len(Read) =< Len(s)  BY <1>1, <1>2, <2>1, PrefixElements DEF Framed
  <2> QED  BY <1>2, <2>1, <2>2
<1>4. data \o rest = Bytes(From(s, k + 1))
  <2>1. pc # "failed"  OBVIOUS
  <2> QED  BY Zenon, <1>1, <2>1 DEF Framed, Unread
<1> HIDE DEF k
<1>5. PktLen(data) = Len(s[k + 1]) /\ s[k + 1] \in Seq(Nat)  BY Zenon, <1>3, <1>4, NextPacket
<1> QED  BY <1>5

(* read_packet, from the bytes read ahead and from the kernel.             *)
LEMMA ReadPacketStep ==
  ASSUME IInv, ReadPacket
  PROVE  IInv'
<1>1. pc = "read" /\ ReadKeeps
  BY Zenon DEF ReadPacket, sessionVars, writeVars, ReadKeeps
<1>2. /\ stream \in Seq(Nat) /\ arrived \in 0 .. Len(stream) /\ ipos \in 0 .. arrived
      /\ pr.state \in {"Init", "Header", "Remain"} /\ pr.data \in Seq(Nat) /\ pr.size \in Nat
      /\ pr.state = "Remain" => Len(pr.data) < pr.size
      /\ MaxSize \in Nat /\ Len(stream) \in Nat /\ Len(pr.data) \in Nat
  <2>1. /\ stream \in Seq(Nat) /\ arrived \in 0 .. Len(stream) /\ ipos \in 0 .. arrived
        /\ pr.state \in {"Init", "Header", "Remain"} /\ pr.data \in Seq(Nat)
        /\ pr.size \in Nat
    BY DEF IInv, TypeOK
  <2>2. pr.state = "Remain" => Len(pr.data) < pr.size  BY Zenon DEF IInv, Paced
  <2>3. MaxSize \in Nat /\ Len(stream) \in Nat /\ Len(pr.data) \in Nat
    BY <2>1, PipelineAssumption
  <2> QED  BY Zenon, <2>1, <2>2, <2>3
<1>3. CASE PreRead
  <2>1. ipos' = ipos  BY Zenon, <1>3 DEF ReadPacket
  <2>2. Unread' = Unread  BY Zenon, <1>1, <2>1 DEF Unread, ReadKeeps
  <2>3. ipos' \in 0 .. arrived /\ Unread \in Seq(Nat)  BY <1>2, <2>1 DEF Unread
  <2>4. CASE PktLen(pr.data) > MaxSize
    <3>1. Fail  BY Zenon, <1>3, <2>4 DEF ReadPacket
    <3> QED  BY Zenon, <1>1, <2>3, <3>1, FailStep
  <2>5. CASE ~ (PktLen(pr.data) > MaxSize)
    <3>1. Finish(pr.data, PktLen(pr.data))  BY Zenon, <1>3, <2>5 DEF ReadPacket
    <3>2. HasLength(pr.data)  BY <1>3 DEF PreRead
    <3>3. PktLen(pr.data) \in Nat  BY Zenon, <1>1, <1>2, <2>3, <3>2, LengthTyped
    <3>4. PktLen(pr.data) =< Len(pr.data)  BY <1>2, <1>3, <2>5, <3>3 DEF PreRead
    <3>5. pr.data \o Unread' = pr.data \o Unread /\ Unread' \in Seq(Nat)
      BY Zenon, <2>2, <2>3
    <3> QED  BY Zenon, <1>1, <1>2, <2>3, <3>1, <3>2, <3>4, <3>5, FinishStep
  <2> QED  BY Zenon, <2>4, <2>5
<1>4. CASE ~ PreRead
  <2> DEFINE room == IF pr.state = "Remain" THEN pr.size - Len(pr.data) ELSE Scratch
             n == Least(room, arrived - ipos)
             data == Buffered(SubSeq(stream, ipos + 1, ipos + n))
  <2>1. n \in 0 .. arrived - ipos
    <3>1. room \in Nat  BY <1>2 DEF Scratch
    <3> HIDE DEF room
    <3> QED  BY <1>2, <3>1 DEF Least
  <2>2. /\ ipos' = ipos + n
        /\ \/ /\ n = 0
              /\ Wait(pr.state, pr.data, pr.size)
           \/ /\ n > 0 /\ ~HasLength(data)
              /\ Wait("Header", data, 0)
           \/ /\ n > 0 /\ HasLength(data)
              /\ \/ PktLen(data) > MaxSize /\ Fail
                 \/ PktLen(data) \in Len(data) + 1 .. MaxSize /\ Wait("Remain", data, PktLen(data))
                 \/ PktLen(data) <= Least(MaxSize, Len(data)) /\ Finish(data, PktLen(data))
    BY Zenon, <1>4 DEF ReadPacket
  <2> HIDE DEF n
  <2>3. data \in Seq(Nat) /\ Unread' \in Seq(Nat) /\ data \o Unread' = pr.data \o Unread
    <3>1. ipos \in 0 .. Len(stream) /\ n \in 0 .. Len(stream) - ipos  BY <1>2, <2>1
    <3>2. Unread' = SubSeq(stream, (ipos + n) + 1, Len(stream))
      BY Zenon, <1>1, <2>2 DEF Unread, ReadKeeps
    <3>3. data = pr.data \o SubSeq(stream, ipos + 1, ipos + n)  BY DEF Buffered
    <3>4. Unread = SubSeq(stream, ipos + 1, Len(stream))  BY DEF Unread
    <3> HIDE DEF data
    <3> QED  BY Zenon, <1>2, <3>1, <3>2, <3>3, <3>4, BytesMove
  <2>4. ipos' \in 0 .. arrived  BY <1>2, <2>1, <2>2
  <2>5. n = 0 => data = pr.data
    <3>1. SubSeq(stream, ipos + 1, ipos) = <<>>  BY <1>2
    <3>2. pr.data \o <<>> = pr.data  BY <1>2, ConcatEmptySeq
    <3>3. ipos + 0 = ipos  BY <1>2
    <3> QED  BY Zenon, <3>1, <3>2, <3>3 DEF Buffered
  <2> HIDE DEF data
  <2>6. CASE n = 0 /\ Wait(pr.state, pr.data, pr.size)
    <3>1. pr.data \o Unread' = pr.data \o Unread  BY Zenon, <2>3, <2>5, <2>6
    <3> QED  BY Zenon, <1>1, <1>2, <2>4, <2>6, <3>1, WaitStep
  <2>7. CASE Wait("Header", data, 0)
    BY Zenon, <1>1, <2>3, <2>4, <2>7, WaitStep
  <2>8. CASE Fail
    BY Zenon, <1>1, <2>4, <2>8, FailStep
  <2>9. CASE PktLen(data) \in Len(data) + 1 .. MaxSize /\ Wait("Remain", data, PktLen(data))
    <3>1. PktLen(data) \in Nat /\ Len(data) < PktLen(data)  BY <1>2, <2>3, <2>9
    <3> QED  BY Zenon, <1>1, <2>3, <2>4, <2>9, <3>1, WaitStep
  <2>10. CASE HasLength(data) /\ PktLen(data) <= Least(MaxSize, Len(data))
              /\ Finish(data, PktLen(data))
    <3> DEFINE u == Unread'
    <3>1. u \in Seq(Nat) /\ data \o u = pr.data \o Unread  BY <2>3
    <3> HIDE DEF u
    <3>2. PktLen(data) \in Nat  BY Zenon, <1>1, <2>3, <2>10, <3>1, LengthTyped
    <3>3. PktLen(data) =< Len(data)  BY <1>2, <2>3, <2>10, <3>2 DEF Least
    <3> QED  BY Zenon, <1>1, <2>3, <2>4, <2>10, <3>3, FinishStep
  <2> QED  BY Zenon, <2>2, <2>6, <2>7, <2>8, <2>9, <2>10
<1> QED  BY Zenon, <1>3, <1>4

(* A new connection.                                                       *)
LEMMA Initially == Init => IInv
<1> SUFFICES ASSUME Init  PROVE IInv  OBVIOUS
<1>1. PICK s \in Sent : stream = Bytes(s)  BY DEF Init
<1> DEFINE r == [state |-> "Init", data |-> <<>>, size |-> 0]
<1>2. /\ arrived = 0 /\ ipos = 0 /\ pr = r
      /\ rd = <<>> /\ up = <<>> /\ handled = <<>> /\ acks = <<>> /\ down = <<>> /\ wt = <<>>
      /\ pw = <<>> /\ wire = <<>> /\ taken = 0 /\ pc = "send" /\ recvd = 0
  BY Zenon DEF Init
<1>3. /\ r \in [state : {"Init", "Header", "Remain"}, data : Seq(Nat), size : Nat]
      /\ r.state = "Init" /\ r.data = <<>>
  OBVIOUS
<1> HIDE DEF r
<1>4. s \in Seq(Seq(Nat)) /\ stream \in Seq(Nat)
  BY <1>1, PipelineAssumption, BytesTyped
<1>5. /\ <<>> \in Seq(Nat) /\ <<>> \in Seq(Seq(Nat)) /\ Len(<<>>) = 0
      /\ <<>> \o <<>> = <<>> /\ 0 \in 0 .. 0 /\ 0 \in Nat
      /\ 0 - 0 =< SendBuffer /\ 0 =< 1 /\ 0 =< Batch + 1 /\ 0 + 1 = 1
  BY PipelineAssumption
<1>6. TypeOK
  <2>1. 0 \in 0 .. Len(stream) /\ pc \in Pcs  BY <1>2, <1>4 DEF Pcs
  <2> QED  BY Zenon, <1>2, <1>3, <1>4, <1>5, <2>1 DEF TypeOK
<1>7. Paced  BY <1>2, <1>3 DEF Paced
<1>8. StreamIsWhole
  <2>1. Read = <<>> /\ Len(Read) + 1 = 1  BY Zenon, <1>2, <1>5 DEF Read
  <2>2. Begins(<<>>, s)
    <3> DEFINE M == Seq(Nat)
    <3>1. s \in Seq(M) /\ <<>> \in Seq(M)  BY <1>4
    <3> HIDE DEF M
    <3>2. Len(<<>>) =< Len(s) /\ \A i \in 1 .. Len(<<>>) : <<>>[i] = s[i]  BY <3>1
    <3> QED  BY Zenon, <3>1, <3>2, PrefixElements
  <2>3. From(s, 1) = s
    <3> DEFINE M == Seq(Nat)
    <3>1. s \in Seq(M)  BY <1>4
    <3> HIDE DEF M
    <3> QED  BY <3>1, SubSeqFull DEF From
  <2>4. pr.data \o SubSeq(stream, ipos + 1, Len(stream)) = stream
    <3>1. SubSeq(stream, 1, Len(stream)) = stream  BY <1>4, SubSeqFull
    <3>2. <<>> \o stream = stream  BY <1>4, ConcatEmptySeq
    <3> QED  BY Zenon, <1>2, <1>3, <1>5, <3>1, <3>2
  <2>5. Framed(s)  BY Zenon, <1>1, <2>1, <2>2, <2>3, <2>4 DEF Framed
  <2> QED  BY Zenon, <2>5, WholeIsFramed
<1>9. AnswersAreWhole
  <2>1. Answers = <<>>  BY <1>2 DEF Answers
  <2> QED  BY Zenon, <1>2, <1>5, <2>1, BytesEmpty DEF AnswersAreWhole
<1>10. SocketsAreBounded  BY Zenon, <1>2, <1>5 DEF SocketsAreBounded
<1> QED  BY Zenon, <1>6, <1>7, <1>8, <1>9, <1>10 DEF IInv

(* Every step keeps the invariant.                                         *)
LEMMA Inductive == IInv /\ [Next]_vars => IInv'
<1> SUFFICES ASSUME IInv, [Next]_vars  PROVE IInv'  OBVIOUS
<1>1. CASE UNCHANGED vars
  <2>1. /\ stream' = stream /\ arrived' = arrived /\ ipos' = ipos /\ pr' = pr /\ rd' = rd
        /\ up' = up /\ handled' = handled /\ acks' = acks /\ down' = down /\ wt' = wt
        /\ pw' = pw /\ wire' = wire /\ recvd' = recvd /\ taken' = taken /\ pc' = pc
    BY Zenon, <1>1 DEF vars, readVars, sessionVars, writeVars
  <2> QED  BY Zenon, <2>1 DEF IInv, TypeOK, Paced, StreamIsWhole, Read, AnswersAreWhole,
                   Answers, SocketsAreBounded
<1>2. CASE Terminated  BY Zenon, <1>1, <1>2 DEF Terminated
<1> QED
  BY Zenon, <1>1, <1>2, ArriveStep, ClientReadsStep, SendUpstreamStep, ReadPacketStep,
     WritePacketStep, ReceiveStep, RoutePacketStep, FlushAckStep DEF Next, Miot

(* The inductive invariant holds throughout.                               *)
THEOREM Invariance == Spec => []IInv
BY Initially, Inductive, PTL DEF Spec

(* Whatever the pieces in which a client's bytes arrive, the session gets  *)
(* the packets that were sent, whole, in order and none twice, and the     *)
(* bytes MQTTRead has read too far are never lost: StreamIsWhole, for all  *)
(* streams of packets, any base, any packet limit and any batch.           *)
THEOREM NothingTorn == Spec => []StreamIsWhole
<1>1. IInv => StreamIsWhole  BY Zenon DEF IInv
<1> QED  BY <1>1, Invariance, PTL

(* The bytes written to the client are those of the answers in the order   *)
(* of its requests, however little the kernel takes at a time: nothing is  *)
(* lost between out_acks, the queue, wt.packets and MQTTWrite.             *)
THEOREM AnswersComeWhole == Spec => []AnswersAreWhole
<1>1. IInv => AnswersAreWhole  BY Zenon DEF IInv
<1> QED  BY <1>1, Invariance, PTL

(* The socket's own queues are bounded: one packet read, and one batch and *)
(* one packet to write, though neither is checked where it is filled.      *)
THEOREM BackPressure == Spec => []SocketsAreBounded
<1>1. IInv => SocketsAreBounded  BY Zenon DEF IInv
<1> QED  BY <1>1, Invariance, PTL
=============================================================================

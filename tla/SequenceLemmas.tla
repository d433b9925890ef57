---------------------------- MODULE SequenceLemmas ----------------------------
(***************************************************************************)
(* What the operators on sequences that the models use compute, for        *)
(* sequences of any length.  The inductions are from the least counter-    *)
(* example: a set of natural numbers that is not empty has a least one.    *)
(***************************************************************************)
EXTENDS Naturals, Sequences, QueueOps, SequenceTheorems, WellFoundedInduction, TLAPS

(* A set of natural numbers that is not empty has a least element.         *)
LEMMA LeastExists ==
  ASSUME NEW S \in SUBSET Nat, S # {}
  PROVE  \E x \in S : \A y \in S : x =< y
<1> DEFINE Less == {ss \in Nat \X Nat : ss[1] < ss[2]}
<1>1. OpToRel(<, Nat) = Less
  BY Zenon DEF OpToRel
<1>2. IsWellFoundedOn(Less, Nat)
  BY <1>1, NatLessThanWellFounded, Zenon
<1> HIDE DEF Less
<1>3. PICK x \in S : \A y \in S : ~ (<<y, x>> \in Less)
  BY <1>2, WFMin, Zenon
<1>4. ASSUME NEW y \in S  PROVE x =< y
  <2>1. y < x => <<y, x>> \in Less
    BY SMT DEF Less
  <2>2. ~ (y < x)
    BY <1>3, <2>1
  <2> QED  BY <2>2, SMT
<1> QED  BY <1>4

(* Induction: a set with 0 and with the successor of each of its numbers   *)
(* has them all.                                                           *)
LEMMA Induction ==
  ASSUME NEW S, 0 \in S, \A n \in Nat : n \in S => n + 1 \in S
  PROVE  \A n \in Nat : n \in S
<1> DEFINE R == Nat \ S
<1>1. SUFFICES ASSUME R # {}  PROVE FALSE  BY Zenon
<1>2. PICK x \in R : \A y \in R : x =< y  BY <1>1, LeastExists
<1>3. x \in Nat /\ x \notin S /\ x # 0  OBVIOUS
<1>4. x - 1 \in Nat /\ x - 1 \notin R  BY <1>2, <1>3, SMT
<1>5. x - 1 \in S  BY <1>4
<1>6. (x - 1) + 1 \in S  BY <1>4, <1>5
<1> QED  BY <1>3, <1>6, SMT
-----------------------------------------------------------------------------
(* Concatenation of sequences over one set is associative.                 *)
Assoc(M) == \A x, y, z \in Seq(M) : (x \o y) \o z = x \o (y \o z)

(* The library's theorem, in a form that names the set.                    *)
LEMMA Associative == \A M : Assoc(M)
BY ConcatAssociative DEF Assoc
-----------------------------------------------------------------------------
(* What Flatten computes.                                                  *)

(* The function by which Flatten is defined.                               *)
UpTo(f, s) == f = [i \in 0 .. Len(s) |-> IF i = 0 THEN <<>> ELSE f[i - 1] \o s[i]]

(* There is one for every sequence of parts.                               *)
LEMMA UpToExists ==
  ASSUME NEW M
  PROVE  \A s \in Seq(M) : \E f : UpTo(f, s)
<1> DEFINE Good(n) == \A s \in Seq(M) : Len(s) = n => \E f : UpTo(f, s)
           S == {n \in Nat : Good(n)}
<1>1. Good(0)
  <2> SUFFICES ASSUME NEW s \in Seq(M), Len(s) = 0  PROVE \E f : UpTo(f, s)
    OBVIOUS
  <2> DEFINE f == [i \in 0 .. Len(s) |-> <<>>]
  <2>1. \A i \in 0 .. Len(s) : i = 0  OBVIOUS
  <2>2. f = [i \in 0 .. Len(s) |-> IF i = 0 THEN <<>> ELSE f[i - 1] \o s[i]]  BY <2>1
  <2> QED  BY <2>2 DEF UpTo
<1>2. ASSUME NEW n \in Nat, Good(n)  PROVE Good(n + 1)
  <2> SUFFICES ASSUME NEW s \in Seq(M), Len(s) = n + 1  PROVE \E f : UpTo(f, s)
    OBVIOUS
  <2> DEFINE t == SubSeq(s, 1, n)
  <2>1. t \in Seq(M) /\ Len(t) = n /\ \A i \in 1 .. n : t[i] = s[i]  OBVIOUS
  <2>2. PICK g : UpTo(g, t)  BY <1>2, <2>1
  <2> HIDE DEF t
  <2>3. \A i \in 0 .. n : g[i] = IF i = 0 THEN <<>> ELSE g[i - 1] \o t[i]
    BY <2>1, <2>2 DEF UpTo
  <2> DEFINE f == [i \in 0 .. n + 1 |-> IF i =< n THEN g[i] ELSE g[n] \o s[i]]
  <2>4. ASSUME NEW i \in 0 .. n + 1
        PROVE  f[i] = IF i = 0 THEN <<>> ELSE f[i - 1] \o s[i]
    <3>1. CASE i \in 0 .. n
      <4>1. g[i] = IF i = 0 THEN <<>> ELSE g[i - 1] \o t[i]  BY <2>3, <3>1
      <4>2. f[i] = g[i] /\ (i # 0 => f[i - 1] = g[i - 1] /\ i \in 1 .. n)  BY <3>1
      <4> QED  BY <2>1, <4>1, <4>2
    <3>2. CASE i = n + 1
      <4>1. f[i] = g[n] \o s[i] /\ f[i - 1] = g[n] /\ i # 0  BY <3>2
      <4> QED  BY Zenon, <4>1
    <3> QED  BY <3>1, <3>2
  <2>5. f = [i \in 0 .. Len(s) |-> f[i]]  OBVIOUS
  <2> HIDE DEF f
  <2>6. UpTo(f, s)  BY <2>4, <2>5 DEF UpTo
  <2> QED  BY <2>6
<1> HIDE DEF Good
<1>3. 0 \in S /\ \A n \in Nat : n \in S => n + 1 \in S  BY <1>1, <1>2
<1> HIDE DEF S
<1>4. \A n \in Nat : n \in S  BY Zenon, <1>3, Induction
<1>5. \A n \in Nat : Good(n)  BY <1>4 DEF S
<1> QED  BY <1>5, LenProperties DEF Good

(* Flatten is its last value.                                              *)
LEMMA FlattenIs ==
  ASSUME NEW M, NEW s \in Seq(M)
  PROVE  \E f : UpTo(f, s) /\ Flatten(s) = f[Len(s)]
<1> DEFINE h == CHOOSE f : UpTo(f, s)
<1>1. UpTo(h, s)  BY UpToExists
<1>2. Flatten(s) = h[Len(s)]  BY DEF Flatten, UpTo
<1> QED  BY <1>1, <1>2

(* Nothing to flatten.                                                     *)
LEMMA FlattenEmpty == Flatten(<<>>) = <<>>
<1>1. PICK f : UpTo(f, <<>>) /\ Flatten(<<>>) = f[Len(<<>>)]
  <2>1. <<>> \in Seq(Nat)  OBVIOUS
  <2> QED  BY <2>1, FlattenIs
<1>2. Len(<<>>) = 0 /\ 0 \in 0 .. 0  OBVIOUS
<1> QED  BY <1>1, <1>2 DEF UpTo

(* What the function gives for a place is a sequence.                      *)
LEMMA UpToTyped ==
  ASSUME NEW B, NEW s \in Seq(Seq(B)), NEW f, UpTo(f, s)
  PROVE  \A i \in 0 .. Len(s) : f[i] \in Seq(B)
<1> DEFINE S == {n \in Nat : n =< Len(s) => f[n] \in Seq(B)}
<1>1. Len(s) \in Nat  BY LenProperties
<1>2. \A i \in 0 .. Len(s) : f[i] = IF i = 0 THEN <<>> ELSE f[i - 1] \o s[i]  BY DEF UpTo
<1>3. 0 \in S
  <2>1. f[0] = <<>>  BY <1>1, <1>2
  <2>2. 0 \in Nat /\ <<>> \in Seq(B)  OBVIOUS
  <2> QED  BY Zenon, <2>1, <2>2
<1>4. ASSUME NEW n \in Nat, n \in S  PROVE n + 1 \in S
  <2> SUFFICES ASSUME n + 1 =< Len(s)  PROVE f[n + 1] \in Seq(B)  OBVIOUS
  <2>1. n + 1 \in 1 .. Len(s) /\ n + 1 \in 0 .. Len(s) /\ n + 1 # 0 /\ (n + 1) - 1 = n
    BY <1>1
  <2>2. f[n + 1] = f[n] \o s[n + 1]  BY <1>2, <2>1
  <2>3. f[n] \in Seq(B)  BY <1>1, <1>4
  <2>4. s[n + 1] \in Seq(B)  BY <2>1, ElementOfSeq
  <2> QED  BY <2>2, <2>3, <2>4, ConcatProperties
<1> HIDE DEF S
<1>5. \A n \in Nat : n \in S  BY Zenon, <1>3, <1>4, Induction
<1>6. ASSUME NEW i \in 0 .. Len(s)  PROVE f[i] \in Seq(B)
  <2>1. i \in Nat /\ i =< Len(s)  BY <1>1
  <2>2. i \in S  BY <1>5, <2>1
  <2> QED  BY <2>1, <2>2 DEF S
<1> QED  BY <1>6

(* It does not depend on the parts behind the place.                       *)
LEMMA UpToLocal ==
  ASSUME NEW M, NEW s \in Seq(M), NEW p \in M, NEW f, NEW g,
         UpTo(f, s), UpTo(g, Append(s, p))
  PROVE  \A i \in 0 .. Len(s) : g[i] = f[i]
<1> DEFINE S == {n \in Nat : n =< Len(s) => g[n] = f[n]}
           t == Append(s, p)
<1>1. Len(s) \in Nat  BY LenProperties
<1>2. Len(t) = Len(s) + 1 /\ \A i \in 1 .. Len(s) : t[i] = s[i]  OBVIOUS
<1>3. \A i \in 0 .. Len(s) : f[i] = IF i = 0 THEN <<>> ELSE f[i - 1] \o s[i]  BY DEF UpTo
<1>4. \A i \in 0 .. Len(t) : g[i] = IF i = 0 THEN <<>> ELSE g[i - 1] \o t[i]  BY DEF UpTo
<1> HIDE DEF t
<1>5. 0 \in S
  <2>1. f[0] = <<>> /\ g[0] = <<>>  BY <1>1, <1>2, <1>3, <1>4
  <2> QED  BY <2>1
<1>6. ASSUME NEW n \in Nat, n \in S  PROVE n + 1 \in S
  <2> SUFFICES ASSUME n + 1 =< Len(s)  PROVE g[n + 1] = f[n + 1]  OBVIOUS
  <2>1. /\ n + 1 \in 1 .. Len(s) /\ n + 1 \in 0 .. Len(s) /\ n + 1 \in 0 .. Len(t)
        /\ n + 1 # 0 /\ (n + 1) - 1 = n
    BY <1>1, <1>2
  <2>2. f[n + 1] = f[n] \o s[n + 1] /\ g[n + 1] = g[n] \o t[n + 1]  BY <1>3, <1>4, <2>1
  <2>3. g[n] = f[n]  BY <1>1, <1>6
  <2> QED  BY <1>2, <2>1, <2>2, <2>3
<1> HIDE DEF S
<1>7. \A n \in Nat : n \in S  BY Zenon, <1>5, <1>6, Induction
<1>8. ASSUME NEW i \in 0 .. Len(s)  PROVE g[i] = f[i]
  <2>1. i \in Nat /\ i =< Len(s)  BY <1>1
  <2>2. i \in S  BY <1>7, <2>1
  <2> QED  BY <2>1, <2>2 DEF S
<1> QED  BY <1>8

(* Of sequences over a set it is one over that set.                        *)
LEMMA FlattenTyped ==
  ASSUME NEW B, NEW s \in Seq(Seq(B))
  PROVE  Flatten(s) \in Seq(B)
<1>1. PICK f : UpTo(f, s) /\ Flatten(s) = f[Len(s)]  BY FlattenIs
<1>2. Len(s) \in 0 .. Len(s)  BY LenProperties
<1> QED  BY <1>1, <1>2, UpToTyped

(* One more part.                                                          *)
LEMMA FlattenAppend ==
  ASSUME NEW B, NEW s \in Seq(Seq(B)), NEW p \in Seq(B)
  PROVE  Flatten(Append(s, p)) = Flatten(s) \o p
<1> DEFINE M == Seq(B)
           t == Append(s, p)
<1>1. s \in Seq(M) /\ p \in M  OBVIOUS
<1> HIDE DEF M
<1>2. t \in Seq(M) /\ Len(t) = Len(s) + 1 /\ t[Len(s) + 1] = p /\ Len(s) \in Nat  BY <1>1
<1>3. PICK f : UpTo(f, s) /\ Flatten(s) = f[Len(s)]  BY <1>1, FlattenIs
<1>4. PICK g : UpTo(g, t) /\ Flatten(t) = g[Len(t)]  BY <1>2, FlattenIs
<1>5. g[Len(s)] = f[Len(s)]
  <2>1. Len(s) \in 0 .. Len(s)  BY <1>2
  <2> QED  BY <1>1, <1>3, <1>4, <2>1, UpToLocal
<1> HIDE DEF t
<1>6. g[Len(t)] = g[Len(s)] \o t[Len(s) + 1]
  <2>1. Len(t) \in 0 .. Len(t) /\ Len(t) # 0 /\ Len(t) - 1 = Len(s)  BY <1>2
  <2>2. g[Len(t)] = IF Len(t) = 0 THEN <<>> ELSE g[Len(t) - 1] \o t[Len(t)]
    BY <1>4, <2>1 DEF UpTo
  <2> QED  BY <1>2, <2>1, <2>2
<1> QED  BY Zenon, <1>2, <1>3, <1>4, <1>5, <1>6 DEF t

(* Two sequences of parts, one behind the other.                           *)
LEMMA FlattenConcat ==
  ASSUME NEW B, NEW s \in Seq(Seq(B))
  PROVE  \A t \in Seq(Seq(B)) : Flatten(s \o t) = Flatten(s) \o Flatten(t)
<1> DEFINE Good(n) == \A t \in Seq(Seq(B)) :
                        Len(t) = n => Flatten(s \o t) = Flatten(s) \o Flatten(t)
           S == {n \in Nat : Good(n)}
<1>a. Assoc(B)  BY Zenon, Associative
<1>1. Flatten(s) \in Seq(B)  BY FlattenTyped
<1>2. Good(0)
  <2> SUFFICES ASSUME NEW t \in Seq(Seq(B)), Len(t) = 0
               PROVE  Flatten(s \o t) = Flatten(s) \o Flatten(t)
    OBVIOUS
  <2>1. t = <<>>  BY EmptySeq, SMT
  <2>2. s \o t = s  BY <2>1, ConcatEmptySeq
  <2>3. Flatten(s) \o Flatten(t) = Flatten(s)
    BY <1>1, <2>1, FlattenEmpty, ConcatEmptySeq
  <2> QED  BY <2>2, <2>3
<1>3. ASSUME NEW n \in Nat, Good(n)  PROVE Good(n + 1)
  <2> SUFFICES ASSUME NEW t \in Seq(Seq(B)), Len(t) = n + 1
               PROVE  Flatten(s \o t) = Flatten(s) \o Flatten(t)
    OBVIOUS
  <2> DEFINE u == SubSeq(t, 1, n)
             p == t[n + 1]
  <2>1. u \in Seq(Seq(B)) /\ Len(u) = n /\ p \in Seq(B)  BY SMT
  <2>2. t = Append(u, p)  BY SMT
  <2> HIDE DEF u, p
  <2>3. s \o t = Append(s \o u, p) /\ s \o u \in Seq(Seq(B))  BY <2>1, <2>2, SMT
  <2>4. Flatten(s \o t) = Flatten(s \o u) \o p  BY <2>1, <2>3, FlattenAppend
  <2>5. Flatten(s \o u) = Flatten(s) \o Flatten(u)  BY <1>3, <2>1
  <2>6. Flatten(t) = Flatten(u) \o p  BY <2>1, <2>2, FlattenAppend
  <2> DEFINE x == Flatten(s)
             y == Flatten(u)
  <2>7. x \in Seq(B) /\ y \in Seq(B)  BY <1>1, <2>1, FlattenTyped
  <2> HIDE DEF x, y
  <2>8. (x \o y) \o p = x \o (y \o p)  BY Zenon, <1>a, <2>1, <2>7 DEF Assoc
  <2> QED  BY Zenon, <2>4, <2>5, <2>6, <2>8 DEF x, y
<1> HIDE DEF Good
<1>4. 0 \in S /\ \A n \in Nat : n \in S => n + 1 \in S  BY <1>2, <1>3, SMT
<1> HIDE DEF S
<1>5. \A n \in Nat : n \in S  BY Zenon, <1>4, Induction
<1>6. \A n \in Nat : Good(n)  BY <1>5 DEF S
<1> QED  BY <1>6, LenProperties DEF Good
-----------------------------------------------------------------------------
(* Sequences that are mapped element by element.                           *)

(* Induction over sequences: a set with the empty sequence, and with each  *)
(* of its sequences one more element, has them all.                        *)
LEMMA SeqInduction ==
  ASSUME NEW M, NEW P, <<>> \in P, \A s \in Seq(M) : \A m \in M : s \in P => Append(s, m) \in P
  PROVE  \A s \in Seq(M) : s \in P
<1> DEFINE Good(n) == \A s \in Seq(M) : Len(s) = n => s \in P
           S == {n \in Nat : Good(n)}
<1>1. Good(0)  BY EmptySeq
<1>2. ASSUME NEW n \in Nat, Good(n)  PROVE Good(n + 1)
  <2> SUFFICES ASSUME NEW s \in Seq(M), Len(s) = n + 1  PROVE s \in P  OBVIOUS
  <2> DEFINE u == SubSeq(s, 1, n)
             m == s[n + 1]
  <2>1. u \in Seq(M) /\ Len(u) = n /\ m \in M  BY SMT
  <2>2. s = Append(u, m)  BY SMT
  <2> HIDE DEF u, m
  <2>3. u \in P  BY <1>2, <2>1
  <2> QED  BY Zenon, <2>1, <2>2, <2>3
<1> HIDE DEF Good
<1>3. 0 \in S /\ \A n \in Nat : n \in S => n + 1 \in S  BY <1>1, <1>2, SMT
<1> HIDE DEF S
<1>4. \A n \in Nat : n \in S  BY Zenon, <1>3, Induction
<1>5. \A n \in Nat : Good(n)  BY <1>4 DEF S
<1> QED  BY <1>5, LenProperties DEF Good

(* Each element of a sequence replaced by the sequence a function gives.   *)
FlatMap(g, w) == Flatten([i \in DOMAIN w |-> g[w[i]]])

(* Nothing to map.                                                         *)
LEMMA FlatMapEmpty == \A g : FlatMap(g, <<>>) = <<>>
<1> SUFFICES ASSUME NEW g  PROVE FlatMap(g, <<>>) = <<>>  OBVIOUS
<1>1. [i \in DOMAIN <<>> |-> g[<<>>[i]]] = <<>>  OBVIOUS
<1> QED  BY Zenon, <1>1, FlattenEmpty DEF FlatMap

(* The sequences an element each is replaced by.                           *)
LEMMA MappedTyped ==
  ASSUME NEW M, NEW B, NEW g \in [M -> Seq(B)], NEW w \in Seq(M)
  PROVE  [i \in DOMAIN w |-> g[w[i]]] \in Seq(Seq(B))
<1>1. DOMAIN w = 1 .. Len(w) /\ Len(w) \in Nat  BY LenProperties
<1>2. \A i \in 1 .. Len(w) : g[w[i]] \in Seq(B)  BY <1>1
<1> DEFINE Q == Seq(B)
<1> HIDE DEF Q
<1>3. \A i \in 1 .. Len(w) : g[w[i]] \in Q  BY <1>2 DEF Q
<1>4. [i \in 1 .. Len(w) |-> g[w[i]]] \in Seq(Q)  BY <1>1, <1>3
<1> QED  BY Zenon, <1>1, <1>4 DEF Q

(* What is mapped is a sequence.                                           *)
LEMMA FlatMapTyped ==
  ASSUME NEW M, NEW B, NEW g \in [M -> Seq(B)], NEW w \in Seq(M)
  PROVE  FlatMap(g, w) \in Seq(B)
<1>1. [i \in DOMAIN w |-> g[w[i]]] \in Seq(Seq(B))  BY Zenon, MappedTyped
<1> QED  BY <1>1, FlattenTyped DEF FlatMap

(* One more element.                                                       *)
LEMMA FlatMapAppend ==
  ASSUME NEW M, NEW B, NEW g \in [M -> Seq(B)], NEW w \in Seq(M), NEW m \in M
  PROVE  FlatMap(g, Append(w, m)) = FlatMap(g, w) \o g[m]
<1> DEFINE f == [i \in DOMAIN w |-> g[w[i]]]
           t == Append(w, m)
           h == [i \in DOMAIN t |-> g[t[i]]]
           Q == Seq(B)
<1>1. f \in Seq(Seq(B)) /\ g[m] \in Seq(B)  BY MappedTyped
<1>2. t \in Seq(M)  BY SMT
<1>3. h \in Seq(Seq(B))
  <2> HIDE DEF t
  <2> QED BY <1>2, MappedTyped
<1> HIDE DEF Q
<1>4. f \in Seq(Q) /\ g[m] \in Q /\ h \in Seq(Q)  BY Zenon, <1>1, <1>3 DEF Q
<1>5. Len(w) \in Nat /\ DOMAIN w = 1 .. Len(w) /\ DOMAIN t = 1 .. Len(w) + 1
      /\ t[Len(w) + 1] = m /\ \A i \in 1 .. Len(w) : t[i] = w[i]
  BY SMT
<1> HIDE DEF t
<1>6. Len(f) = Len(w) /\ Len(h) = Len(w) + 1  BY <1>4, <1>5, LenProperties, SMT
<1>7. \A i \in 1 .. Len(w) : f[i] = g[w[i]] /\ h[i] = g[w[i]]  BY <1>5
<1>8. h[Len(w) + 1] = g[m]  BY <1>5
<1> HIDE DEF f, h
<1>9. h = Append(f, g[m])
  <2> DEFINE a == Append(f, g[m])
  <2>1. a \in Seq(Q) /\ Len(a) = Len(w) + 1 /\ a[Len(w) + 1] = g[m]
        /\ \A i \in 1 .. Len(w) : a[i] = f[i]
    BY <1>4, <1>5, <1>6, AppendProperties
  <2> HIDE DEF a
  <2>2. ASSUME NEW i \in 1 .. Len(h)  PROVE h[i] = a[i]
    <3>1. i \in 1 .. Len(w) \/ i = Len(w) + 1  BY <1>5, <1>6
    <3> QED  BY Zenon, <1>7, <1>8, <2>1, <3>1
  <2>3. h = a  BY <1>4, <1>6, <2>1, <2>2, SeqEqual
  <2> QED  BY <2>3 DEF a
<1>10. Flatten(Append(f, g[m])) = Flatten(f) \o g[m]  BY <1>1, FlattenAppend
<1> QED  BY Zenon, <1>9, <1>10 DEF FlatMap, f, h, t

(* Mapping two parts one after the other.                                  *)
Distributes(g, M) ==
  \A v, w \in Seq(M) : FlatMap(g, v \o w) = FlatMap(g, v) \o FlatMap(g, w)

(* FlatMap maps two parts one after the other.                             *)
LEMMA FlatMapConcat ==
  ASSUME NEW M, NEW B, NEW g \in [M -> Seq(B)]
  PROVE  Distributes(g, M)
<1> SUFFICES ASSUME NEW v \in Seq(M)
             PROVE  \A w \in Seq(M) : FlatMap(g, v \o w) = FlatMap(g, v) \o FlatMap(g, w)
  BY Zenon DEF Distributes
<1> DEFINE P == {w \in Seq(M) : FlatMap(g, v \o w) = FlatMap(g, v) \o FlatMap(g, w)}
<1>a. Assoc(B)  BY Zenon, Associative
<1>0. FlatMap(g, v) \in Seq(B)  BY FlatMapTyped
<1>1. <<>> \in P
  <2>1. <<>> \in Seq(M) /\ v \o <<>> = v  BY SMT
  <2>2. FlatMap(g, v) \o <<>> = FlatMap(g, v)  BY <1>0, ConcatEmptySeq
  <2> QED  BY Zenon, <2>1, <2>2, FlatMapEmpty
<1>2. ASSUME NEW w \in Seq(M), NEW m \in M, w \in P  PROVE Append(w, m) \in P
  <2>1. Append(w, m) \in Seq(M) /\ v \o w \in Seq(M) /\ v \o Append(w, m) = Append(v \o w, m)
    BY SMT
  <2>2. FlatMap(g, Append(w, m)) = FlatMap(g, w) \o g[m]  BY FlatMapAppend
  <2>3. FlatMap(g, Append(v \o w, m)) = FlatMap(g, v \o w) \o g[m]  BY <2>1, FlatMapAppend
  <2>4. FlatMap(g, v \o w) = FlatMap(g, v) \o FlatMap(g, w)  BY <1>2
  <2> DEFINE x == FlatMap(g, v)
             y == FlatMap(g, w)
             z == g[m]
  <2>5. x \in Seq(B) /\ y \in Seq(B) /\ z \in Seq(B)  BY <1>0, FlatMapTyped
  <2> HIDE DEF x, y, z
  <2>6. (x \o y) \o z = x \o (y \o z)  BY Zenon, <1>a, <2>5 DEF Assoc
  <2>7. FlatMap(g, v \o Append(w, m)) = FlatMap(g, v) \o FlatMap(g, Append(w, m))
    BY Zenon, <2>1, <2>2, <2>3, <2>4, <2>6 DEF x, y, z
  <2> QED  BY Zenon, <2>1, <2>7
<1> HIDE DEF P
<1>3. \A w \in Seq(M) : w \in P  BY Zenon, <1>1, <1>2, SeqInduction
<1> QED  BY <1>3 DEF P

(* One element.                                                            *)
LEMMA FlatMapOne ==
  ASSUME NEW M, NEW B, NEW g \in [M -> Seq(B)], NEW w \in Seq(M), NEW m \in M, NEW b,
         g[m] = <<b>>, b \in B
  PROVE  FlatMap(g, Append(w, m)) = Append(FlatMap(g, w), b)
<1>1. FlatMap(g, w) \in Seq(B)  BY FlatMapTyped
<1>2. FlatMap(g, Append(w, m)) = FlatMap(g, w) \o <<b>>  BY FlatMapAppend
<1> DEFINE x == FlatMap(g, w)
<1> HIDE DEF x
<1>3. x \in Seq(B)  BY <1>1 DEF x
<1>4. x \o <<b>> = Append(x, b)  BY <1>3, SMT
<1> QED  BY Zenon, <1>2, <1>4 DEF x

(* None.                                                                   *)
LEMMA FlatMapNone ==
  ASSUME NEW M, NEW B, NEW g \in [M -> Seq(B)], NEW w \in Seq(M), NEW m \in M, g[m] = <<>>
  PROVE  FlatMap(g, Append(w, m)) = FlatMap(g, w)
<1>1. FlatMap(g, w) \in Seq(B)  BY FlatMapTyped
<1>2. FlatMap(g, Append(w, m)) = FlatMap(g, w) \o <<>>  BY FlatMapAppend
<1> QED  BY Zenon, <1>1, <1>2, ConcatEmptySeq

(* The function by which Select maps what it selects to itself and the     *)
(* rest to nothing.                                                        *)
Keep(M, S) == [m \in M |-> IF m \in S THEN <<m>> ELSE <<>>]

(* Select is FlatMap of that function.                                     *)
LEMMA SelectIs ==
  ASSUME NEW M, NEW S, NEW w \in Seq(M)
  PROVE  Select(w, S) = FlatMap(Keep(M, S), w)
<1> DEFINE g == Keep(M, S)
<1>1. ASSUME NEW i \in DOMAIN w
      PROVE  (IF w[i] \in S THEN <<w[i]>> ELSE <<>>) = g[w[i]]
  <2>1. w[i] \in M  BY LenProperties
  <2> QED  BY Zenon, <2>1 DEF Keep
<1>2. [i \in DOMAIN w |-> IF w[i] \in S THEN <<w[i]>> ELSE <<>>]
        = [i \in DOMAIN w |-> g[w[i]]]
  BY Zenon, <1>1
<1> QED  BY Zenon, <1>2 DEF Select, FlatMap

(* Selecting from nothing, and from one element more.                      *)
LEMMA SelectAppend ==
  ASSUME NEW M, NEW S, NEW w \in Seq(M), NEW m \in M
  PROVE  /\ Select(<<>>, S) = <<>>
         /\ Select(w, S) \in Seq(M)
         /\ Select(Append(w, m), S) = IF m \in S THEN Append(Select(w, S), m) ELSE Select(w, S)
<1> DEFINE g == Keep(M, S)
<1>1. g \in [M -> Seq(M)]
  <2>1. \A x \in M : (IF x \in S THEN <<x>> ELSE <<>>) \in Seq(M)  OBVIOUS
  <2> QED  BY Zenon, <2>1 DEF Keep
<1>2. g[m] = IF m \in S THEN <<m>> ELSE <<>>  BY Zenon DEF Keep
<1>3. <<>> \in Seq(M) /\ Append(w, m) \in Seq(M)  BY SMT
<1>4. Select(<<>>, S) = FlatMap(g, <<>>)  BY <1>3, SelectIs
<1>5. Select(w, S) = FlatMap(g, w)  BY SelectIs
<1>6. Select(Append(w, m), S) = FlatMap(g, Append(w, m))
  <2> DEFINE t == Append(w, m)
  <2>1. t \in Seq(M)  BY <1>3
  <2> HIDE DEF t
  <2> QED BY <2>1, SelectIs DEF t
<1> HIDE DEF g
<1>9. FlatMap(g, <<>>) = <<>> /\ FlatMap(g, w) \in Seq(M)  BY <1>1, FlatMapEmpty, FlatMapTyped
<1>7. CASE m \in S
  <2>1. g[m] = <<m>>  BY Zenon, <1>2, <1>7
  <2>2. FlatMap(g, Append(w, m)) = Append(FlatMap(g, w), m)  BY <1>1, <2>1, FlatMapOne
  <2> QED  BY Zenon, <1>4, <1>5, <1>6, <1>7, <1>9, <2>2
<1>8. CASE m \notin S
  <2>1. g[m] = <<>>  BY Zenon, <1>2, <1>8
  <2>2. FlatMap(g, Append(w, m)) = FlatMap(g, w)  BY <1>1, <2>1, FlatMapNone
  <2> QED  BY Zenon, <1>4, <1>5, <1>6, <1>8, <1>9, <2>2
<1> QED  BY Zenon, <1>7, <1>8

(* The elements of a sequence with one more.                               *)
LEMMA RangeAppend ==
  ASSUME NEW M, NEW w \in Seq(M), NEW m \in M
  PROVE  Range(Append(w, m)) = Range(w) \cup {m}
<1>1. <<m>> \in Seq(M) /\ Append(w, m) = w \o <<m>>  BY SMT
<1>2. Range(<<m>>) = {m}
  <2>1. DOMAIN <<m>> = {1} /\ <<m>>[1] = m  BY SMT
  <2> QED  BY Zenon, <2>1 DEF Range
<1>3. Range(w \o <<m>>) = Range(w) \cup Range(<<m>>)  BY <1>1, RangeConcatenation
<1> QED  BY Zenon, <1>1, <1>2, <1>3

(* An empty sequence has no elements.                                      *)
LEMMA RangeEmpty == Range(<<>>) = {}
<1>1. DOMAIN <<>> = {}  BY SMT
<1> QED  BY Zenon, <1>1 DEF Range

(* What is selected are the elements that are in the set; there are not    *)
(* more of them.                                                           *)
LEMMA Selected ==
  ASSUME NEW M, NEW S
  PROVE  \A w \in Seq(M) : /\ Select(w, S) \in Seq(M) /\ Len(Select(w, S)) =< Len(w)
                           /\ Range(Select(w, S)) = Range(w) \cap S
<1> DEFINE P == {w \in Seq(M) : /\ Select(w, S) \in Seq(M) /\ Len(Select(w, S)) =< Len(w)
                                /\ Range(Select(w, S)) = Range(w) \cap S}
<1>1. <<>> \in P
  <2>1. <<>> \in Seq(M) /\ Len(<<>>) = 0 /\ 0 =< 0  BY SMT
  <2>2. Select(<<>>, S) = <<>>
    <3>1. FlatMap(Keep(M, S), <<>>) = <<>>  BY Zenon, FlatMapEmpty
    <3> QED  BY <2>1, <3>1, SelectIs
  <2>3. Range(<<>>) = Range(<<>>) \cap S  BY Zenon, RangeEmpty
  <2> QED  BY Zenon, <2>1, <2>2, <2>3
<1>2. ASSUME NEW w \in Seq(M), NEW m \in M, w \in P  PROVE Append(w, m) \in P
  <2> DEFINE t == Append(w, m)
             u == Select(w, S)
  <2>1. t \in Seq(M) /\ Len(t) = Len(w) + 1 /\ Len(w) \in Nat  BY SMT
  <2>2. Range(t) = Range(w) \cup {m}  BY RangeAppend
  <2>3. u \in Seq(M) /\ Len(u) =< Len(w) /\ Range(u) = Range(w) \cap S  BY Zenon, <1>2
  <2>4. Select(t, S) = IF m \in S THEN Append(u, m) ELSE u  BY SelectAppend
  <2> HIDE DEF u, t
  <2>5. CASE m \in S
    <3>1. Append(u, m) \in Seq(M) /\ Len(Append(u, m)) =< Len(t)  BY <2>1, <2>3, SMT
    <3>2. Range(Append(u, m)) = Range(u) \cup {m}  BY <2>3, RangeAppend
    <3>3. Range(Append(u, m)) = Range(t) \cap S  BY Zenon, <2>2, <2>3, <2>5, <3>2
    <3> QED  BY Zenon, <2>1, <2>4, <2>5, <3>1, <3>3 DEF t
  <2>6. CASE m \notin S
    <3>1. Len(u) =< Len(t)  BY <2>1, <2>3, SMT
    <3>2. Range(u) = Range(t) \cap S  BY Zenon, <2>2, <2>3, <2>6
    <3> QED  BY Zenon, <2>1, <2>3, <2>4, <2>6, <3>1, <3>2 DEF t
  <2> QED  BY Zenon, <2>5, <2>6
<1> HIDE DEF P
<1>3. \A w \in Seq(M) : w \in P  BY Zenon, <1>1, <1>2, SeqInduction
<1> QED  BY Zenon, <1>3 DEF P
-----------------------------------------------------------------------------
(* Two parts of a rising sequence.                                         *)
LEMMA RisingParts ==
  ASSUME NEW a \in Seq(Nat), NEW b \in Seq(Nat)
  PROVE  Rising(a \o b) <=> /\ Rising(a) /\ Rising(b)
                            /\ \A x \in Range(a), y \in Range(b) : x < y
<1> DEFINE c == a \o b
           k == Len(a)
           l == Len(b)
<1>1. /\ k \in Nat /\ l \in Nat /\ DOMAIN a = 1 .. k /\ DOMAIN b = 1 .. l
      /\ DOMAIN c = 1 .. k + l
      /\ \A i \in 1 .. k : c[i] = a[i]
      /\ \A i \in 1 .. l : c[k + i] = b[i]
  BY SMT
<1>2. /\ \A i \in 1 .. k : a[i] \in Nat
      /\ \A i \in 1 .. l : b[i] \in Nat
  BY SMT
<1> HIDE DEF c, k, l
<1>3. ASSUME Rising(c)
      PROVE  Rising(a) /\ Rising(b) /\ \A x \in Range(a), y \in Range(b) : x < y
  <2>0. \A j \in 1 .. k + l : \A i \in 1 .. j - 1 : c[i] < c[j]  BY <1>1, <1>3 DEF Rising
  <2>1. ASSUME NEW j \in 1 .. k, NEW i \in 1 .. j - 1  PROVE a[i] < a[j]
    <3>1. i \in 1 .. k /\ j \in 1 .. k + l  BY <1>1
    <3>2. c[i] < c[j]  BY <2>0, <3>1
    <3> QED  BY Zenon, <1>1, <3>1, <3>2
  <2>2. ASSUME NEW j \in 1 .. l, NEW i \in 1 .. j - 1  PROVE b[i] < b[j]
    <3>1. i \in 1 .. l /\ k + i \in 1 .. (k + j) - 1 /\ k + j \in 1 .. k + l  BY <1>1
    <3>2. c[k + i] < c[k + j]  BY Zenon, <2>0, <3>1
    <3> QED  BY Zenon, <1>1, <3>1, <3>2
  <2>3. ASSUME NEW i \in 1 .. k, NEW j \in 1 .. l  PROVE a[i] < b[j]
    <3>1. i \in 1 .. (k + j) - 1 /\ k + j \in 1 .. k + l  BY <1>1
    <3>2. c[i] < c[k + j]  BY Zenon, <2>0, <3>1
    <3> QED  BY Zenon, <1>1, <3>2
  <2>4. Rising(a) /\ Rising(b)  BY <1>1, <2>1, <2>2 DEF Rising
  <2>5. \A x \in Range(a), y \in Range(b) : x < y  BY Zenon, <1>1, <2>3 DEF Range
  <2> QED  BY <2>4, <2>5
<1>4. ASSUME Rising(a), Rising(b), \A x \in Range(a), y \in Range(b) : x < y
      PROVE  Rising(c)
  <2> SUFFICES ASSUME NEW j \in 1 .. k + l, NEW i \in 1 .. j - 1  PROVE c[i] < c[j]
    BY Zenon, <1>1 DEF Rising
  <2>1. \A m \in 1 .. k, n \in 1 .. l : a[m] < b[n]  BY Zenon, <1>1, <1>4 DEF Range
  <2>2. CASE j =< k
    <3>1. j \in 1 .. k /\ i \in 1 .. k  BY <1>1, <2>2
    <3>2. a[i] < a[j]  BY Zenon, <1>1, <1>4, <3>1 DEF Rising
    <3> QED  BY Zenon, <1>1, <3>1, <3>2
  <2>3. CASE ~ (j =< k) /\ i =< k
    <3>1. i \in 1 .. k /\ j - k \in 1 .. l /\ k + (j - k) = j  BY <1>1, <2>3
    <3>2. a[i] < b[j - k] /\ c[i] = a[i] /\ c[k + (j - k)] = b[j - k]  BY Zenon, <1>1, <2>1, <3>1
    <3> QED  BY <3>1, <3>2
  <2>4. CASE ~ (j =< k) /\ ~ (i =< k)
    <3>1. /\ i - k \in 1 .. (j - k) - 1 /\ j - k \in 1 .. l /\ i - k \in 1 .. l
          /\ k + (j - k) = j /\ k + (i - k) = i
      BY <1>1, <2>4
    <3>2. b[i - k] < b[j - k]  BY Zenon, <1>1, <1>4, <3>1 DEF Rising
    <3>3. c[k + (i - k)] = b[i - k] /\ c[k + (j - k)] = b[j - k]  BY Zenon, <1>1, <3>1
    <3> QED  BY <3>1, <3>2, <3>3
  <2> QED  BY Zenon, <2>2, <2>3, <2>4
<1> QED  BY Zenon, <1>3, <1>4 DEF c
=============================================================================

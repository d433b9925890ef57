-------------------------------- MODULE QueueOps ------------------------------
(***************************************************************************)
(* Operators on the sequences that model queues, channels and streams,     *)
(* each a function of sequences and sets only, so that proofs can use it.  *)
(***************************************************************************)
EXTENDS Naturals, Sequences

(* The concatenation of a sequence of sequences.                           *)
Flatten(seqs) ==
  LET upTo[i \in 0 .. Len(seqs)] == IF i = 0 THEN <<>> ELSE upTo[i - 1] \o seqs[i]
  IN  upTo[Len(seqs)]

(* The elements of a sequence that are in a set, in their order.           *)
Select(seq, S) ==
  Flatten([i \in DOMAIN seq |-> IF seq[i] \in S THEN <<seq[i]>> ELSE <<>>])

(* Every number of a sequence is above those before it.                    *)
Rising(ns) == \A j \in DOMAIN ns : \A i \in 1 .. j - 1 : ns[i] < ns[j]
=============================================================================

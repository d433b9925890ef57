----------------------------- MODULE MCSpinlock -----------------------------
(* Spinlock for TLC: a few threads, a reader count that they can just fill. *)
EXTENDS Spinlock, TLC
=============================================================================

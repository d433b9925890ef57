------------------------------ MODULE Spinlock ------------------------------
(***************************************************************************)
(* broker/spinlock.rs: the latch-and-spin read-write lock around the root  *)
(* of every shared trie.  One atomic u32 word holds the number of readers, *)
(* a latch bit and a lock bit.  Every atomic access of the code (load,     *)
(* compare_exchange, fetch_sub, all SeqCst) is one step of the model, so   *)
(* the threads interleave between them.                                    *)
(*                                                                         *)
(* The word is a record of its three fields.  MaxReaders stands for        *)
(* READERS_FLAG (2^30 - 1); Inc and Dec carry and borrow between the       *)
(* fields as the u32 addition and subtraction do.                          *)
(***************************************************************************)
EXTENDS Naturals, FiniteSets

CONSTANTS Threads,     \* threads that share one Spinlock
          MaxReaders   \* READERS_FLAG, the largest reader count of the word

(* A thread holds at most one guard, and the number of threads of the      *)
(* broker (the shards and the cluster) is far below READERS_FLAG.          *)
ASSUME ThreadsAssumption ==
  /\ IsFiniteSet(Threads)
  /\ MaxReaders \in Nat
  /\ Cardinality(Threads) <= MaxReaders

VARIABLES latchlock,  \* the AtomicU32
          pc,         \* where each thread is in read(), write() or a guard
          old         \* the local `old` of each thread's call

vars == <<latchlock, pc, old>>

Words == [readers : 0 .. MaxReaders, latch : BOOLEAN, lock : BOOLEAN]

Zero == [readers |-> 0, latch |-> FALSE, lock |-> FALSE]

(* old + 1 on the u32: a full reader count carries into the latch bit.     *)
Inc(w) ==
  IF w.readers < MaxReaders
    THEN [w EXCEPT !.readers = @ + 1]
    ELSE [readers |-> 0, latch |-> ~w.latch, lock |-> (w.lock # w.latch)]

(* fetch_sub(1) on the u32: a zero reader count borrows from the flags.    *)
Dec(w) ==
  IF w.readers > 0
    THEN [w EXCEPT !.readers = @ - 1]
    ELSE [readers |-> MaxReaders, latch |-> ~w.latch, lock |-> (w.lock = w.latch)]

(* A thread's position: idle; in the loop of read(); holding a ReadGuard;  *)
(* in the two loops of write(); holding a WriteGuard; in its drop; or      *)
(* stopped by one of the four panics.                                      *)
Positions ==
  { "idle", "r_load", "r_cas", "reading",
    "w_load", "w_cas", "l_load", "l_cas", "writing", "d_cas", "panicked" }

Init ==
  /\ latchlock = Zero
  /\ pc = [t \in Threads |-> "idle"]
  /\ old = [t \in Threads |-> Zero]

Goto(t, from, to) ==
  /\ pc[t] = from
  /\ pc' = [pc EXCEPT ![t] = to]

-----------------------------------------------------------------------------
(* read() *)

CallRead(t) ==
  /\ Goto(t, "idle", "r_load")
  /\ UNCHANGED <<latchlock, old>>

(* A latch that does not keep readers out.                                 *)
ReadLoadPastLatch(t) ==
  /\ ~latchlock.lock
  /\ old' = [old EXCEPT ![t] = latchlock]
  /\ Goto(t, "r_load", "r_cas")
  /\ UNCHANGED latchlock

ReadLoad(t) ==
  /\ ~latchlock.latch /\ ~latchlock.lock
  /\ old' = [old EXCEPT ![t] = latchlock]
  /\ Goto(t, "r_load", "r_cas")
  /\ UNCHANGED latchlock

(* A store where the code has a compare_exchange.                          *)
ReadStore(t) ==
  /\ latchlock' = Inc(old[t])
  /\ Goto(t, "r_cas", "reading")
  /\ UNCHANGED old

ReadCas(t) ==
  /\ IF latchlock = old[t]
       THEN /\ latchlock' = Inc(old[t])
            /\ Goto(t, "r_cas", "reading")
       ELSE /\ Goto(t, "r_cas", "r_load")
            /\ UNCHANGED latchlock
  /\ UNCHANGED old

(* A ReadGuard that is forgotten instead of dropped.                       *)
ReadForget(t) ==
  /\ Goto(t, "reading", "idle")
  /\ UNCHANGED <<latchlock, old>>

(* Drop for ReadGuard. *)
ReadDrop(t) ==
  /\ latchlock' = Dec(latchlock)
  /\ Goto(t, "reading", "idle")
  /\ UNCHANGED old

-----------------------------------------------------------------------------
(* write() *)

CallWrite(t) ==
  /\ Goto(t, "idle", "w_load")
  /\ UNCHANGED <<latchlock, old>>

(* A set latch keeps the thread in the loop; a lock without a latch is the *)
(* first panic.                                                            *)
LatchLoad(t) ==
  /\ ~latchlock.latch
  /\ old' = [old EXCEPT ![t] = latchlock]
  /\ Goto(t, "w_load", IF latchlock.lock THEN "panicked" ELSE "w_cas")
  /\ UNCHANGED latchlock

LatchCas(t) ==
  /\ IF latchlock = old[t]
       THEN /\ latchlock' = [old[t] EXCEPT !.latch = TRUE]
            /\ Goto(t, "w_cas", "l_load")
       ELSE /\ Goto(t, "w_cas", "w_load")
            /\ UNCHANGED latchlock
  /\ UNCHANGED old

(* A writer that does not wait for the readers.                            *)
LockLoadWithReaders(t) ==
  /\ old' = [old EXCEPT ![t] = latchlock]
  /\ Goto(t, "l_load", "l_cas")
  /\ UNCHANGED latchlock

LockLoad(t) ==
  /\ latchlock.readers = 0
  /\ old' = [old EXCEPT ![t] = latchlock]
  /\ Goto(t, "l_load", "l_cas")
  /\ UNCHANGED latchlock

LockCas(t) ==
  /\ IF latchlock = old[t]
       THEN /\ latchlock' = [old[t] EXCEPT !.lock = TRUE]
            /\ Goto(t, "l_cas", "writing")
       ELSE /\ Goto(t, "l_cas", "panicked")
            /\ UNCHANGED latchlock
  /\ UNCHANGED old

(* Drop for WriteGuard: a load, then an exchange for zero. *)
WriteDropLoad(t) ==
  /\ old' = [old EXCEPT ![t] = latchlock]
  /\ Goto(t, "writing", IF latchlock.readers > 0 THEN "panicked" ELSE "d_cas")
  /\ UNCHANGED latchlock

(* A drop that clears the lock bit and leaves the latch.                   *)
WriteDropLockOnly(t) ==
  /\ IF latchlock = old[t]
       THEN /\ latchlock' = [latchlock EXCEPT !.lock = FALSE]
            /\ Goto(t, "d_cas", "idle")
       ELSE /\ Goto(t, "d_cas", "panicked")
            /\ UNCHANGED latchlock
  /\ UNCHANGED old

WriteDropCas(t) ==
  /\ IF latchlock = old[t]
       THEN /\ latchlock' = Zero
            /\ Goto(t, "d_cas", "idle")
       ELSE /\ Goto(t, "d_cas", "panicked")
            /\ UNCHANGED latchlock
  /\ UNCHANGED old

-----------------------------------------------------------------------------

(* The steps a thread takes inside a call or with a guard in hand; the     *)
(* calls themselves are the users' choice.                                 *)
Step(t) ==
  \/ ReadLoad(t) \/ ReadCas(t) \/ ReadDrop(t)
  \/ LatchLoad(t) \/ LatchCas(t) \/ LockLoad(t) \/ LockCas(t)
  \/ WriteDropLoad(t) \/ WriteDropCas(t)

Next ==
  \E t \in Threads : CallRead(t) \/ CallWrite(t) \/ Step(t)

Spec == Init /\ [][Next]_vars

(* A running thread is scheduled, and guards are temporaries of a single   *)
(* statement in broker/ttrie.rs, so a holder always goes on to drop it.    *)
FairSpec == Spec /\ \A t \in Threads : WF_vars(Step(t))

-----------------------------------------------------------------------------
(* Properties *)

Reading == {t \in Threads : pc[t] = "reading"}
Writing == {t \in Threads : pc[t] \in {"writing", "d_cas"}}
Latched == {t \in Threads : pc[t] \in {"l_load", "l_cas", "writing", "d_cas"}}

TypeOK ==
  /\ latchlock \in Words
  /\ pc \in [Threads -> Positions]
  /\ old \in [Threads -> Words]

(* While a WriteGuard hands out &mut value no other thread holds a guard   *)
(* of either kind, so the unsafe cast of write() never aliases.            *)
Exclusion ==
  \A t \in Writing : Writing = {t} /\ Reading = {}

(* None of the four "call the programmer" panics of spinlock.rs can fire.  *)
NoPanic == \A t \in Threads : pc[t] # "panicked"

(* The word counts exactly the live ReadGuards, across every failed        *)
(* exchange and every latch taken while readers are inside.                *)
CountsReaders == latchlock.readers = Cardinality(Reading)

(* The lock is the door of its module comment: rules (3) to (7) hold for   *)
(* every interleaving of the atomic accesses.                              *)
Door == INSTANCE RWDoor WITH inside <- Reading, latched <- Latched, locked <- Writing
ImplementsDoor == Door!Spec

(* A writer that has latched the door gets in: the latch keeps new readers *)
(* out and those inside leave.                                             *)
LatchedWriterEnters ==
  \A t \in Threads : pc[t] = "l_load" ~> pc[t] = "writing"

(* Spinning threads never wait for one another in a circle: while calls    *)
(* are pending, some call returns a guard.                                 *)
SomeCallReturns ==
  (\E t \in Threads : pc[t] \in {"r_load", "r_cas", "w_load", "w_cas", "l_load"})
    ~> (Reading # {} \/ Writing # {})

(* The inductive strengthening used by the proofs: who owns which bit, and *)
(* what a thread still knows of the word it loaded.                        *)
Bits ==
  /\ latchlock.latch <=> Latched # {}
  /\ latchlock.lock <=> Writing # {}
  /\ \A t, u \in Latched : t = u

Loaded ==
  \A t \in Threads :
    /\ pc[t] \in {"r_cas", "w_cas"} => ~old[t].latch /\ ~old[t].lock
    /\ pc[t] \in {"l_cas", "writing", "d_cas"} => latchlock.readers = 0
    /\ pc[t] \in {"l_cas", "d_cas"} => old[t] = latchlock

IInv == TypeOK /\ NoPanic /\ CountsReaders /\ Bits /\ Loaded
=============================================================================

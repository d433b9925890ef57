--------------------------- MODULE SpinlockProofs ---------------------------
(***************************************************************************)
(* Proofs about Spinlock, for every finite set of threads that the reader  *)
(* count of the word can hold.                                             *)
(***************************************************************************)
EXTENDS Spinlock, FiniteSetTheorems, TLAPS

(* Every set of threads is finite and its size fits the reader count.      *)
LEMMA ThreadSets ==
  ASSUME NEW S \in SUBSET Threads
  PROVE  /\ IsFiniteSet(S)
         /\ Cardinality(S) \in Nat
         /\ Cardinality(S) <= MaxReaders
<1>1. IsFiniteSet(S) /\ Cardinality(S) <= Cardinality(Threads)
  BY ThreadsAssumption, FS_Subset
<1>2. Cardinality(S) \in Nat /\ Cardinality(Threads) \in Nat
  BY <1>1, ThreadsAssumption, FS_CardinalityType
<1> QED  BY <1>1, <1>2, ThreadsAssumption

(* A thread that enters or leaves the readers changes their number by one. *)
LEMMA ReadersChange ==
  ASSUME NEW S \in SUBSET Threads, NEW t \in Threads
  PROVE  /\ t \notin S => Cardinality(S \cup {t}) = Cardinality(S) + 1
         /\ t \notin S => Cardinality(S) < MaxReaders
         /\ t \in S => Cardinality(S \ {t}) = Cardinality(S) - 1
         /\ t \in S => Cardinality(S) > 0
<1>1. IsFiniteSet(S) /\ Cardinality(S) \in Nat  BY ThreadSets
<1>2. t \notin S => Cardinality(S \cup {t}) = Cardinality(S) + 1
  BY <1>1, FS_AddElement
<1>3. t \notin S => Cardinality(S) < MaxReaders
  <2>1. Cardinality(S \cup {t}) <= MaxReaders  BY ThreadSets
  <2> QED  BY <2>1, <1>1, <1>2, ThreadsAssumption
<1>4. t \in S => Cardinality(S \ {t}) = Cardinality(S) - 1
  BY <1>1, FS_RemoveElement
<1>5. t \in S => Cardinality(S) > 0
  BY <1>1, FS_EmptySet
<1> QED  BY <1>2, <1>3, <1>4, <1>5

LEMMA Initially == Init => IInv
<1> SUFFICES ASSUME Init PROVE IInv  OBVIOUS
<1>1. Reading = {} /\ Writing = {} /\ Latched = {}
  BY DEF Init, Reading, Writing, Latched
<1>2. CountsReaders  BY <1>1, FS_EmptySet DEF Init, Zero, CountsReaders
<1>3. TypeOK  BY ThreadsAssumption DEF Init, TypeOK, Words, Zero, Positions
<1>4. NoPanic /\ Loaded  BY DEF Init, NoPanic, Loaded
<1>5. Bits  BY <1>1 DEF Init, Zero, Bits
<1> QED  BY <1>2, <1>3, <1>4, <1>5 DEF IInv

(* How a thread's move changes the three sets of guard holders.            *)
LEMMA Moves ==
  ASSUME TypeOK, NEW t \in Threads, NEW from, NEW to, Goto(t, from, to)
  PROVE  /\ pc' = [pc EXCEPT ![t] = to]
         /\ Reading' = IF to = "reading" THEN Reading \cup {t} ELSE Reading \ {t}
         /\ Writing' = IF to \in {"writing", "d_cas"} THEN Writing \cup {t} ELSE Writing \ {t}
         /\ Latched' = IF to \in {"l_load", "l_cas", "writing", "d_cas"}
                         THEN Latched \cup {t} ELSE Latched \ {t}
BY DEF TypeOK, Goto, Reading, Writing, Latched

(* Every step of a thread, and every call, preserves the invariant.        *)
LEMMA Inductive == IInv /\ [Next]_vars => IInv'
<1> SUFFICES ASSUME IInv, [Next]_vars PROVE IInv'
  OBVIOUS
<1> USE DEF IInv
<1>1. CASE UNCHANGED vars
  BY <1>1 DEF vars, TypeOK, NoPanic, CountsReaders, Bits, Loaded, Reading, Writing, Latched
<1>2. ASSUME NEW t \in Threads, CallRead(t) \/ CallWrite(t)
      PROVE  IInv'
  <2>1. PICK to \in {"r_load", "w_load"} : Goto(t, "idle", to)
    BY <1>2 DEF CallRead, CallWrite
  <2>2. latchlock' = latchlock /\ old' = old
    BY <1>2 DEF CallRead, CallWrite
  <2>3. Reading' = Reading /\ Writing' = Writing /\ Latched' = Latched
    BY <2>1, Moves DEF Goto, Reading, Writing, Latched
  <2>4. TypeOK' /\ NoPanic'
    BY <2>1, <2>2, <2>3 DEF Goto, TypeOK, Positions, NoPanic
  <2>5. CountsReaders' /\ Bits'
    BY <2>1, <2>2, <2>3 DEF CountsReaders, Bits
  <2>6. Loaded'
    BY <2>1, <2>2, <2>3 DEF Goto, TypeOK, Loaded
  <2> QED  BY <2>4, <2>5, <2>6
<1>3. ASSUME NEW t \in Threads, ReadLoad(t)
      PROVE  IInv'
  <2>1. Goto(t, "r_load", "r_cas") /\ latchlock' = latchlock
    BY <1>3 DEF ReadLoad
  <2>2. Reading' = Reading /\ Writing' = Writing /\ Latched' = Latched
    BY <2>1, Moves DEF Goto, Reading, Writing, Latched
  <2>3. TypeOK' /\ NoPanic'
    BY <1>3, <2>1, <2>2 DEF ReadLoad, Goto, TypeOK, Positions, NoPanic
  <2>4. CountsReaders' /\ Bits'
    BY <1>3, <2>1, <2>2 DEF CountsReaders, Bits
  <2>5. Loaded'
    BY <1>3, <2>1, <2>2 DEF ReadLoad, Goto, TypeOK, Loaded
  <2> QED  BY <2>3, <2>4, <2>5
<1>4. ASSUME NEW t \in Threads, ReadCas(t)
      PROVE  IInv'
  <2>1. CASE latchlock # old[t]
    <3>1. Goto(t, "r_cas", "r_load") /\ latchlock' = latchlock /\ old' = old
      BY <1>4, <2>1 DEF ReadCas
    <3>2. Reading' = Reading /\ Writing' = Writing /\ Latched' = Latched
      BY <3>1, Moves DEF Goto, Reading, Writing, Latched
    <3>3. TypeOK' /\ NoPanic'
      BY <3>1, <3>2 DEF Goto, TypeOK, Positions, NoPanic
    <3>4. CountsReaders' /\ Bits'
      BY <3>1, <3>2 DEF CountsReaders, Bits
    <3>5. Loaded'
      BY <3>1, <3>2 DEF Goto, TypeOK, Loaded
    <3> QED  BY <3>3, <3>4, <3>5
  <2>2. CASE latchlock = old[t]
    <3>1. Goto(t, "r_cas", "reading") /\ latchlock' = Inc(latchlock) /\ old' = old
      BY <1>4, <2>2 DEF ReadCas
    <3>2. t \notin Reading /\ ~latchlock.latch /\ ~latchlock.lock
      BY <2>2, <3>1 DEF Goto, Reading, Loaded
    <3>3. Reading' = Reading \cup {t} /\ Writing' = Writing /\ Latched' = Latched
      BY <3>1, Moves DEF Goto, Reading, Writing, Latched
    <3>4. latchlock.readers < MaxReaders
      BY <3>2, ReadersChange DEF CountsReaders, Reading
    <3>5. latchlock' = [latchlock EXCEPT !.readers = @ + 1]
      BY <3>1, <3>4 DEF Inc
    <3>6. CountsReaders'
      BY <3>2, <3>3, <3>5, ReadersChange DEF CountsReaders, Reading, TypeOK, Words
    <3>7. TypeOK'
      BY <3>1, <3>4, <3>5, ThreadsAssumption DEF TypeOK, Goto, Positions, Words
    <3>8. Bits'  BY <3>3, <3>5 DEF Bits, TypeOK, Words
    <3>9. Latched = {}  BY <3>2 DEF Bits
    <3>10. NoPanic' /\ Loaded'
      BY <3>1, <3>9 DEF NoPanic, Loaded, Goto, TypeOK, Latched
    <3> QED  BY <3>6, <3>7, <3>8, <3>10
  <2> QED  BY <2>1, <2>2
<1>5. ASSUME NEW t \in Threads, ReadDrop(t)
      PROVE  IInv'
  <2>1. Goto(t, "reading", "idle") /\ latchlock' = Dec(latchlock) /\ old' = old
    BY <1>5 DEF ReadDrop
  <2>2. t \in Reading /\ t \notin Writing /\ t \notin Latched
    BY <2>1 DEF Goto, Reading, Writing, Latched
  <2>3. Reading' = Reading \ {t} /\ Writing' = Writing /\ Latched' = Latched
    BY <2>1, <2>2, Moves
  <2>4. latchlock.readers > 0
    BY <2>2, ReadersChange DEF CountsReaders, Reading
  <2>5. latchlock' = [latchlock EXCEPT !.readers = @ - 1]
    BY <2>1, <2>4 DEF Dec
  <2>6. CountsReaders'
    <3>1. Cardinality(Reading \ {t}) = Cardinality(Reading) - 1
      BY <2>2, ReadersChange DEF Reading
    <3> QED  BY <2>3, <2>5, <3>1 DEF CountsReaders, TypeOK, Words
  <2>7. TypeOK'
    BY <2>1, <2>4, <2>5, ThreadsAssumption DEF TypeOK, Goto, Positions, Words
  <2>8. Bits'  BY <2>3, <2>5 DEF Bits, TypeOK, Words
  <2>9. NoPanic'  BY <2>1 DEF NoPanic, Goto, TypeOK
  <2>10. Loaded'
    BY <2>1, <2>4 DEF Loaded, Goto, TypeOK, Words
  <2> QED  BY <2>6, <2>7, <2>8, <2>9, <2>10
<1>6. ASSUME NEW t \in Threads, LatchLoad(t)
      PROVE  IInv'
  <2>1. ~latchlock.latch /\ ~latchlock.lock
    BY <1>6 DEF LatchLoad, Bits, Latched, Writing
  <2>2. Goto(t, "w_load", "w_cas") /\ latchlock' = latchlock
    BY <1>6, <2>1 DEF LatchLoad
  <2>3. Reading' = Reading /\ Writing' = Writing /\ Latched' = Latched
    BY <2>2, Moves DEF Goto, Reading, Writing, Latched
  <2>4. TypeOK' /\ NoPanic'
    BY <1>6, <2>1, <2>2, <2>3 DEF LatchLoad, Goto, TypeOK, Positions, NoPanic
  <2>5. CountsReaders' /\ Bits'
    BY <1>6, <2>1, <2>2, <2>3 DEF CountsReaders, Bits
  <2>6. Loaded'
    BY <1>6, <2>1, <2>2, <2>3 DEF LatchLoad, Goto, TypeOK, Loaded
  <2> QED  BY <2>4, <2>5, <2>6
<1>7. ASSUME NEW t \in Threads, LatchCas(t)
      PROVE  IInv'
  <2>1. CASE latchlock # old[t]
    <3>1. Goto(t, "w_cas", "w_load") /\ latchlock' = latchlock /\ old' = old
      BY <1>7, <2>1 DEF LatchCas
    <3>2. Reading' = Reading /\ Writing' = Writing /\ Latched' = Latched
      BY <3>1, Moves DEF Goto, Reading, Writing, Latched
    <3>3. TypeOK' /\ NoPanic'
      BY <3>1, <3>2 DEF Goto, TypeOK, Positions, NoPanic
    <3>4. CountsReaders' /\ Bits'
      BY <3>1, <3>2 DEF CountsReaders, Bits
    <3>5. Loaded'
      BY <3>1, <3>2 DEF Goto, TypeOK, Loaded
    <3> QED  BY <3>3, <3>4, <3>5
  <2>2. CASE latchlock = old[t]
    <3>1. /\ Goto(t, "w_cas", "l_load") /\ old' = old
          /\ latchlock' = [latchlock EXCEPT !.latch = TRUE]
      BY <1>7, <2>2 DEF LatchCas
    <3>2. Latched = {} /\ Writing = {} /\ ~latchlock.lock
      BY <2>2, <3>1 DEF Goto, Loaded, Bits
    <3>3. Reading' = Reading /\ Writing' = {} /\ Latched' = {t}
      <4>1. t \notin Reading  BY <3>1 DEF Goto, Reading
      <4> QED  BY <3>1, <3>2, <4>1, Moves
    <3>4. TypeOK' /\ NoPanic'
      BY <3>1 DEF TypeOK, Goto, Positions, Words, NoPanic
    <3>5. CountsReaders'  BY <3>1, <3>3 DEF CountsReaders, TypeOK, Words
    <3>6. Bits'  BY <3>1, <3>2, <3>3 DEF Bits, TypeOK, Words
    <3>7. Loaded'  BY <3>1, <3>2 DEF Loaded, Goto, TypeOK, Latched
    <3> QED  BY <3>4, <3>5, <3>6, <3>7
  <2> QED  BY <2>1, <2>2
<1>8. ASSUME NEW t \in Threads, LockLoad(t)
      PROVE  IInv'
  <2>1. Goto(t, "l_load", "l_cas") /\ latchlock' = latchlock /\ latchlock.readers = 0
    BY <1>8 DEF LockLoad
  <2>2. Reading' = Reading /\ Writing' = Writing /\ Latched' = Latched
    BY <2>1, Moves DEF Goto, Reading, Writing, Latched
  <2>3. TypeOK' /\ NoPanic'
    BY <1>8, <2>1, <2>2 DEF LockLoad, Goto, TypeOK, Positions, NoPanic
  <2>4. CountsReaders' /\ Bits'
    BY <1>8, <2>1, <2>2 DEF CountsReaders, Bits
  <2>5. Loaded'
    BY <1>8, <2>1, <2>2 DEF LockLoad, Goto, TypeOK, Loaded
  <2> QED  BY <2>3, <2>4, <2>5
<1>9. ASSUME NEW t \in Threads, LockCas(t)
      PROVE  IInv'
  <2>1. pc[t] = "l_cas" /\ latchlock = old[t] /\ latchlock.readers = 0 /\ t \in Latched
    BY <1>9 DEF LockCas, Goto, Loaded, Latched
  <2>2. /\ Goto(t, "l_cas", "writing") /\ old' = old
        /\ latchlock' = [latchlock EXCEPT !.lock = TRUE]
    BY <1>9, <2>1 DEF LockCas
  <2>3. Latched = {t}  BY <2>1 DEF Bits
  <2>4. Reading' = Reading /\ Latched' = {t} /\ Writing' = {t}
    BY <2>2, <2>3, Moves DEF Goto, Reading, Latched, Writing
  <2>5. TypeOK' /\ NoPanic'
    BY <2>2 DEF TypeOK, Goto, Positions, Words, NoPanic
  <2>6. CountsReaders'  BY <2>2, <2>4 DEF CountsReaders, TypeOK, Words
  <2>7. Bits'  BY <2>2, <2>3, <2>4 DEF Bits, TypeOK, Words
  <2>8. Loaded'  BY <2>1, <2>2, <2>3 DEF Loaded, Goto, TypeOK, Latched, Words
  <2> QED  BY <2>5, <2>6, <2>7, <2>8
<1>10. ASSUME NEW t \in Threads, WriteDropLoad(t)
       PROVE  IInv'
  <2>1. latchlock.readers = 0
    BY <1>10 DEF WriteDropLoad, Goto, Loaded
  <2>2. Goto(t, "writing", "d_cas") /\ latchlock' = latchlock
    BY <1>10, <2>1 DEF WriteDropLoad
  <2>3. Reading' = Reading /\ Writing' = Writing /\ Latched' = Latched
    BY <2>2, Moves DEF Goto, Reading, Writing, Latched
  <2>4. TypeOK' /\ NoPanic'
    BY <1>10, <2>1, <2>2, <2>3 DEF WriteDropLoad, Goto, TypeOK, Positions, NoPanic
  <2>5. CountsReaders' /\ Bits'
    BY <1>10, <2>1, <2>2, <2>3 DEF CountsReaders, Bits
  <2>6. Loaded'
    BY <1>10, <2>1, <2>2, <2>3 DEF WriteDropLoad, Goto, TypeOK, Loaded
  <2> QED  BY <2>4, <2>5, <2>6
<1>11. ASSUME NEW t \in Threads, WriteDropCas(t)
       PROVE  IInv'
  <2>1. pc[t] = "d_cas" /\ latchlock = old[t] /\ latchlock.readers = 0
        /\ t \in Latched /\ t \in Writing
    BY <1>11 DEF WriteDropCas, Goto, Loaded, Latched, Writing
  <2>2. Goto(t, "d_cas", "idle") /\ old' = old /\ latchlock' = Zero
    BY <1>11, <2>1 DEF WriteDropCas
  <2>3. Latched = {t} /\ Writing = {t}  BY <2>1 DEF Bits, Latched, Writing
  <2>4. Reading' = Reading /\ Latched' = {} /\ Writing' = {}
    <3>1. t \notin Reading  BY <2>2 DEF Goto, Reading
    <3> QED  BY <2>2, <2>3, <3>1, Moves
  <2>5. TypeOK' /\ NoPanic'
    BY <2>2, ThreadsAssumption DEF TypeOK, Goto, Positions, Words, Zero, NoPanic
  <2>6. CountsReaders'  BY <2>1, <2>2, <2>4 DEF CountsReaders, Zero
  <2>7. Bits'  BY <2>2, <2>4 DEF Bits, Zero
  <2>8. Loaded'  BY <2>2, <2>3 DEF Loaded, Goto, TypeOK, Latched, Zero
  <2> QED  BY <2>5, <2>6, <2>7, <2>8
<1> QED
  BY <1>1, <1>2, <1>3, <1>4, <1>5, <1>6, <1>7, <1>8, <1>9, <1>10, <1>11 DEF Next, Step

(* What the invariant says of the guards: no two of them conflict.         *)
LEMMA Excludes == IInv => Exclusion
<1> SUFFICES ASSUME IInv, NEW t \in Writing PROVE Writing = {t} /\ Reading = {}
  BY DEF Exclusion
<1>1. t \in Threads /\ t \in Latched  BY DEF Writing, Latched
<1>2. Writing = {t}  BY <1>1 DEF IInv, Bits, Writing, Latched
<1>3. Cardinality(Reading) = 0
  BY <1>1 DEF IInv, Loaded, CountsReaders, Writing
<1>4. Reading = {}
  <2>1. Reading \in SUBSET Threads  BY DEF Reading
  <2> QED  BY <1>3, <2>1, ThreadSets, FS_EmptySet
<1> QED  BY <1>2, <1>4

(* The inductive invariant holds of every reachable state of spinlock.rs.  *)
THEOREM Invariance == Spec => []IInv
BY Initially, Inductive, PTL DEF Spec

(* No thread shares the value with a WriteGuard, for any number of threads *)
(* that READERS_FLAG can count.                                            *)
THEOREM MutualExclusion == Spec => []Exclusion
BY Invariance, Excludes, PTL

(* The panics of Spinlock::write and of the drop of WriteGuard are dead    *)
(* code.                                                                   *)
THEOREM PanicFree == Spec => []NoPanic
<1>1. IInv => NoPanic  BY DEF IInv
<1> QED  BY Invariance, <1>1, PTL

(* The reader count of the word is the number of ReadGuards, so the last   *)
(* one to be dropped leaves it at zero and a writer can get in.            *)
THEOREM ReadersCounted == Spec => []CountsReaders
<1>1. IInv => CountsReaders  BY DEF IInv
<1> QED  BY Invariance, <1>1, PTL

(* Every step of the code is a step of the door or leaves it as it is: the *)
(* exchanges that succeed, and fetch_sub, are the moves through the door.  *)
LEMMA StepRefines == IInv /\ [Next]_vars => [Door!Next]_(Door!doorVars)
<1> SUFFICES ASSUME IInv, [Next]_vars PROVE [Door!Next]_(Door!doorVars)
  OBVIOUS
<1> USE DEF IInv
<1>1. CASE UNCHANGED vars
  BY <1>1 DEF vars, Door!doorVars, Reading, Writing, Latched
<1>2. ASSUME NEW t \in Threads, NEW from, NEW to, Goto(t, from, to),
             from \in {"idle", "r_load", "r_cas", "w_load", "w_cas"},
             to \in {"idle", "r_load", "r_cas", "w_load", "w_cas", "panicked"}
      PROVE  UNCHANGED Door!doorVars
  <2>1. t \notin Reading /\ t \notin Writing /\ t \notin Latched
    BY <1>2 DEF Goto, Reading, Writing, Latched
  <2>2. to \notin {"reading", "l_load", "l_cas", "writing", "d_cas"}  BY <1>2
  <2>3. Reading' = Reading /\ Writing' = Writing /\ Latched' = Latched
    BY <1>2, <2>1, <2>2, Moves
  <2> QED  BY <2>3 DEF Door!doorVars
<1>3. ASSUME NEW t \in Threads,
             CallRead(t) \/ CallWrite(t) \/ ReadLoad(t) \/ LatchLoad(t)
      PROVE  UNCHANGED Door!doorVars
  BY <1>2, <1>3 DEF CallRead, CallWrite, ReadLoad, LatchLoad
<1>4. ASSUME NEW t \in Threads, ReadCas(t)
      PROVE  Door!EnterRead(t) \/ UNCHANGED Door!doorVars
  <2>1. CASE latchlock # old[t]
    BY <1>2, <1>4, <2>1 DEF ReadCas
  <2>2. CASE latchlock = old[t]
    <3>1. Goto(t, "r_cas", "reading")  BY <1>4, <2>2 DEF ReadCas
    <3>2. t \notin Reading /\ t \notin Writing /\ t \notin Latched /\ Latched = {}
      BY <2>2, <3>1 DEF Goto, Reading, Writing, Latched, Loaded, Bits
    <3>3. Reading' = Reading \cup {t} /\ Writing' = Writing /\ Latched' = Latched
      BY <3>1, <3>2, Moves
    <3> QED  BY <3>2, <3>3 DEF Door!EnterRead
  <2> QED  BY <2>1, <2>2
<1>5. ASSUME NEW t \in Threads, ReadDrop(t)
      PROVE  Door!LeaveRead(t)
  <2>1. Goto(t, "reading", "idle")  BY <1>5 DEF ReadDrop
  <2>2. t \in Reading /\ t \notin Writing /\ t \notin Latched
    BY <2>1 DEF Goto, Reading, Writing, Latched
  <2>3. Reading' = Reading \ {t} /\ Writing' = Writing /\ Latched' = Latched
    BY <2>1, <2>2, Moves
  <2> QED  BY <2>2, <2>3 DEF Door!LeaveRead
<1>6. ASSUME NEW t \in Threads, LatchCas(t)
      PROVE  Door!Latch(t) \/ UNCHANGED Door!doorVars
  <2>1. CASE latchlock # old[t]
    BY <1>2, <1>6, <2>1 DEF LatchCas
  <2>2. CASE latchlock = old[t]
    <3>1. Goto(t, "w_cas", "l_load")  BY <1>6, <2>2 DEF LatchCas
    <3>2. t \notin Reading /\ t \notin Writing /\ Latched = {}
      BY <2>2, <3>1 DEF Goto, Reading, Writing, Loaded, Bits
    <3>3. Reading' = Reading /\ Writing' = Writing /\ Latched' = {t}
      BY <3>1, <3>2, Moves
    <3> QED  BY <3>2, <3>3 DEF Door!Latch
  <2> QED  BY <2>1, <2>2
<1>7. ASSUME NEW t \in Threads, LockLoad(t) \/ WriteDropLoad(t)
      PROVE  UNCHANGED Door!doorVars
  <2>1. Goto(t, "l_load", "l_cas") \/ Goto(t, "writing", "d_cas")
    BY <1>7 DEF LockLoad, WriteDropLoad, Goto, Loaded
  <2>2. Reading' = Reading /\ Writing' = Writing /\ Latched' = Latched
    BY <2>1 DEF TypeOK, Goto, Reading, Writing, Latched
  <2> QED  BY <2>2 DEF Door!doorVars
<1>8. ASSUME NEW t \in Threads, LockCas(t)
      PROVE  Door!EnterWrite(t)
  <2>1. Goto(t, "l_cas", "writing") /\ latchlock.readers = 0
    BY <1>8 DEF LockCas, Goto, Loaded
  <2>2. t \in Latched /\ t \notin Writing /\ t \notin Reading
    BY <2>1 DEF Goto, Latched, Writing, Reading
  <2>3. Latched = {t} /\ Writing = {}
    BY <2>2 DEF Bits, Latched, Writing
  <2>4. Reading = {}
    <3>1. Reading \in SUBSET Threads  BY DEF Reading
    <3> QED  BY <2>1, <3>1, ThreadSets, FS_EmptySet DEF CountsReaders
  <2>5. Reading' = Reading /\ Latched' = Latched /\ Writing' = {t}
    BY <2>1, <2>2, <2>3, Moves
  <2> QED  BY <2>3, <2>4, <2>5 DEF Door!EnterWrite
<1>9. ASSUME NEW t \in Threads, WriteDropCas(t)
      PROVE  Door!LeaveWrite(t)
  <2>1. Goto(t, "d_cas", "idle")
    BY <1>9 DEF WriteDropCas, Goto, Loaded
  <2>2. t \in Latched /\ t \in Writing /\ t \notin Reading
    BY <2>1 DEF Goto, Latched, Writing, Reading
  <2>3. Latched = {t} /\ Writing = {t}
    BY <2>2 DEF Bits, Latched, Writing
  <2>4. Reading' = Reading /\ Latched' = {} /\ Writing' = {}
    BY <2>1, <2>2, <2>3, Moves
  <2> QED  BY <2>3, <2>4 DEF Door!LeaveWrite
<1> QED
  BY <1>1, <1>3, <1>4, <1>5, <1>6, <1>7, <1>8, <1>9 DEF Next, Step, Door!Next

(* The lock of spinlock.rs implements the door, for every set of threads.  *)
THEOREM Refinement == Spec => ImplementsDoor
<1>1. Init => Door!Init
  BY DEF Init, Door!Init, Reading, Writing, Latched
<1> QED  BY <1>1, Invariance, StepRefines, PTL DEF Spec, Door!Spec, ImplementsDoor
=============================================================================

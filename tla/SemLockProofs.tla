---------------------------- MODULE SemLockProofs ----------------------------
(***************************************************************************)
(* Proofs about the semaphore of SemLock, for every set of processes and   *)
(* both bounds: as long as no Lock is interrupted it is a mutex that its   *)
(* owner's death gives back.                                               *)
(***************************************************************************)
EXTENDS SemLock, FiniteSetTheorems, TLAPS

(* The kernel will undo nothing but what a process inside has taken.       *)
Idle == Inside = {} /\ semval = 0 /\ semadj = [p \in Procs |-> 0]

HeldBy(p) ==
  /\ Inside = {p} /\ semval = 1
  /\ semadj = [q \in Procs |-> IF q = p THEN -1 ELSE 0]

Clean == signals = 0 => Idle \/ \E p \in Procs : HeldBy(p)

SemInv == TypeOK /\ Clean

------------------------------------------------------------------------------
LEMMA InitSemInv == Init => SemInv
  BY SemLockAssumption DEF Init, SemInv, TypeOK, Clean, Idle, Inside

(* A process whose place changes is taken out of, or put into, Inside.     *)
LEMMA InsideMoved ==
  ASSUME TypeOK, NEW p \in Procs, NEW place, Move(p, place)
  PROVE  Inside' = IF place = "inside" THEN Inside \union {p} ELSE Inside \ {p}
  BY DEF TypeOK, Move, Inside

LEMMA TypeKept ==
  ASSUME TypeOK, NEW p \in Procs,
         Call(p) \/ Lock(p) \/ Interrupted(p) \/ UnLock(p) \/ Exit(p) \/ Start(p)
  PROVE  TypeOK'
<1> USE SemLockAssumption
<1>1. CASE Call(p) \/ Start(p)
  BY <1>1 DEF TypeOK, Call, Start, Move
<1>2. CASE Lock(p)
  BY <1>2 DEF TypeOK, Lock, SemOp, Move
<1>3. CASE Interrupted(p)
  BY <1>3 DEF TypeOK, Interrupted, Move
<1>4. CASE UnLock(p)
  BY <1>4 DEF TypeOK, UnLock, SemOp, Move
<1>5. CASE Exit(p)
  BY <1>5 DEF TypeOK, Exit, Move
<1> QED
  BY <1>1, <1>2, <1>3, <1>4, <1>5

(* What a step of a process does to the mutex while no Lock has been       *)
(* interrupted: it enters it, leaves it, or changes nothing of it.         *)
LEMMA StepOfMutex ==
  ASSUME SemInv, NEW p \in Procs, signals' = 0,
         Call(p) \/ Lock(p) \/ Interrupted(p) \/ UnLock(p) \/ Exit(p) \/ Start(p)
  PROVE  \/ Idle /\ HeldBy(p)'
         \/ HeldBy(p) /\ Idle'
         \/ Inside' = Inside /\ semval' = semval /\ semadj' = semadj
<1>1. /\ TypeOK /\ signals \in Nat
      /\ signals = 0 => Idle \/ \E q \in Procs : HeldBy(q)
  BY SemLockAssumption DEF SemInv, Clean, TypeOK
<1>2. CASE Call(p) \/ Start(p)
  <2>1. p \notin Inside
    BY <1>2 DEF Call, Start, Inside
  <2>2. Inside' = Inside \ {p}
    BY <1>1, <1>2, InsideMoved DEF Call, Start
  <2> QED
    BY <1>2, <2>1, <2>2 DEF Call, Start
<1>3. CASE Lock(p)
  <2>1. Idle
    BY <1>1, <1>3 DEF Lock, HeldBy
  <2>2. Inside' = {p}
    BY <1>1, <1>3, <2>1, InsideMoved DEF Lock, Idle
  <2>3. semval' = 1 /\ semadj' = [q \in Procs |-> IF q = p THEN -1 ELSE 0]
    BY <1>3, <2>1 DEF Lock, SemOp, Idle
  <2> QED
    BY <2>1, <2>2, <2>3 DEF HeldBy
<1>4. CASE Interrupted(p)
  BY <1>1, <1>4 DEF Interrupted
<1>5. CASE UnLock(p)
  <2>1. HeldBy(p)
    BY <1>1, <1>5 DEF UnLock, HeldBy, Idle, Inside
  <2>2. Inside' = {}
    BY <1>1, <1>5, <2>1, InsideMoved DEF UnLock, HeldBy
  <2>3. semval' = 0 /\ semadj' = [q \in Procs |-> 0]
    BY <1>5, <2>1 DEF UnLock, SemOp, HeldBy
  <2> QED
    BY <2>1, <2>2, <2>3 DEF Idle
<1>6. CASE Exit(p)
  <2>1. Inside' = Inside \ {p}
    BY <1>1, <1>6, InsideMoved DEF Exit
  <2>2. CASE HeldBy(p)
    <3>1. semval' = 0 /\ semadj' = [q \in Procs |-> 0]
      BY <1>6, <2>2 DEF Exit, HeldBy
    <3> QED
      BY <2>1, <2>2, <3>1 DEF HeldBy, Idle
  <2>3. CASE ~HeldBy(p)
    <3>1. p \notin Inside /\ semadj[p] = 0
      BY <1>1, <1>6, <2>3 DEF Exit, HeldBy, Idle
    <3>2. semval' = semval /\ semadj' = semadj
      BY <1>1, <1>6, <3>1 DEF Exit, TypeOK
    <3> QED
      BY <2>1, <3>1, <3>2
  <2> QED
    BY <2>2, <2>3
<1> QED
  BY <1>2, <1>3, <1>4, <1>5, <1>6

LEMMA NextKeepsSemInv ==
  ASSUME SemInv, [Next]_semVars
  PROVE  SemInv'
<1>1. CASE UNCHANGED semVars
  BY <1>1 DEF SemInv, TypeOK, Clean, Idle, HeldBy, Inside, semVars
<1>2. CASE Next
  <2>1. PICK p \in Procs : Call(p) \/ Lock(p) \/ Interrupted(p) \/ UnLock(p)
                             \/ Exit(p) \/ Start(p)
    BY <1>2 DEF Next
  <2>2. TypeOK'
    BY <2>1, TypeKept DEF SemInv
  <2>3. ASSUME signals' = 0
        PROVE  Idle' \/ \E q \in Procs : HeldBy(q)'
    <3>1. signals = 0
      BY <2>1, <2>3, SemLockAssumption
      DEF SemInv, TypeOK, Call, Lock, Interrupted, UnLock, Exit, Start
    <3>2. \/ Idle /\ HeldBy(p)'
          \/ HeldBy(p) /\ Idle'
          \/ Inside' = Inside /\ semval' = semval /\ semadj' = semadj
      BY <2>1, <2>3, StepOfMutex
    <3> QED
      BY <3>1, <3>2 DEF SemInv, Clean, Idle, HeldBy
  <2> QED
    BY <2>2, <2>3 DEF SemInv, Clean
<1> QED
  BY <1>1, <1>2

THEOREM SemInvariant == Spec => []SemInv
<1>1. Init => SemInv
  BY InitSemInv
<1>2. SemInv /\ [Next]_semVars => SemInv'
  BY NextKeepsSemInv
<1> QED
  BY <1>1, <1>2, PTL DEF Spec

(* SEM_UNDO on both Lock and UnLock never leaves the semaphore taken with  *)
(* nobody inside, wherever processes end.                                  *)
THEOREM NeverLeftTaken == Spec => []HeldBySomeone
<1>1. SemInv => HeldBySomeone
  BY DEF SemInv, Clean, Idle, HeldBy, HeldBySomeone
<1> QED
  BY <1>1, SemInvariant, PTL

(* The value of the semaphore and what each process is about to do.        *)
THEOREM SemTypes == Spec => []TypeOK
<1>1. SemInv => TypeOK
  BY DEF SemInv
<1> QED
  BY <1>1, SemInvariant, PTL

(* Until a Lock is interrupted the semaphore implements the abstract lock: *)
(* a process enters it free and only its owner, or its owner's end, frees  *)
(* it.                                                                     *)
THEOREM ImplementsMutex == Spec => IsAMutex
<1>1. Init => M!MutexInit
  BY DEF Init, M!MutexInit, M!Free, Inside
<1>2. SemInv /\ [Next]_semVars
        => [signals' = 0 => [M!MutexNext]_Inside]_semVars
  <2> SUFFICES ASSUME SemInv, Next, signals' = 0
               PROVE  M!MutexNext \/ Inside' = Inside
    BY DEF semVars
  <2>1. PICK p \in Procs : Call(p) \/ Lock(p) \/ Interrupted(p) \/ UnLock(p)
                             \/ Exit(p) \/ Start(p)
    BY DEF Next
  <2>2. \/ Idle /\ HeldBy(p)'
        \/ HeldBy(p) /\ Idle'
        \/ Inside' = Inside
    BY <2>1, StepOfMutex
  <2> QED
    BY <2>2 DEF Idle, HeldBy, M!MutexNext, M!Enter, M!Leave, M!Free
<1> QED
  BY <1>1, <1>2, SemInvariant, PTL DEF Spec, IsAMutex
------------------------------------------------------------------------------
(* Interrupted Locks, failed UnLocks and exits may come in any order, so   *)
(* the semaphore, what the kernel keeps for each process and who is inside *)
(* can drift apart.  What bounds the drift is what each process can still  *)
(* bring back: an UnLock for being inside, or what the kernel undoes for   *)
(* it at its end, whichever is more.                                       *)

Owes(p, k) ==
  \/ at[p] = "inside" /\ k = 0
  \/ k < -semadj[p]

Owed == {t \in Procs \X Nat : Owes(t[1], t[2])}

(* Each owed unit is one the semaphore holds or one a signal let in.       *)
Covered == IsFiniteSet(Owed) /\ Cardinality(Owed) <= semval + signals

(* A set that is covered by a number stays covered when it loses elements, *)
(* when both gain one, and when it loses what the number loses.            *)
LEMMA FewerOwed ==
  ASSUME NEW old, IsFiniteSet(old), NEW new \in SUBSET old,
         NEW held \in Nat, NEW holds \in Nat,
         Cardinality(old) <= held, held <= holds
  PROVE  IsFiniteSet(new) /\ Cardinality(new) <= holds
<1>1. /\ IsFiniteSet(new) /\ Cardinality(new) <= Cardinality(old)
      /\ Cardinality(old) \in Nat /\ Cardinality(new) \in Nat
  BY FS_Subset, FS_CardinalityType
<1> QED
  BY <1>1

LEMMA OneMoreOwed ==
  ASSUME NEW old, IsFiniteSet(old), NEW t, NEW new \in SUBSET (old \union {t}),
         NEW held \in Nat, NEW holds \in Nat,
         Cardinality(old) <= held, holds = held + 1
  PROVE  IsFiniteSet(new) /\ Cardinality(new) <= holds
<1>1. Cardinality(old) \in Nat
  BY FS_CardinalityType
<1>2. /\ IsFiniteSet(old \union {t})
      /\ Cardinality(old \union {t}) <= Cardinality(old) + 1
  <2>1. /\ IsFiniteSet(old \union {t})
        /\ Cardinality(old \union {t})
             = IF t \in old THEN Cardinality(old) ELSE Cardinality(old) + 1
    BY FS_AddElement
  <2> QED
    BY <1>1, <2>1
<1>3. IsFiniteSet(new) /\ Cardinality(new) <= Cardinality(old \union {t})
  BY <1>2, FS_Subset
<1>4. Cardinality(old \union {t}) \in Nat /\ Cardinality(new) \in Nat
  BY <1>2, <1>3, FS_CardinalityType
<1> QED
  BY <1>1, <1>2, <1>3, <1>4

(* The units lo .. lo + n - 1 of a process.                                *)
Units(p, lo, n) == {p} \X (lo .. lo + n - 1)

LEMMA SomeOwedNoMore ==
  ASSUME NEW old, IsFiniteSet(old), NEW p, NEW lo \in Nat, NEW n \in Nat,
         Units(p, lo, n) \subseteq old, NEW new \in SUBSET (old \ Units(p, lo, n)),
         NEW held \in Nat, NEW holds \in Nat,
         Cardinality(old) <= held, held <= holds + n
  PROVE  IsFiniteSet(new) /\ Cardinality(new) <= holds
<1> DEFINE Gone == Units(p, lo, n)
<1>1. IsFiniteSet(Gone) /\ Cardinality(Gone) = n
  <2>1. IsFiniteSet({p}) /\ Cardinality({p}) = 1
    BY FS_Singleton
  <2>2. lo + n - 1 \in Int
    OBVIOUS
  <2>3. IsFiniteSet(lo .. lo + n - 1) /\ Cardinality(lo .. lo + n - 1) = n
    BY <2>2, FS_Interval
  <2>4. /\ IsFiniteSet(Gone)
        /\ Cardinality(Gone) = Cardinality({p}) * Cardinality(lo .. lo + n - 1)
    BY <2>1, <2>3, FS_Product DEF Units
  <2> QED
    BY <2>1, <2>3, <2>4
<1>2. IsFiniteSet(old \ Gone) /\ Cardinality(old \ Gone) = Cardinality(old) - n
  <2>1. old \cap Gone = Gone
    OBVIOUS
  <2> QED
    BY <1>1, <2>1, FS_Difference
<1>3. IsFiniteSet(new) /\ Cardinality(new) <= Cardinality(old \ Gone)
  BY <1>2, FS_Subset
<1>4. /\ Cardinality(old) \in Nat /\ Cardinality(new) \in Nat
      /\ Cardinality(old \ Gone) \in Nat
  BY <1>2, <1>3, FS_CardinalityType
<1> QED
  BY <1>2, <1>3, <1>4

(* Who does not step owes what it owed.                                    *)
LEMMA OthersOwe ==
  ASSUME TypeOK, TypeOK', NEW p \in Procs,
         \A q \in Procs \ {p} : at'[q] = at[q] /\ semadj'[q] = semadj[q]
  PROVE  \A q \in Procs \ {p}, k \in Nat : Owes(q, k)' <=> Owes(q, k)
  BY DEF Owes

LEMMA StepCovers ==
  ASSUME TypeOK, TypeOK', Covered, NEW p \in Procs,
         Call(p) \/ Lock(p) \/ Interrupted(p) \/ UnLock(p) \/ Exit(p) \/ Start(p)
  PROVE  Covered'
<1> USE SemLockAssumption
<1>1. \A q \in Procs \ {p} : at'[q] = at[q] /\ semadj'[q] = semadj[q]
  BY DEF TypeOK, Call, Lock, Interrupted, UnLock, Exit, Start, Move, SemOp
<1>2. \A q \in Procs \ {p}, k \in Nat : Owes(q, k)' <=> Owes(q, k)
  BY <1>1, OthersOwe
<1>3. /\ semval \in Nat /\ semval' \in Nat
      /\ signals \in Nat /\ signals' \in Nat
      /\ semadj[p] \in Int /\ semadj'[p] \in Int
  BY DEF TypeOK
<1> SUFFICES \E holds \in Nat : /\ holds = semval' + signals'
                                /\ IsFiniteSet(Owed')
                                /\ Cardinality(Owed') <= holds
  BY DEF Covered
<1>5. PICK held \in Nat : held = semval + signals
  BY <1>3
<1>4. semval' + signals' \in Nat
  <2>1. \A a, b \in Nat : a + b \in Nat
    OBVIOUS
  <2> QED
    BY <1>3, <2>1
<1>6. PICK holds \in Nat : holds = semval' + signals'
  BY <1>4
<1>7. IsFiniteSet(Owed) /\ Cardinality(Owed) <= held
  BY <1>5 DEF Covered
<1> SUFFICES IsFiniteSet(Owed') /\ Cardinality(Owed') <= holds
  BY <1>6
<1>8. CASE Call(p) \/ Start(p)
  <2>1. /\ at[p] # "inside" /\ at'[p] # "inside"
        /\ semadj' = semadj /\ semval' = semval /\ signals' = signals
    BY <1>8 DEF Call, Start, Move, TypeOK
  <2>2. \A k \in Nat : Owes(p, k)' => Owes(p, k)
    BY <2>1 DEF Owes
  <2>3. Owed' \subseteq Owed
    BY <1>2, <2>2 DEF Owed
  <2>4. held <= holds
    BY <1>3, <1>5, <1>6, <2>1
  <2> QED
    BY <1>7, <2>3, <2>4, FewerOwed
<1>9. CASE Lock(p)
  <2>1. /\ at[p] = "waiting" /\ at'[p] = "inside"
        /\ semadj'[p] = semadj[p] - 1 /\ semval' = semval + 1
        /\ signals' = signals
    BY <1>9 DEF Lock, SemOp, Move, TypeOK
  <2>2. PICK m \in Nat : m = IF semadj[p] < 0 THEN -semadj[p] ELSE 0
    BY <1>3
  <2>3. \A k \in Nat : Owes(p, k)' => Owes(p, k) \/ k = m
    BY <1>3, <2>1, <2>2 DEF Owes
  <2>4. Owed' \subseteq Owed \union {<<p, m>>}
    BY <1>2, <2>3 DEF Owed
  <2>5. holds = held + 1
    BY <1>3, <1>5, <1>6, <2>1
  <2> QED
    BY <1>7, <2>4, <2>5, OneMoreOwed
<1>10. CASE Interrupted(p)
  <2>1. /\ semadj' = semadj /\ semval' = semval /\ signals' = signals + 1
    BY <1>10 DEF Interrupted
  <2>2. \A k \in Nat : Owes(p, k)' => Owes(p, k) \/ k = 0
    BY <2>1 DEF Owes
  <2>3. Owed' \subseteq Owed \union {<<p, 0>>}
    BY <1>2, <2>2 DEF Owed
  <2>4. holds = held + 1
    BY <1>3, <1>5, <1>6, <2>1
  <2> QED
    BY <1>7, <2>3, <2>4, OneMoreOwed
<1>11. CASE UnLock(p)
  <2>1. /\ at[p] = "inside" /\ at'[p] = "outside" /\ signals' = signals
    BY <1>11 DEF UnLock, Move, TypeOK
  <2>2. CASE semval > 0
    <3>1. semval' = semval - 1 /\ semadj'[p] = semadj[p] + 1
      BY <1>3, <1>11, <2>2 DEF UnLock, SemOp, TypeOK
    <3>2. PICK m \in Nat : m = IF semadj[p] < 0 THEN -semadj[p] - 1 ELSE 0
      BY <1>3
    <3>3. Owes(p, m) /\ ~Owes(p, m)'
      BY <1>3, <2>1, <3>1, <3>2 DEF Owes
    <3>4. \A k \in Nat : Owes(p, k)' => Owes(p, k)
      BY <1>3, <2>1, <3>1 DEF Owes
    <3>5. Units(p, m, 1) = {p} \X {m}
      <4>1. m .. m + 1 - 1 = {m}
        OBVIOUS
      <4> QED
        BY <4>1 DEF Units
    <3>6. /\ Units(p, m, 1) \subseteq Owed
          /\ Owed' \subseteq Owed \ Units(p, m, 1)
      <4>1. {p} \X {m} \subseteq Owed
        BY <3>3 DEF Owed
      <4>2. \A t \in Owed' : t \in Owed /\ t \notin {p} \X {m}
        BY <1>2, <3>3, <3>4 DEF Owed
      <4> QED
        BY <3>5, <4>1, <4>2
    <3>7. held <= holds + 1
      BY <1>3, <1>5, <1>6, <2>1, <3>1
    <3> QED
      BY <1>7, <3>6, <3>7, SomeOwedNoMore
  <2>3. CASE ~(semval > 0)
    <3>1. semval' = semval /\ semadj' = semadj
      BY <1>11, <2>3 DEF UnLock
    <3>2. \A k \in Nat : Owes(p, k)' => Owes(p, k)
      BY <2>1, <3>1 DEF Owes
    <3>3. Owed' \subseteq Owed
      BY <1>2, <3>2 DEF Owed
    <3>4. held <= holds
      BY <1>3, <1>5, <1>6, <2>1, <3>1
    <3> QED
      BY <1>7, <3>3, <3>4, FewerOwed
  <2> QED
    BY <2>2, <2>3
<1>12. CASE Exit(p)
  <2>1. /\ at'[p] = "ended" /\ signals' = signals /\ semadj'[p] = 0
        /\ semval' >= semval + semadj[p]
    BY <1>3, <1>12 DEF Exit, Move, TypeOK
  <2>2. \A k \in Nat : ~Owes(p, k)'
    BY <2>1 DEF Owes
  <2>3. Owed' \subseteq Owed
    BY <1>2, <2>2 DEF Owed
  <2>4. CASE semadj[p] >= 0
    <3>1. held <= holds
      BY <1>3, <1>5, <1>6, <2>1, <2>4
    <3> QED
      BY <1>7, <2>3, <3>1, FewerOwed
  <2>5. CASE semadj[p] < 0
    <3>1. PICK n \in Nat : n = -semadj[p]
      BY <1>3, <2>5
    <3>2. \A k \in 0 .. 0 + n - 1 : k \in Nat /\ Owes(p, k)
      BY <1>3, <3>1 DEF Owes
    <3>3. /\ Units(p, 0, n) \subseteq Owed
          /\ Owed' \subseteq Owed \ Units(p, 0, n)
      <4>1. Units(p, 0, n) \subseteq Owed
        BY <3>2 DEF Owed, Units
      <4>2. \A t \in Owed' : t[1] # p
        BY <2>2 DEF Owed
      <4> QED
        BY <2>3, <4>1, <4>2 DEF Units
    <3>4. held <= holds + n
      BY <1>3, <1>5, <1>6, <2>1, <3>1
    <3> QED
      BY <1>7, <3>3, <3>4, SomeOwedNoMore
  <2> QED
    BY <1>3, <2>4, <2>5
<1> QED
  BY <1>8, <1>9, <1>10, <1>11, <1>12

(* Each process inside owes at least its own UnLock.                       *)
LEMMA InsideOwes ==
  ASSUME Covered
  PROVE  IsFiniteSet(Inside) /\ Cardinality(Inside) <= Cardinality(Owed)
<1> DEFINE f == [p \in Inside |-> <<p, 0>>]
<1>1. \A p \in Inside : <<p, 0>> \in Owed
  BY DEF Inside, Owed, Owes
<1>2. f \in Injection(Inside, Owed)
  BY <1>1 DEF Injection, IsInjective
<1> QED
  BY <1>2, FS_Injection DEF Covered

OverlapInv == SemInv /\ Covered /\ OverlapsCounted

LEMMA NextKeepsOverlapInv ==
  ASSUME OverlapInv, [Next]_semVars
  PROVE  OverlapInv'
<1> USE SemLockAssumption
<1>1. SemInv' /\ TypeOK /\ TypeOK'
  BY NextKeepsSemInv DEF OverlapInv, SemInv
<1>2. CASE UNCHANGED semVars
  BY <1>1, <1>2
  DEF OverlapInv, Covered, Owed, Owes, OverlapsCounted, Inside, semVars
<1>3. CASE Next
  <2>1. PICK p \in Procs : Call(p) \/ Lock(p) \/ Interrupted(p) \/ UnLock(p)
                             \/ Exit(p) \/ Start(p)
    BY <1>3 DEF Next
  <2>2. Covered'
    BY <1>1, <2>1, StepCovers DEF OverlapInv
  <2>3. /\ IsFiniteSet(Inside) /\ Cardinality(Inside) \in Nat
        /\ Cardinality(Inside) <= semval + signals
    <3>1. /\ IsFiniteSet(Inside) /\ Cardinality(Inside) <= Cardinality(Owed)
          /\ Cardinality(Inside) \in Nat /\ Cardinality(Owed) \in Nat
      BY InsideOwes, FS_CardinalityType DEF OverlapInv, Covered
    <3> QED
      BY <1>1, <3>1 DEF OverlapInv, Covered, TypeOK
  <2>4. /\ signals \in Nat /\ signals' \in Nat
        /\ Cardinality(Inside) <= 1 + signals
    BY <1>1 DEF OverlapInv, OverlapsCounted, TypeOK
  <2>5. CASE Lock(p)
    <3>1. Inside' = Inside \union {p} /\ semval = 0 /\ signals' = signals
      BY <1>1, <2>5, InsideMoved DEF Lock
    <3>2. Cardinality(Inside') <= Cardinality(Inside) + 1
      BY <2>3, <3>1, FS_AddElement
    <3>3. Cardinality(Inside') \in Nat
      BY <2>3, <3>1, FS_AddElement, FS_CardinalityType
    <3>4. Cardinality(Inside') <= 1 + signals'
      BY <2>3, <2>4, <3>1, <3>2, <3>3
    <3> QED
      BY <1>1, <2>2, <3>4 DEF OverlapInv, OverlapsCounted
  <2>6. CASE Interrupted(p)
    <3>1. Inside' = Inside \union {p} /\ signals' = signals + 1
      BY <1>1, <2>6, InsideMoved DEF Interrupted
    <3>2. Cardinality(Inside') <= Cardinality(Inside) + 1
      BY <2>3, <3>1, FS_AddElement
    <3>3. Cardinality(Inside') \in Nat
      BY <2>3, <3>1, FS_AddElement, FS_CardinalityType
    <3>4. Cardinality(Inside') <= 1 + signals'
      BY <2>3, <2>4, <3>1, <3>2, <3>3
    <3> QED
      BY <1>1, <2>2, <3>4 DEF OverlapInv, OverlapsCounted
  <2>7. CASE Call(p) \/ UnLock(p) \/ Exit(p) \/ Start(p)
    <3>0. PICK place \in {"waiting", "outside", "ended"} :
            Move(p, place) /\ signals' = signals
      BY <2>7 DEF Call, UnLock, Exit, Start
    <3>1. Inside' = Inside \ {p} /\ signals' = signals
      BY <1>1, <3>0, InsideMoved
    <3>2. Cardinality(Inside') <= Cardinality(Inside)
      BY <2>3, <3>1, FS_RemoveElement
    <3>3. Cardinality(Inside') \in Nat
      BY <2>3, <3>1, FS_RemoveElement, FS_CardinalityType
    <3>4. Cardinality(Inside') <= 1 + signals'
      BY <2>3, <2>4, <3>1, <3>2, <3>3
    <3> QED
      BY <1>1, <2>2, <3>4 DEF OverlapInv, OverlapsCounted
  <2> QED
    BY <2>1, <2>5, <2>6, <2>7
<1> QED
  BY <1>2, <1>3

(* However interrupted Locks, UnLocks that fail and exits mix up whose     *)
(* lock is released, each signal lets one process in beside the owner and  *)
(* never a second one.                                                     *)
THEOREM NoMoreThanSignals == Spec => []OverlapsCounted
<1>1. Init => OverlapInv
  <2> SUFFICES ASSUME Init PROVE OverlapInv
    OBVIOUS
  <2>1. Owed = {} /\ Inside = {}
    BY DEF Init, Owed, Owes, Inside
  <2>2. IsFiniteSet({}) /\ Cardinality({}) = 0
    BY FS_EmptySet
  <2>3. semval = 0 /\ signals = 0
    BY DEF Init
  <2> QED
    BY <2>1, <2>2, <2>3, InitSemInv DEF OverlapInv, Covered, OverlapsCounted
<1>2. OverlapInv /\ [Next]_semVars => OverlapInv'
  BY NextKeepsOverlapInv
<1>3. OverlapInv => OverlapsCounted
  BY DEF OverlapInv
<1> QED
  BY <1>1, <1>2, <1>3, PTL DEF Spec
==============================================================================

------------------------------- MODULE SemLock -------------------------------
(***************************************************************************)
(* The System V semaphore behind every operation on a ring (class SemLock  *)
(* of shm_base_class.cpp).  Lock is one semop of two operations: wait for  *)
(* zero, then add one with SEM_UNDO; UnLock subtracts one with IPC_NOWAIT  *)
(* and SEM_UNDO.  Both only print when semop fails, and the caller goes on *)
(* as if it had not.  The kernel keeps an adjustment per process that it   *)
(* applies when the process ends, never taking the semaphore below zero.   *)
(***************************************************************************)
EXTENDS Integers, FiniteSets

CONSTANTS
  Procs,       \* processes that use the ring, the threads of one share a mutex
  MaxSignals,  \* bound: waiting semops a signal handler interrupts
  MaxExits     \* bound: processes that end

ASSUME SemLockAssumption ==
  MaxSignals \in Nat /\ MaxExits \in Nat

VARIABLES
  semval,   \* value of the semaphore: zero is free
  semadj,   \* what the kernel adds to it when the process ends
  at,       \* where a process is: outside, waiting in semop, inside, ended
  signals,  \* history: interrupted calls
  exits     \* history: ended processes

semVars == <<semval, semadj, at, signals, exits>>

Inside == {p \in Procs : at[p] = "inside"}

Init ==
  /\ semval = 0
  /\ semadj = [p \in Procs |-> 0]
  /\ at = [p \in Procs |-> "outside"]
  /\ signals = 0 /\ exits = 0

Move(p, place) == at' = [at EXCEPT ![p] = place]

(* Mutant: SEM_UNDO is forgotten.                                          *)
SemOpNoUndo(p, delta) ==
  semval' = semval + delta /\ UNCHANGED semadj

(* An operation on the semaphore with SEM_UNDO.                            *)
SemOp(p, delta) ==
  /\ semval' = semval + delta
  /\ semadj' = [semadj EXCEPT ![p] = @ - delta]

(* Lock, entering semop.                                                   *)
Call(p) ==
  /\ at[p] = "outside"
  /\ Move(p, "waiting")
  /\ UNCHANGED <<semval, semadj, signals, exits>>

(* Mutant: the first operation, the wait for zero, is missing.             *)
LockAlways(p) ==
  /\ at[p] = "waiting"
  /\ SemOp(p, 1)
  /\ Move(p, "inside")
  /\ UNCHANGED <<signals, exits>>

(* Lock: both operations succeed together.                                 *)
Lock(p) ==
  /\ at[p] = "waiting" /\ semval = 0
  /\ SemOp(p, 1)
  /\ Move(p, "inside")
  /\ UNCHANGED <<signals, exits>>

(* Lock: semop sleeps and fails with EINTR, which no SA_RESTART prevents;  *)
(* the message is printed and the caller goes on.                          *)
Interrupted(p) ==
  /\ at[p] = "waiting" /\ semval # 0
  /\ signals < MaxSignals
  /\ signals' = signals + 1
  /\ Move(p, "inside")
  /\ UNCHANGED <<semval, semadj, exits>>

(* Mutant: the semaphore is taken below zero.                              *)
UnLockAlways(p) ==
  /\ at[p] = "inside"
  /\ SemOp(p, -1)
  /\ Move(p, "outside")
  /\ UNCHANGED <<signals, exits>>

(* UnLock: on a semaphore that is zero already semop fails with EAGAIN.    *)
UnLock(p) ==
  /\ at[p] = "inside"
  /\ IF semval > 0 THEN SemOp(p, -1) ELSE UNCHANGED <<semval, semadj>>
  /\ Move(p, "outside")
  /\ UNCHANGED <<signals, exits>>

(* A process ends, wherever it is.                                         *)
Exit(p) ==
  /\ at[p] # "ended" /\ exits < MaxExits
  /\ semval' = IF semval + semadj[p] < 0 THEN 0 ELSE semval + semadj[p]
  /\ semadj' = [semadj EXCEPT ![p] = 0]
  /\ Move(p, "ended")
  /\ exits' = exits + 1
  /\ UNCHANGED signals

(* It is started again.                                                    *)
Start(p) ==
  /\ at[p] = "ended"
  /\ Move(p, "outside")
  /\ UNCHANGED <<semval, semadj, signals, exits>>

Next ==
  \E p \in Procs :
    Call(p) \/ Lock(p) \/ Interrupted(p) \/ UnLock(p) \/ Exit(p) \/ Start(p)

Spec == Init /\ [][Next]_semVars

(* A process inside an operation goes on, and the kernel lets a waiter that *)
(* is woken again and again have its turn.                                 *)
Fairness ==
  \A p \in Procs : WF_semVars(UnLock(p)) /\ SF_semVars(Lock(p))

FairSpec == Spec /\ Fairness

------------------------------------------------------------------------------
(* Properties.                                                             *)

TypeOK ==
  /\ semval \in Nat
  /\ semadj \in [Procs -> Int]
  /\ at \in [Procs -> {"outside", "waiting", "inside", "ended"}]
  /\ signals \in 0 .. MaxSignals /\ exits \in 0 .. MaxExits

(* shm_base_class.cpp:60 calls the semaphore "used for process             *)
(* synchronization": one process at a time works on the ring.              *)
OneInside == Cardinality(Inside) <= 1

(* An interrupted Lock lets one more process in, and however the later     *)
(* UnLocks and exits mix up whose lock they release, never a second one.   *)
OverlapsCounted == Cardinality(Inside) <= 1 + signals

(* As long as no Lock was interrupted the semaphore is taken only while    *)
(* some process is inside: neither an UnLock nor what the kernel undoes    *)
(* for a process that ended leaves a lock that nobody will release.        *)
HeldBySomeone == signals = 0 /\ semval > 0 => Inside # {}

(* As long as no Lock was interrupted the lock is a mutex that outlives    *)
(* its owner: every step of the semaphore is one of the mutex or none.     *)
M == INSTANCE Mutex WITH Owners <- Procs, owner <- Inside

IsAMutex ==
  M!MutexInit /\ [][signals' = 0 => [M!MutexNext]_Inside]_semVars

(* And whoever waits gets in or ends.                                      *)
WaitersGetIn ==
  \A p \in Procs : at[p] = "waiting" ~> at[p] # "waiting" \/ signals > 0
==============================================================================

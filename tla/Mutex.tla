-------------------------------- MODULE Mutex --------------------------------
(* What a lock shared by processes that may die promises: one of them at a  *)
(* time, and the death of the one that has it gives it back.               *)
CONSTANT Owners

VARIABLE owner  \* the processes inside, at most one

Free == owner = {}

MutexInit == Free

Enter(p) == Free /\ owner' = {p}

Leave(p) == owner = {p} /\ owner' = {}

MutexNext == \E p \in Owners : Enter(p) \/ Leave(p)

MutexSpec == MutexInit /\ [][MutexNext]_owner
==============================================================================

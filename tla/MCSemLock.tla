------------------------------ MODULE MCSemLock ------------------------------
(* The instances of SemLock that TLC checks.                               *)
EXTENDS SemLock

CONSTANTS p1, p2, p3

MCProcs == {p1, p2, p3}
==============================================================================

------------------------------ MODULE MCShmRing ------------------------------
(* The instance of ShmRing that TLC checks.  Lengths: a refused empty      *)
(* payload, short and long ones, the longest, and a refused one above it.  *)
EXTENDS ShmRing

MCLengths == {0, 1, 2, 4, 5}
MCKeys    == {FALSE}
==============================================================================

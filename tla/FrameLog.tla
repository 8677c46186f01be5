------------------------------- MODULE FrameLog ------------------------------
(***************************************************************************)
(* What the shared-memory ring promises its readers: an endless log of     *)
(* frames, of which every reader gets some, in the order written.  Frames  *)
(* may be passed over, when a reader is too slow, but none is handed over  *)
(* twice, before an older one, or without having been written, until the   *)
(* reader is repositioned by a call of its own.                            *)
(***************************************************************************)
EXTENDS Naturals

CONSTANT Readers

VARIABLES
  written,  \* frames written so far; the n-th one is frame n
  open,     \* the readers that hold an id
  got       \* the frame each of them got last, 0 before the first one

logVars == <<written, open, got>>

LogInit ==
  /\ written = 0
  /\ open = {}
  /\ got = [r \in Readers |-> 0]

Write ==
  /\ written' = written + 1
  /\ UNCHANGED <<open, got>>

Get(r) ==
  /\ r \in open
  /\ \E n \in got[r] + 1 .. written : got' = [got EXCEPT ![r] = n]
  /\ UNCHANGED <<written, open>>

(* A reader that is moved, or was thrown back to its initial state.        *)
Rewind(r) ==
  /\ r \in open
  /\ got' = [got EXCEPT ![r] = 0]
  /\ UNCHANGED <<written, open>>

Open(r) ==
  /\ r \notin open
  /\ open' = open \union {r}
  /\ got' = [got EXCEPT ![r] = 0]
  /\ UNCHANGED written

Copy(r, s) ==
  /\ r \in open /\ s \notin open
  /\ open' = open \union {s}
  /\ got' = [got EXCEPT ![s] = got[r]]
  /\ UNCHANGED written

Close(r) ==
  /\ r \in open
  /\ open' = open \ {r}
  /\ got' = [got EXCEPT ![r] = 0]
  /\ UNCHANGED written

LogNext ==
  \/ Write
  \/ \E r \in Readers : Get(r) \/ Rewind(r) \/ Open(r) \/ Close(r)
  \/ \E r, s \in Readers : Copy(r, s)

LogSpec == LogInit /\ [][LogNext]_logVars
==============================================================================

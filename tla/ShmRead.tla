------------------------------- MODULE ShmRead -------------------------------
(***************************************************************************)
(* The operations of a ShmRead object (shm_read_class.cpp) on the ring.    *)
(* Each runs with the semaphore held and never stores to the segment, so   *)
(* it is a function from the caller's position and sequence number (the    *)
(* in-out parameters puiPos and puiSeq) to what it gives back.             *)
(***************************************************************************)
EXTENDS ShmRing

(* The segment is read through one struct type wherever the position       *)
(* points.  Position 0 overlays the ShmHead: its uiMagic is the magic      *)
(* itself, iShmSize is read as iFrameSize, the user-defined info, whose    *)
(* bytes set no key flag, as the extras, and iMaxFrameSize as uiSequence:  *)
(* a count of bytes, far from any sequence number of the moment.  Its      *)
(* uiNewestFrameSeq is read as uiNextFramePos, a small number that points  *)
(* back into the ShmHead, where no magic is found.                         *)
Inside == -1
FarSequence == MAX_SEQUENCE \div 2

FrameAt(p) ==
  CASE p \in Cells  -> shm[p]
    [] p = INITIAL  -> [magic |-> TRUE, frame |-> 0, seq |-> FarSequence,
                        size |-> iShmSize, prev |-> uiNewestFramePos,
                        next |-> IF uiNewestFrameSeq = 0 THEN INITIAL ELSE Inside,
                        key |-> FALSE]
    [] OTHER        -> Zero

(* The SHM_EMPTY_CHECK macro, which looks before it takes the semaphore.   *)
IsEmpty == uiNewestFrameSeq = INITIAL

(* Mutant: the end of the ring is not looked for.                          *)
CheckNothing(pos, seq) == pos

(* A caught-up reader whose next frame did not fit before the end of the   *)
(* ring finds it at START.                                                 *)
CheckOverflowed(pos, seq) ==
  IF /\ pos # INITIAL
     /\ ~FrameAt(pos).magic
     /\ seq = shm[START].seq
  THEN START ELSE pos

Outcome(rtn, pos, seq, frame) ==
  [rtn |-> rtn, pos |-> pos, seq |-> seq, frame |-> frame]

(* A lost position is given up, and the caller starts over.                *)
Lost == Outcome("ERROR", INITIAL, INITIAL, 0)

(* Mutant: it is kept.                                                     *)
NotFoundAgain(pos, seq) == Outcome("ERROR", pos, seq, 0)

NotFound(pos, seq) == Lost

(* Sequence number of a reader that has read the newest frame.             *)
(* Mutant: that of one that stands on it.                                  *)
OnNewest(seq) == seq = uiNewestFrameSeq

CaughtUp(seq) == seq = uiNewestFrameSeq + 1

(* The frame the caller saved is still the one at its position.            *)
(* Mutant: some frame is.                                                  *)
SomeFrame(f, seq) == f.magic

SameFrame(f, seq) == f.magic /\ f.seq = seq

(* Sequence number a reader expects after f; the writer goes on with 1.    *)
Following(f) == IF f.seq + 1 >= MAX_SEQUENCE THEN 0 ELSE f.seq + 1

(* The frame a read hands over: its number, or Torn when the head and the  *)
(* payload copied with it are not one frame's.                             *)
Torn == -1

Handed(p) ==
  IF \A q \in Extent(p) : q \in Cells /\ shm[q].frame = shm[p].frame
  THEN shm[p].frame ELSE Torn

(* A frame too large for the caller's buffer: the position stays.          *)
(* Mutant: the frame is passed over.                                       *)
DropLarge(p, seq, f) == Outcome("FRAME_TOO_LARGE", f.next, Following(f), 0)

KeepLarge(p, seq, f) == Outcome("FRAME_TOO_LARGE", p, seq, 0)

(* ShmRead::ReadFrame with a buffer of buf cells.                          *)
ReadFrame(pos, seq, buf) ==
  LET p == CheckOverflowed(pos, seq)
      f == FrameAt(p)
  IN IF uiNewestFrameSeq < seq
     THEN IF uiNewestFrameSeq # seq - 1
          THEN Lost
          ELSE Outcome("NO_NEW_FRAME", pos, seq, 0)
     ELSE IF ~f.magic
     THEN NotFound(p, seq)
     ELSE IF f.size > iMaxFrameSize
     THEN Outcome("FRAME_TOO_LARGE", f.next, Following(f), 0)
     ELSE IF f.size > buf
     THEN KeepLarge(p, seq, f)
     ELSE Outcome("GET_A_NEW_FRAME", f.next, Following(f), Handed(p))

(* ShmRead::MoveForward: a read into no buffer.                            *)
MoveForward(pos, seq) ==
  LET r == ReadFrame(pos, seq, iMaxFrameSize)
  IN [r EXCEPT !.rtn = IF @ = "GET_A_NEW_FRAME" THEN "OK" ELSE "ERROR"]

(* ShmRead::MoveBack.                                                      *)
MoveBack(pos, seq) ==
  LET p == CheckOverflowed(pos, seq)
      f == FrameAt(p)
  IN IF pos = INITIAL
     THEN Outcome("OK", uiNewestFramePos, FrameAt(uiNewestFramePos).seq, 0)
     ELSE IF CaughtUp(seq)
     THEN Outcome("OK", uiNewestFramePos, uiNewestFrameSeq, 0)
     ELSE IF f.magic /\ p # f.prev /\ FrameAt(f.prev).magic
     THEN Outcome("OK", f.prev, FrameAt(f.prev).seq, 0)
     ELSE Lost

(* ShmRead::Refresh stores the newest position even when it finds no frame *)
(* there.                                                                  *)
Refresh ==
  Outcome(IF FrameAt(uiNewestFramePos).magic THEN "OK" ELSE "ERROR",
          uiNewestFramePos, uiNewestFrameSeq, 0)

(* ShmRead::GetExtras: its code, and the key flag it stores if it does.    *)
GetExtras(pos, seq) ==
  LET f == FrameAt(CheckOverflowed(pos, seq))
  IN IF f.magic THEN [rtn |-> "OK", key |-> f.key]
     ELSE IF CaughtUp(seq)
     THEN [rtn |-> "NEXT_FRAME_OF_NEWEST", key |-> FALSE]
     ELSE [rtn |-> "ERROR", key |-> FALSE]

(* Unsigned difference of two sequence numbers, returned as an int.        *)
SeqDistance(a, b) ==
  LET d == (a - b) % (MAX_SEQUENCE + 1)
  IN IF d > MAX_SEQUENCE \div 2 THEN d - (MAX_SEQUENCE + 1) ELSE d

(* ShmRead::Distance2Newest.                                               *)
Distance2Newest(pos, seq) ==
  LET f == FrameAt(CheckOverflowed(pos, seq))
  IN IF CaughtUp(seq) THEN -1
     ELSE IF SameFrame(f, seq)
     THEN SeqDistance(uiNewestFrameSeq, seq)
     ELSE -2
==============================================================================

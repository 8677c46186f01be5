------------------------------- MODULE ShmRing -------------------------------
(***************************************************************************)
(* The shared-memory frame ring of libshmav: one segment, the single       *)
(* ShmWrite object that fills it (shm_write_class.cpp) and the layout both *)
(* sides rely on (shm_base_class.h).                                       *)
(*                                                                         *)
(* The segment is an array of cells.  Cell 0 stands for the ShmHead, so    *)
(* position 0 is SHM_FRAME_INITIAL_POSITION and no frame lives there; the  *)
(* frame heads and payloads lie in START .. iShmSize-1.  A head takes HEAD *)
(* cells, the first of which carries uiMagic and, with it, the fields of   *)
(* frame_head_struct; a payload of length n takes n cells.  A cell is the  *)
(* alignment unit of the code, so the complement computed after a frame is *)
(* already part of the length.                                             *)
(*                                                                         *)
(* WriteFrame runs with the semaphore held, hence is one step; what a      *)
(* writer process that dies inside it leaves behind (SEM_UNDO frees the    *)
(* semaphore) is the action CrashInWriteFrame.                             *)
(***************************************************************************)
EXTENDS Integers

CONSTANTS
  iShmSize,      \* cells of the segment, the ShmHead's one included
  iMaxFrameSize, \* longest payload WriteFrame accepts, in cells
  HEAD,          \* cells of a frame head (SHM_SIZE_OF_FRAME_HEAD)
  MAX_SEQUENCE,  \* SHM_FRAME_MAX_SEQUENCE, the number no frame ever carries
  Lengths,       \* payload lengths handed to WriteFrame, bad ones included
  Keys,          \* key-frame flags written: {FALSE} on an audio ring
  MaxFrames,     \* bound: frames written over all lives of the writer
  MaxStarts      \* bound: times a ShmWrite is constructed

INITIAL == 0     \* SHM_FRAME_INITIAL_POSITION and SHM_FRAME_INITIAL_SEQUENCE
START   == 1     \* SHM_FRAME_START_POSITION, the first cell after the ShmHead

(* The callers give a segment that holds many times the longest frame      *)
(* (3.5M for 256K frames); the code only relies on one frame and the next  *)
(* frame's head fitting, and never checks it.                              *)
ASSUME RingAssumption ==
  /\ iShmSize \in Nat /\ iMaxFrameSize \in Nat \ {0} /\ HEAD \in Nat \ {0}
  /\ START + 2 * HEAD + iMaxFrameSize < iShmSize
  /\ MAX_SEQUENCE \in Nat /\ MAX_SEQUENCE > 1
  /\ Lengths \subseteq Int /\ Keys \subseteq BOOLEAN
  /\ MaxFrames \in Nat /\ MaxStarts \in Nat

VARIABLES
  shm,              \* the cells START .. iShmSize-1
  uiNewestFramePos, \* ShmHead
  uiNewestFrameSeq, \* ShmHead
  exists,           \* the segment has been created by some writer
  writer,           \* the ShmWrite object: none, attached or ready to write
  uiFramePos,       \* m_uiFramePos of the writer
  uiFrameSeq,       \* m_uiFrameSeq of the writer
  frameNo,          \* history: frames written so far, the identity of a frame
  base,             \* history: frameNo when the ring was last formatted
  starts,           \* history: times the ring has been formatted
  cutAt             \* history: the head a writer died over, INITIAL if none

ringVars == <<shm, uiNewestFramePos, uiNewestFrameSeq, exists, writer,
              uiFramePos, uiFrameSeq, frameNo, base, starts, cutAt>>

Cells     == START .. iShmSize - 1
Positions == 0 .. iShmSize - 1

(* What a cell holds: the frame that last wrote it (0 for cleared memory)  *)
(* and, in the first cell of a head, the fields of frame_head_struct.      *)
Cell == [magic: BOOLEAN, frame: Nat, seq: Nat, size: Nat,
         prev: Positions, next: Positions, key: BOOLEAN]

Zero == [magic |-> FALSE, frame |-> 0, seq |-> 0, size |-> 0,
         prev |-> INITIAL, next |-> INITIAL, key |-> FALSE]

Body(n) == [Zero EXCEPT !.frame = n]

------------------------------------------------------------------------------
(* Where the next frame goes and where the one after it will.              *)

(* Mutant: the frame head is left out of the sum.                          *)
WrapsForPayload(len) == uiFramePos + len >= iShmSize

Wraps(len) == uiFramePos + HEAD + len >= iShmSize

(* Mutant: the position is not reset at a wrap.                            *)
AtEnd(len) == uiFramePos

At(len) == IF Wraps(len) THEN START ELSE uiFramePos

After(len) ==
  IF ~Wraps(len) /\ uiFramePos + HEAD + len + HEAD >= iShmSize
  THEN START
  ELSE At(len) + HEAD + len

NextSequence == IF uiFrameSeq + 1 >= MAX_SEQUENCE THEN 1 ELSE uiFrameSeq + 1

(* The stores of WriteFrame, in its order, each on the memory m before it. *)

(* Mutant: the newest frame keeps its link at a wrap.                      *)
PatchNothing(m, len) == m

PatchNewest(m, len) ==
  IF Wraps(len) THEN [m EXCEPT ![uiNewestFramePos].next = START] ELSE m

(* Mutant: the payload goes where the frame would be without the wrap.     *)
CopyBeforeWrap(m, len, n) ==
  [p \in Cells |-> IF p \in uiFramePos + HEAD .. uiFramePos + HEAD + n - 1
                   THEN Body(frameNo + 1) ELSE m[p]]

CopyPayload(m, len, n) ==
  [p \in Cells |-> IF p \in At(len) + HEAD .. At(len) + HEAD + n - 1
                   THEN Body(frameNo + 1) ELSE m[p]]

(* Mutant: the next head is not cleared.                                   *)
ClearNothing(m, len) == m

(* Mutant: room for a whole frame is cleared.                              *)
ClearNextFrame(m, len) ==
  [p \in Cells |-> IF p \in After(len) .. After(len) + HEAD + iMaxFrameSize - 1
                   THEN Zero ELSE m[p]]

ClearNextHead(m, len) ==
  [p \in Cells |-> IF p \in After(len) .. After(len) + HEAD - 1
                   THEN Zero ELSE m[p]]

(* Mutant: the next position is stored before it is sent to START.         *)
FrameHeadUnwrapped(len, key) ==
  [magic |-> TRUE, frame |-> frameNo + 1, seq |-> NextSequence, size |-> len,
   prev |-> uiNewestFramePos, next |-> At(len) + HEAD + len, key |-> key]

FrameHead(len, key) ==
  [magic |-> TRUE, frame |-> frameNo + 1, seq |-> NextSequence, size |-> len,
   prev |-> uiNewestFramePos, next |-> After(len), key |-> key]

FillHead(m, len, key) ==
  [p \in Cells |-> IF p = At(len) THEN FrameHead(len, key)
                   ELSE IF p \in At(len) + 1 .. At(len) + HEAD - 1
                   THEN Body(frameNo + 1) ELSE m[p]]

Payload(len, n) == CopyPayload(PatchNewest(shm, len), len, n)
Cleared(len)    == ClearNextHead(Payload(len, len), len)
Filled(len, key) == FillHead(Cleared(len), len, key)

------------------------------------------------------------------------------
Init ==
  /\ shm = [p \in Cells |-> Zero]
  /\ uiNewestFramePos = INITIAL /\ uiNewestFrameSeq = INITIAL
  /\ exists = FALSE
  /\ writer = "none" /\ uiFramePos = INITIAL /\ uiFrameSeq = INITIAL
  /\ frameNo = 0 /\ base = 0 /\ starts = 0
  /\ cutAt = INITIAL

(* ShmBase::InitShm of a writer: shmget(IPC_CREAT) and shmat.  The         *)
(* semaphore is released before the constructor of ShmWrite formats it.    *)
InitShm ==
  /\ writer = "none" /\ starts < MaxStarts
  /\ writer' = "attached" /\ exists' = TRUE
  /\ UNCHANGED <<shm, uiNewestFramePos, uiNewestFrameSeq, uiFramePos,
                 uiFrameSeq, frameNo, base, starts, cutAt>>

(* The constructor of ShmWrite: the ring is emptied whoever still reads it. *)
ShmWrite ==
  /\ writer = "attached"
  /\ shm' = [p \in Cells |-> Zero]
  /\ uiNewestFramePos' = START /\ uiNewestFrameSeq' = INITIAL
  /\ uiFramePos' = START /\ uiFrameSeq' = INITIAL
  /\ writer' = "ready" /\ starts' = starts + 1
  /\ base' = frameNo /\ cutAt' = INITIAL
  /\ UNCHANGED <<exists, frameNo>>

Accepted(len) == len > 0 /\ len <= iMaxFrameSize

(* ShmWrite::WriteFrame; a frame it refuses changes nothing.               *)
WriteFrame(len, key) ==
  /\ writer = "ready" /\ frameNo < MaxFrames
  /\ IF Accepted(len)
     THEN /\ shm' = Filled(len, key)
          /\ uiNewestFramePos' = At(len)
          /\ uiNewestFrameSeq' = NextSequence
          /\ uiFramePos' = After(len)
          /\ uiFrameSeq' = NextSequence
          /\ frameNo' = frameNo + 1
     ELSE UNCHANGED <<shm, uiNewestFramePos, uiNewestFrameSeq, uiFramePos,
                      uiFrameSeq, frameNo>>
  /\ UNCHANGED <<exists, writer, base, starts, cutAt>>

(* The memory a writer that dies inside WriteFrame leaves: the payload     *)
(* copied in part or whole, the next head cleared, the fields of the head  *)
(* stored with the magic not yet, or already, stored, or the whole head.   *)
(* A head stored in part keeps the history of the cell it is stored over.  *)
HeadInPart(len, magic) ==
  LET old == Cleared(len)[At(len)]
  IN [FrameHead(len, old.key) EXCEPT !.magic = magic, !.frame = old.frame]

CutShort(len, key) ==
  {Payload(len, n) : n \in 0 .. len}
    \union {[Cleared(len) EXCEPT ![At(len)] = HeadInPart(len, magic)] :
               magic \in {shm[At(len)].magic, TRUE}}
    \union {Cleared(len), Filled(len, key)}

CrashInWriteFrame(len, key) ==
  /\ writer = "ready" /\ frameNo < MaxFrames /\ Accepted(len)
  /\ shm' \in CutShort(len, key)
  /\ \/ UNCHANGED uiNewestFramePos
     \/ shm' = Filled(len, key) /\ uiNewestFramePos' = At(len)
  /\ writer' = "none" /\ frameNo' = frameNo + 1 /\ cutAt' = At(len)
  /\ UNCHANGED <<uiNewestFrameSeq, exists, uiFramePos, uiFrameSeq, base,
                 starts>>

(* SHM_DetachWrite, or the writer's process ending between two operations: *)
(* the segment and what it holds stay.                                     *)
DetachWrite ==
  /\ writer # "none"
  /\ writer' = "none"
  /\ UNCHANGED <<shm, uiNewestFramePos, uiNewestFrameSeq, exists, uiFramePos,
                 uiFrameSeq, frameNo, base, starts, cutAt>>

WriterNext ==
  \/ InitShm \/ ShmWrite \/ DetachWrite
  \/ \E len \in Lengths, key \in Keys : WriteFrame(len, key)

CrashNext == \E len \in Lengths, key \in Keys : CrashInWriteFrame(len, key)

Next == WriterNext \/ CrashNext

Spec == Init /\ [][Next]_ringVars

------------------------------------------------------------------------------
(* Properties.                                                             *)

TypeOK ==
  /\ shm \in [Cells -> Cell]
  /\ uiNewestFramePos \in Positions /\ uiNewestFrameSeq \in Nat
  /\ exists \in BOOLEAN
  /\ writer \in {"none", "attached", "ready"}
  /\ uiFramePos \in Positions /\ uiFrameSeq \in Nat
  /\ frameNo \in Nat /\ base \in Nat /\ starts \in Nat
  /\ cutAt \in Positions

(* A position where a reader finds the magic of a frame, other than the    *)
(* one head whose writer died before it was done with it.                  *)
Framed == {p \in Cells : shm[p].magic /\ p # cutAt}

(* The cells of the frame whose head is at p.                              *)
Extent(p) == p .. p + HEAD + shm[p].size - 1

(* Wherever ReadFrame, MoveBack or GetExtras finds the magic number, the   *)
(* head's fields and the whole payload are those of one frame: wrapping,   *)
(* clearing only the next head and never clearing the overtaken ones leaves *)
(* no head whose payload a later frame has run over, stale laps included.  *)
FramesIntact ==
  \A p \in Framed :
    /\ p + HEAD + shm[p].size <= iShmSize
    /\ \A q \in Extent(p) : shm[q].frame = shm[p].frame

(* Refresh and MoveBack trust the ShmHead without checking it: while the   *)
(* writer lives, the newest position it names holds the last frame         *)
(* written, under the newest sequence number, and that frame's next        *)
(* position is where the writer stands.                                    *)
NewestValid ==
  writer = "ready" /\ frameNo > base =>
    /\ uiNewestFramePos \in Framed
    /\ shm[uiNewestFramePos].frame = frameNo
    /\ shm[uiNewestFramePos].seq = uiNewestFrameSeq
    /\ shm[uiNewestFramePos].next = uiFramePos

(* Where a reader that has caught up waits there is no magic to misread:   *)
(* the head the writer fills next is cleared memory.                       *)
NextHeadClear ==
  writer = "ready" =>
    \A q \in uiFramePos .. uiFramePos + HEAD - 1 : q \in Cells /\ shm[q] = Zero

(* Following uiNextFramePos from any head never leads to an older frame,   *)
(* also when the link was patched at a wrap or runs into a later lap; so a  *)
(* reader that keeps reading cannot be sent round the ring for ever.       *)
LinksGoForward ==
  cutAt = INITIAL =>
    \A p \in Framed : shm[p].next \in Framed =>
                        shm[shm[p].next].frame > shm[p].frame

(* Of two consecutive frames that are both still in the ring, each links   *)
(* to the other.                                                           *)
NeighboursLinked ==
  cutAt = INITIAL =>
    \A p, q \in Framed : shm[q].frame = shm[p].frame + 1 =>
                           shm[p].next = q /\ shm[q].prev = p

(* How many frames back a reader may fall, whatever their lengths, and     *)
(* still find the frame it stands on: one lap less the frame that may be   *)
(* left out at the end and the one being written.                          *)
Kept == (iShmSize - START - HEAD) \div (iMaxFrameSize + HEAD) - 1

NewestKept ==
  cutAt = INITIAL =>
    \A n \in base + 1 .. frameNo :
      n > frameNo - Kept => \E p \in Framed : shm[p].frame = n
==============================================================================

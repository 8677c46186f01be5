---------------------------- MODULE ShmRingProofs ----------------------------
(***************************************************************************)
(* Proofs about the ring of ShmRing, for every size of the segment, of the *)
(* frames and of a frame head, and every bound on frames and restarts.     *)
(*                                                                         *)
(* The invariants are not inductive one by one.  What carries them is that *)
(* the writer always stands on cleared cells (NextHeadClear): a head below *)
(* it whose payload reached past it would have to own one of them.         *)
(***************************************************************************)
EXTENDS ShmRing, TLAPS

(* The writer's position leaves room for a head, and for the one at START  *)
(* below it.                                                               *)
HeadPlace(p) == (p = START \/ p >= START + HEAD) /\ p + HEAD < iShmSize

WriterPlaced == writer = "ready" => HeadPlace(uiFramePos)

(* No head begins inside the one at START.                                 *)
HeadsApart == \A p \in Cells : shm[p].magic => p = START \/ p >= START + HEAD

(* Frames found in the ring were written since it was formatted.           *)
FramesNumbered ==
  \A p \in Framed : shm[p].frame > base /\ shm[p].frame <= frameNo

(* Formatting is behind every frame.                                       *)
BaseBehind == base <= frameNo

(* No two of them are the same frame.                                      *)
FramesUnique ==
  cutAt = INITIAL =>
    \A p, q \in Framed : shm[p].frame = shm[q].frame => p = q

(* The interrupted head is gone once the ring has a writer again.          *)
CutHealed == writer = "ready" => cutAt = INITIAL

IInv ==
  /\ TypeOK
  /\ WriterPlaced
  /\ HeadsApart
  /\ BaseBehind
  /\ FramesNumbered
  /\ FramesUnique
  /\ CutHealed
  /\ NextHeadClear
  /\ FramesIntact
  /\ NewestValid
  /\ LinksGoForward
  /\ NeighboursLinked

------------------------------------------------------------------------------
(* Where WriteFrame puts a frame: the head and the payload lie inside the  *)
(* segment, and the next head below or right behind them.                  *)
LEMMA Placement ==
  ASSUME NEW len \in Int, Accepted(len),
         uiFramePos \in Int, HeadPlace(uiFramePos)
  PROVE  /\ At(len) \in Cells
         /\ At(len) = START \/ At(len) >= START + HEAD
         /\ At(len) = (IF Wraps(len) THEN START ELSE uiFramePos)
         /\ At(len) + HEAD + len < iShmSize
         /\ After(len) \in Cells
         /\ HeadPlace(After(len))
         /\ \/ After(len) = At(len) + HEAD + len
            \/ After(len) = START /\ At(len) >= START + HEAD
  BY RingAssumption
  DEF Accepted, HeadPlace, At, After, Wraps, Cells, START

(* The link patched at a wrap is all that changes before the payload.      *)
LEMMA Patched ==
  ASSUME TypeOK, NEW len \in Int
  PROVE  /\ PatchNewest(shm, len) \in [Cells -> Cell]
         /\ \A p \in Cells :
              LET new == PatchNewest(shm, len)[p]
              IN  /\ new.magic = shm[p].magic
                  /\ new.frame = shm[p].frame
                  /\ new.seq = shm[p].seq
                  /\ new.size = shm[p].size
                  /\ new.prev = shm[p].prev
                  /\ new.key = shm[p].key
                  /\ IF Wraps(len) /\ p = uiNewestFramePos
                     THEN new.next = START
                     ELSE new.next = shm[p].next
<1>1. START \in Positions
  BY RingAssumption DEF Positions, START
<1>2. CASE Wraps(len)
  BY <1>1, <1>2 DEF TypeOK, PatchNewest, Cell
<1>3. CASE ~Wraps(len)
  BY <1>3 DEF TypeOK, PatchNewest
<1> QED
  BY <1>2, <1>3

(* The cells of the payload, of the next head and of the own head.         *)
InPayload(p, len, n) == p \in At(len) + HEAD .. At(len) + HEAD + n - 1
InNextHead(p, len)   == p \in After(len) .. After(len) + HEAD - 1
InHead(p, len)       == p \in At(len) .. At(len) + HEAD - 1

(* Cells are cells whatever is stored in them.                             *)
LEMMA CellsStored ==
  ASSUME TypeOK
  PROVE  /\ Zero \in Cell /\ ~Zero.magic /\ Zero.frame = 0
         /\ Body(frameNo + 1) \in Cell
         /\ ~Body(frameNo + 1).magic
         /\ Body(frameNo + 1).frame = frameNo + 1
<1>1. INITIAL \in Positions
  BY RingAssumption DEF Positions, INITIAL, START
<1>2. Zero \in Cell
  BY <1>1 DEF Zero, Cell
<1>3. ~Zero.magic /\ Zero.frame = 0
  BY DEF Zero
<1>4. frameNo + 1 \in Nat
  BY DEF TypeOK
<1>5. /\ [Zero EXCEPT !.frame = frameNo + 1] \in Cell
      /\ [Zero EXCEPT !.frame = frameNo + 1].frame = frameNo + 1
      /\ [Zero EXCEPT !.frame = frameNo + 1].magic = Zero.magic
  BY <1>2, <1>4 DEF Cell
<1> QED
  BY <1>2, <1>3, <1>5 DEF Body

(* The memory once n cells of the payload are copied.                      *)
LEMMA PayloadStored ==
  ASSUME TypeOK, NEW len \in Int, NEW n \in Int
  PROVE  /\ Payload(len, n) \in [Cells -> Cell]
         /\ \A p \in Cells :
              Payload(len, n)[p] = IF InPayload(p, len, n) THEN Body(frameNo + 1)
                                   ELSE PatchNewest(shm, len)[p]
BY Patched, CellsStored DEF Payload, CopyPayload, InPayload

(* The memory once the next head is cleared.                               *)
LEMMA NextHeadCleared ==
  ASSUME TypeOK, NEW len \in Int
  PROVE  /\ Cleared(len) \in [Cells -> Cell]
         /\ \A p \in Cells :
              Cleared(len)[p] = IF InNextHead(p, len) THEN Zero
                                ELSE Payload(len, len)[p]
BY PayloadStored, CellsStored DEF Cleared, ClearNextHead, InNextHead

(* The memory WriteFrame leaves.                                           *)
LEMMA HeadStored ==
  ASSUME TypeOK, WriterPlaced, writer = "ready",
         NEW len \in Int, Accepted(len), NEW key \in BOOLEAN
  PROVE  /\ FrameHead(len, key) \in Cell
         /\ Filled(len, key) \in [Cells -> Cell]
         /\ Filled(len, key)[At(len)] = FrameHead(len, key)
         /\ \A p \in Cells : p # At(len) =>
              Filled(len, key)[p] = IF InHead(p, len) THEN Body(frameNo + 1)
                                    ELSE Cleared(len)[p]
<1>1. /\ At(len) \in Cells /\ After(len) \in Positions
      /\ uiNewestFramePos \in Positions /\ NextSequence \in Nat
  BY Placement, RingAssumption
  DEF TypeOK, WriterPlaced, Cells, Positions, START, NextSequence
<1>2. FrameHead(len, key) \in Cell
  BY <1>1 DEF FrameHead, Cell, TypeOK, Accepted
<1>3. \A p \in Cells : p # At(len) =>
        (p \in At(len) + 1 .. At(len) + HEAD - 1 <=> InHead(p, len))
  BY <1>1, RingAssumption DEF InHead, Cells
<1> QED
  BY <1>1, <1>2, <1>3, NextHeadCleared, CellsStored DEF Filled, FillHead

------------------------------------------------------------------------------
(* What a step of the writer leaves of the frames in the ring.             *)

(* A frame whose head is not stored over ends below the new one, whose     *)
(* first cell is cleared memory, or begins behind the new head.            *)
LEMMA Untouched ==
  ASSUME IInv, writer = "ready", NEW len \in Int, Accepted(len),
         NEW p \in Framed, p # At(len)
  PROVE  p + HEAD + shm[p].size <= At(len) \/ p >= At(len) + HEAD
<1> USE RingAssumption
<1>1. /\ TypeOK /\ HeadPlace(uiFramePos) /\ uiFramePos \in Int
      /\ p \in Cells /\ p \in Int /\ shm[p].magic /\ shm[p] \in Cell
  BY DEF IInv, WriterPlaced, TypeOK, Framed, Positions, Cells
<1>2. shm[p].size \in Nat /\ shm[p].frame \in Nat /\ shm[p].frame > 0
  BY <1>1 DEF IInv, FramesNumbered, TypeOK, Cell
<1>3. CASE Wraps(len)
  BY <1>1, <1>3, Placement DEF IInv, HeadsApart, Cells, START
<1>4. CASE ~Wraps(len)
  <2>1. At(len) = uiFramePos /\ At(len) \in Cells
    BY <1>1, <1>4, Placement
  <2>2. \A q \in At(len) .. At(len) + HEAD - 1 : q \in Cells /\ shm[q] = Zero
    BY <2>1 DEF IInv, NextHeadClear
  <2>3. p \notin At(len) .. At(len) + HEAD - 1
    BY <1>1, <2>2 DEF Zero
  <2>4. At(len) \notin Extent(p)
    <3>1. shm[At(len)].frame = 0
      BY <2>1, <2>2 DEF Zero, Cells
    <3> QED
      BY <1>2, <3>1 DEF IInv, FramesIntact
  <2> QED
    BY <1>1, <1>2, <2>1, <2>3, <2>4 DEF Extent, Cells
<1> QED
  BY <1>3, <1>4

(* So its cells are none of those written, unless its head is.             *)
LEMMA Apart ==
  ASSUME IInv, writer = "ready", NEW len \in Int, Accepted(len),
         NEW p \in Framed, p # At(len),
         NEW n \in 0 .. len, ~InPayload(p, len, n)
  PROVE  \A q \in Extent(p) :
           /\ q \in Cells
           /\ ~InHead(q, len) /\ ~InPayload(q, len, n)
           /\ n = len /\ ~InNextHead(p, len) => ~InNextHead(q, len)
<1> USE RingAssumption
<1>1. /\ TypeOK /\ HeadPlace(uiFramePos) /\ uiFramePos \in Int
      /\ p \in Cells /\ p \in Int /\ shm[p].magic /\ shm[p] \in Cell
  BY DEF IInv, WriterPlaced, TypeOK, Framed, Positions, Cells
<1>2. shm[p].size \in Nat
  BY <1>1 DEF Cell
<1>3. p = START \/ p >= START + HEAD
  BY <1>1 DEF IInv, HeadsApart
<1>4. p + HEAD + shm[p].size <= iShmSize
  BY DEF IInv, FramesIntact
<1>5. p + HEAD + shm[p].size <= At(len) \/ p >= At(len) + HEAD
  BY Untouched
<1>6. p + HEAD + shm[p].size <= At(len) \/ p >= At(len) + HEAD + n
  BY <1>1, <1>5, Placement DEF InPayload, Cells
<1> SUFFICES ASSUME NEW q \in Extent(p)
             PROVE  /\ q \in Cells
                    /\ ~InHead(q, len) /\ ~InPayload(q, len, n)
                    /\ n = len /\ ~InNextHead(p, len) => ~InNextHead(q, len)
  OBVIOUS
<1>7. q \in Int /\ p <= q /\ q < p + HEAD + shm[p].size
  BY <1>1, <1>2 DEF Extent
<1>8. q \in Cells
  BY <1>1, <1>2, <1>4, <1>7 DEF Cells, START
<1>9. ~InHead(q, len) /\ ~InPayload(q, len, n)
  BY <1>1, <1>2, <1>6, <1>7, Placement DEF InHead, InPayload, Cells
<1>10. n = len /\ ~InNextHead(p, len) => ~InNextHead(q, len)
  BY <1>1, <1>2, <1>3, <1>6, <1>7, Placement DEF InNextHead, Cells, HeadPlace
<1> QED
  BY <1>8, <1>9, <1>10

(* The frames found in the memory m, but for the one at At(len), are       *)
(* frames of the ring, whole and unchanged except for a patched link.      *)
KeepsFrames(m, len) ==
  \A p \in Cells : m[p].magic /\ p # At(len) =>
    /\ p \in Framed
    /\ m[p].frame = shm[p].frame /\ m[p].size = shm[p].size
    /\ m[p].seq = shm[p].seq /\ m[p].key = shm[p].key
    /\ m[p].prev = shm[p].prev
    /\ IF Wraps(len) /\ p = uiNewestFramePos
       THEN m[p].next = START ELSE m[p].next = shm[p].next
    /\ \A q \in Extent(p) : m[q].frame = shm[q].frame

LEMMA PayloadKeeps ==
  ASSUME IInv, writer = "ready", NEW len \in Int, Accepted(len), NEW n \in 0 .. len
  PROVE  KeepsFrames(Payload(len, n), len)
<1>1. TypeOK /\ cutAt = INITIAL
  BY DEF IInv, CutHealed
<1> DEFINE m == Payload(len, n)
<1>2. /\ \A p \in Cells : InPayload(p, len, n) => m[p] = Body(frameNo + 1)
      /\ \A p \in Cells : ~InPayload(p, len, n) =>
                            m[p] = PatchNewest(shm, len)[p]
  BY <1>1, PayloadStored
<1> SUFFICES ASSUME NEW p \in Cells, m[p].magic, p # At(len)
             PROVE  /\ p \in Framed
                    /\ m[p].frame = shm[p].frame /\ m[p].size = shm[p].size
                    /\ m[p].seq = shm[p].seq /\ m[p].key = shm[p].key
                    /\ m[p].prev = shm[p].prev
                    /\ IF Wraps(len) /\ p = uiNewestFramePos
                       THEN m[p].next = START ELSE m[p].next = shm[p].next
                    /\ \A q \in Extent(p) : m[q].frame = shm[q].frame
  BY DEF KeepsFrames
<1>3. ~InPayload(p, len, n) /\ m[p] = PatchNewest(shm, len)[p]
  BY <1>1, <1>2, CellsStored
<1>4. p \in Framed
  <2>1. shm[p].magic
    BY <1>1, <1>3, Patched
  <2>2. p # INITIAL
    BY RingAssumption DEF Cells, INITIAL, START
  <2> QED
    BY <1>1, <2>1, <2>2 DEF Framed
<1>5. \A q \in Extent(p) : m[q].frame = shm[q].frame
  BY <1>1, <1>2, <1>3, <1>4, Apart, Patched
<1> QED
  BY <1>1, <1>3, <1>4, <1>5, Patched

LEMMA ClearedKeeps ==
  ASSUME IInv, writer = "ready", NEW len \in Int, Accepted(len)
  PROVE  KeepsFrames(Cleared(len), len)
<1>1. TypeOK /\ len \in 0 .. len
  BY DEF IInv, Accepted
<1> DEFINE m == Cleared(len)
           c == Payload(len, len)
<1>2. /\ \A p \in Cells : InNextHead(p, len) => m[p] = Zero
      /\ \A p \in Cells : ~InNextHead(p, len) => m[p] = c[p]
  BY <1>1, NextHeadCleared
<1>3. KeepsFrames(c, len)
  BY <1>1, PayloadKeeps
<1> SUFFICES ASSUME NEW p \in Cells, m[p].magic, p # At(len)
             PROVE  /\ m[p] = c[p] /\ p \in Framed
                    /\ \A q \in Extent(p) : m[q].frame = c[q].frame
  BY <1>3 DEF KeepsFrames
<1>4. ~InNextHead(p, len) /\ m[p] = c[p]
  BY <1>1, <1>2, CellsStored
<1>5. p \in Framed
  BY <1>3, <1>4 DEF KeepsFrames
<1>6. ~InPayload(p, len, len)
  BY <1>1, <1>4, PayloadStored, CellsStored
<1> QED
  BY <1>1, <1>2, <1>4, <1>5, <1>6, Apart

LEMMA FilledKeeps ==
  ASSUME IInv, writer = "ready", NEW len \in Int, Accepted(len),
         NEW key \in BOOLEAN
  PROVE  KeepsFrames(Filled(len, key), len)
<1> DEFINE a == At(len)
           m == Filled(len, key)
<1>1. TypeOK /\ WriterPlaced /\ len > 0
      /\ uiFramePos \in Int /\ HeadPlace(uiFramePos)
  BY DEF IInv, WriterPlaced, TypeOK, Positions, Accepted
<1>2. a \in Cells
  BY <1>1, Placement
<1>3. \A p \in Cells : p # a => m[p] = IF InHead(p, len)
                                       THEN Body(frameNo + 1)
                                       ELSE Cleared(len)[p]
  BY <1>1, HeadStored
<1>4. KeepsFrames(Cleared(len), len)
  BY ClearedKeeps
<1> SUFFICES ASSUME NEW p \in Cells, m[p].magic, p # a
             PROVE  /\ m[p] = Cleared(len)[p] /\ p \in Framed
                    /\ \A q \in Extent(p) : m[q].frame = Cleared(len)[q].frame
  BY <1>4 DEF KeepsFrames
<1>5. m[p] = Cleared(len)[p]
  BY <1>1, <1>3, CellsStored
<1>6. p \in Framed
  BY <1>4, <1>5 DEF KeepsFrames
<1>7. ~InPayload(p, len, 0) /\ 0 \in 0 .. len
  BY <1>1, <1>2, RingAssumption DEF InPayload, Cells
<1>8. \A q \in Extent(p) : q \in Cells /\ ~InHead(q, len)
  BY <1>6, <1>7, Apart
<1>9. InHead(a, len)
  BY <1>2, RingAssumption DEF InHead, Cells
<1> QED
  BY <1>3, <1>5, <1>6, <1>8, <1>9

(* The steps of the writer keep the invariant.                             *)

LEMMA WriteFrameKeeps ==
  ASSUME IInv, NEW len \in Lengths, NEW key \in Keys, WriteFrame(len, key),
         Accepted(len)
  PROVE  IInv'
<1> USE RingAssumption
<1> DEFINE a == At(len)
           m == Filled(len, key)
<1>1. /\ TypeOK /\ len \in Int /\ len > 0 /\ key \in BOOLEAN
      /\ writer = "ready" /\ cutAt = INITIAL /\ cutAt' = INITIAL
      /\ frameNo \in Nat /\ base \in Nat /\ uiFramePos \in Int
      /\ WriterPlaced /\ HeadPlace(uiFramePos)
  BY DEF IInv, WriteFrame, WriterPlaced, CutHealed, TypeOK, Positions, Accepted
<1>2. /\ shm' = m /\ uiNewestFramePos' = a /\ uiFramePos' = After(len)
      /\ uiNewestFrameSeq' = NextSequence /\ uiFrameSeq' = NextSequence
      /\ frameNo' = frameNo + 1
      /\ UNCHANGED <<exists, writer, base, starts, cutAt>>
  BY DEF WriteFrame
<1>3. /\ a \in Cells /\ (a = START \/ a >= START + HEAD)
      /\ a + HEAD + len < iShmSize
      /\ After(len) \in Cells /\ HeadPlace(After(len))
      /\ \/ After(len) = a + HEAD + len
         \/ After(len) = START /\ a >= START + HEAD
      /\ a = (IF Wraps(len) THEN START ELSE uiFramePos)
  BY <1>1, Placement
<1>4. /\ m \in [Cells -> Cell] /\ m[a] = FrameHead(len, key)
      /\ \A p \in Cells : p # a => m[p] = IF InHead(p, len)
                                          THEN Body(frameNo + 1)
                                          ELSE Cleared(len)[p]
  BY <1>1, HeadStored
<1>5. /\ m[a].magic /\ m[a].frame = frameNo + 1 /\ m[a].seq = NextSequence
      /\ m[a].size = len /\ m[a].prev = uiNewestFramePos
      /\ m[a].next = After(len)
  BY <1>4 DEF FrameHead
<1>6. KeepsFrames(m, len)
  BY <1>1, FilledKeeps
<1>7. \A q \in Cells : InNextHead(q, len) => m[q] = Zero
  <2> SUFFICES ASSUME NEW q \in Cells, InNextHead(q, len) PROVE m[q] = Zero
    OBVIOUS
  <2>1. q # a /\ ~InHead(q, len)
    BY <1>1, <1>3 DEF InNextHead, InHead, Cells, HeadPlace
  <2> QED
    BY <1>1, <1>4, <2>1, NextHeadCleared
<1>8. \A q \in a .. a + HEAD + len - 1 : q \in Cells /\ m[q].frame = frameNo + 1
  <2> SUFFICES ASSUME NEW q \in a .. a + HEAD + len - 1
               PROVE  q \in Cells /\ m[q].frame = frameNo + 1
    OBVIOUS
  <2>1. q \in Cells
    BY <1>1, <1>3 DEF Cells, START
  <2>2. CASE InHead(q, len)
    BY <1>1, <1>4, <1>5, <2>1, <2>2, CellsStored
  <2>3. CASE ~InHead(q, len)
    <3>1. q # a /\ InPayload(q, len, len) /\ ~InNextHead(q, len)
      BY <1>1, <1>3, <2>3 DEF InNextHead, InHead, InPayload, Cells, HeadPlace
    <3> QED
      BY <1>1, <1>4, <2>1, <2>3, <3>1, NextHeadCleared, PayloadStored, CellsStored
  <2> QED
    BY <2>2, <2>3
<1>9. /\ Framed' = {p \in Cells : m[p].magic}
      /\ a \in Framed'
      /\ \A p \in Framed' : p # a =>
           /\ p \in Framed
           /\ m[p].frame = shm[p].frame /\ m[p].size = shm[p].size
           /\ m[p].prev = shm[p].prev
           /\ IF Wraps(len) /\ p = uiNewestFramePos
              THEN m[p].next = START ELSE m[p].next = shm[p].next
           /\ \A q \in Extent(p) : m[q].frame = shm[q].frame
           /\ shm[p].frame \in Nat /\ shm[p].frame > base
           /\ shm[p].frame <= frameNo
  <2>1. Framed' = {p \in Cells : m[p].magic}
    BY <1>1, <1>2 DEF Framed, Cells, INITIAL, START
  <2>2. \A p \in Framed : /\ shm[p].frame \in Nat /\ shm[p].frame > base
                          /\ shm[p].frame <= frameNo
    BY <1>1 DEF IInv, FramesNumbered, Framed, TypeOK, Cell
  <2> QED
    BY <1>3, <1>5, <1>6, <2>1, <2>2 DEF KeepsFrames
<1>10. TypeOK'
  BY <1>1, <1>2, <1>3, <1>4 DEF TypeOK, NextSequence, Positions, Cells, START
<1>11. WriterPlaced'
  BY <1>2, <1>3 DEF WriterPlaced, HeadPlace
<1>12. HeadsApart'
  BY <1>2, <1>3, <1>9 DEF HeadsApart, IInv, Framed
<1>13. FramesNumbered'
  <2> SUFFICES ASSUME NEW p \in Framed'
               PROVE  m[p].frame > base /\ m[p].frame <= frameNo + 1
    BY <1>2 DEF FramesNumbered
  <2>1. base <= frameNo
    BY DEF IInv, BaseBehind
  <2> QED
    BY <1>1, <1>5, <1>9, <2>1
<1>14. BaseBehind'
  BY <1>1, <1>2 DEF IInv, BaseBehind
<1>15. FramesUnique'
  BY <1>1, <1>2, <1>5, <1>9 DEF FramesUnique, IInv
<1>16. CutHealed'
  BY <1>1 DEF CutHealed
<1>17. NextHeadClear'
  <2> SUFFICES ASSUME NEW q \in After(len) .. After(len) + HEAD - 1
               PROVE  q \in Cells /\ m[q] = Zero
    BY <1>2 DEF NextHeadClear
  <2>1. q \in Cells
    BY <1>3 DEF HeadPlace, Cells, START
  <2> QED
    BY <1>7, <2>1 DEF InNextHead
<1>18. FramesIntact'
  <2> SUFFICES ASSUME NEW p \in Framed'
               PROVE  /\ p + HEAD + m[p].size <= iShmSize
                      /\ \A q \in p .. p + HEAD + m[p].size - 1 :
                           m[q].frame = m[p].frame
    BY <1>2 DEF FramesIntact, Extent
  <2>1. CASE p = a
    BY <1>1, <1>3, <1>5, <1>8, <2>1 DEF Cells
  <2>2. CASE p # a
    BY <1>9, <2>2 DEF IInv, FramesIntact, Extent
  <2> QED
    BY <2>1, <2>2
<1>19. NewestValid'
  BY <1>1, <1>2, <1>5, <1>9 DEF NewestValid
<1>20. LinksGoForward'
  <2> SUFFICES ASSUME NEW p \in Framed', m[p].next \in Framed'
               PROVE  m[m[p].next].frame > m[p].frame
    BY <1>2 DEF LinksGoForward
  <2>1. p # a
    <3>1. InNextHead(After(len), len)
      BY <1>3 DEF InNextHead, Cells
    <3> QED
      BY <1>1, <1>3, <1>5, <1>7, <1>9, <3>1, CellsStored
  <2>2. CASE m[p].next = a
    BY <1>1, <1>5, <1>9, <2>1, <2>2
  <2>3. CASE m[p].next # a
    BY <1>1, <1>3, <1>9, <2>1, <2>3 DEF IInv, LinksGoForward
  <2> QED
    BY <2>2, <2>3
<1>21. NeighboursLinked'
  <2> SUFFICES ASSUME NEW p \in Framed', NEW q \in Framed',
                      m[q].frame = m[p].frame + 1
               PROVE  m[p].next = q /\ m[q].prev = p
    BY <1>2 DEF NeighboursLinked
  <2>1. p # a
    BY <1>1, <1>5, <1>9
  <2>2. CASE q = a
    <3>1. p \in Framed /\ shm[p].frame = frameNo /\ frameNo > base
      BY <1>1, <1>5, <1>9, <2>1, <2>2
    <3>2. /\ uiNewestFramePos \in Framed
          /\ shm[uiNewestFramePos].frame = frameNo
          /\ shm[uiNewestFramePos].next = uiFramePos
      BY <1>1, <3>1 DEF IInv, NewestValid
    <3>3. p = uiNewestFramePos
      BY <1>1, <3>1, <3>2 DEF IInv, FramesUnique
    <3> QED
      BY <1>3, <1>5, <1>9, <2>1, <2>2, <3>2, <3>3
  <2>3. CASE q # a
    <3>1. shm[p].next = q /\ shm[q].prev = p
      BY <1>1, <1>9, <2>1, <2>3 DEF IInv, NeighboursLinked
    <3>2. p # uiNewestFramePos
      <4>1. shm[p].frame # frameNo /\ frameNo > base
        BY <1>1, <1>9, <2>1, <2>3
      <4> QED
        BY <1>1, <4>1 DEF IInv, NewestValid
    <3> QED
      BY <1>9, <2>1, <2>3, <3>1, <3>2
  <2> QED
    BY <2>2, <2>3
<1> QED
  BY <1>10, <1>11, <1>12, <1>13, <1>14, <1>15, <1>16, <1>17, <1>18, <1>19,
     <1>20, <1>21
  DEF IInv

LEMMA CrashKeeps ==
  ASSUME IInv, NEW len \in Lengths, NEW key \in Keys,
         CrashInWriteFrame(len, key)
  PROVE  IInv'
<1> USE RingAssumption
<1> DEFINE a == At(len)
<1>1. /\ TypeOK /\ len \in Int /\ len > 0 /\ key \in BOOLEAN /\ Accepted(len)
      /\ writer = "ready" /\ cutAt = INITIAL
      /\ frameNo \in Nat /\ base \in Nat /\ uiFramePos \in Int
      /\ WriterPlaced /\ HeadPlace(uiFramePos)
  BY DEF IInv, CrashInWriteFrame, WriterPlaced, CutHealed, TypeOK, Positions,
         Accepted
<1>2. /\ writer' = "none" /\ frameNo' = frameNo + 1 /\ cutAt' = a
      /\ uiNewestFramePos' = uiNewestFramePos \/ uiNewestFramePos' = a
      /\ UNCHANGED <<uiNewestFrameSeq, exists, uiFramePos, uiFrameSeq, base,
                     starts>>
  BY DEF CrashInWriteFrame
<1>3. /\ a \in Cells /\ a \in Positions /\ a # INITIAL
      /\ a = START \/ a >= START + HEAD
  BY <1>1, Placement DEF Cells, Positions, START, INITIAL
<1>4. FrameHead(len, key) \in Cell /\ FrameHead(len, FALSE) \in Cell
  BY <1>1, HeadStored
<1>5. shm' \in [Cells -> Cell] /\ KeepsFrames(shm', len)
  <2>1. Cleared(len) \in [Cells -> Cell] /\ KeepsFrames(Cleared(len), len)
    BY <1>1, NextHeadCleared, ClearedKeeps
  <2>2. CASE \E n \in 0 .. len : shm' = Payload(len, n)
    BY <1>1, <2>2, PayloadStored, PayloadKeeps
  <2>3. CASE \E magic \in {shm[At(len)].magic, TRUE} :
               shm' = [Cleared(len) EXCEPT ![At(len)] = HeadInPart(len, magic)]
    <3>1. PICK magic \in {shm[At(len)].magic, TRUE} :
            shm' = [Cleared(len) EXCEPT ![At(len)] = HeadInPart(len, magic)]
      BY <2>3
    <3>2. magic \in BOOLEAN
      BY <1>1, <1>3 DEF TypeOK, Cell
    <3>3. /\ HeadInPart(len, magic) \in Cell
          /\ HeadInPart(len, magic).frame = Cleared(len)[a].frame
      <4> DEFINE old == Cleared(len)[a]
      <4>1. old \in Cell /\ old.key \in BOOLEAN /\ old.frame \in Nat
        BY <1>3, <2>1 DEF Cell
      <4>2. FrameHead(len, old.key) \in Cell
        BY <1>1, <4>1, HeadStored
      <4> QED
        BY <3>2, <4>1, <4>2 DEF HeadInPart, Cell
    <3>4. /\ shm' \in [Cells -> Cell]
          /\ \A p \in Cells : p # a => shm'[p] = Cleared(len)[p]
          /\ \A p \in Cells : shm'[p].frame = Cleared(len)[p].frame
      BY <1>3, <2>1, <3>1, <3>3
    <3>5. \A p \in Framed : \A q \in Extent(p) : p # a => q \in Cells
      <4> SUFFICES ASSUME NEW p \in Framed, NEW q \in Extent(p) PROVE q \in Cells
        OBVIOUS
      <4>1. p \in Cells /\ shm[p].size \in Nat
        BY <1>1 DEF Framed, TypeOK, Cell
      <4>2. p + HEAD + shm[p].size <= iShmSize
        BY DEF IInv, FramesIntact
      <4> QED
        BY <4>1, <4>2 DEF Extent, Cells, START
    <3> QED
      BY <2>1, <3>4, <3>5 DEF KeepsFrames
  <2>4. CASE shm' = Cleared(len)
    BY <2>1, <2>4
  <2>5. CASE shm' = Filled(len, key)
    BY <1>1, <2>5, HeadStored, FilledKeeps
  <2> QED
    BY <2>2, <2>3, <2>4, <2>5 DEF CrashInWriteFrame, CutShort
<1>6. \A p \in Framed' : /\ p \in Framed
                         /\ shm'[p].frame = shm[p].frame
                         /\ shm'[p].size = shm[p].size
                         /\ \A q \in Extent(p) : shm'[q].frame = shm[q].frame
                         /\ shm[p].frame > base /\ shm[p].frame <= frameNo
                         /\ shm[p].frame \in Nat
  <2>1. \A p \in Framed : shm[p].frame \in Nat
    BY <1>1 DEF Framed, TypeOK, Cell
  <2> QED
    BY <1>2, <1>5, <2>1 DEF Framed, KeepsFrames, IInv, FramesNumbered
<1>7. TypeOK'
  BY <1>1, <1>2, <1>3, <1>5 DEF TypeOK
<1>8. WriterPlaced' /\ CutHealed' /\ NextHeadClear' /\ NewestValid'
  BY <1>2 DEF WriterPlaced, CutHealed, NextHeadClear, NewestValid
<1>9. FramesUnique' /\ LinksGoForward' /\ NeighboursLinked'
  BY <1>2, <1>3 DEF FramesUnique, LinksGoForward, NeighboursLinked
<1>10. HeadsApart'
  BY <1>2, <1>3, <1>6 DEF HeadsApart, IInv, Framed
<1>11. BaseBehind'
  BY <1>1, <1>2 DEF IInv, BaseBehind
<1>12. FramesNumbered'
  <2> SUFFICES ASSUME NEW p \in Framed'
               PROVE  shm'[p].frame > base /\ shm'[p].frame <= frameNo + 1
    BY <1>2 DEF FramesNumbered
  <2> QED
    BY <1>1, <1>6
<1>13. FramesIntact'
  <2> SUFFICES ASSUME NEW p \in Framed'
               PROVE  /\ p + HEAD + shm'[p].size <= iShmSize
                      /\ \A q \in p .. p + HEAD + shm'[p].size - 1 :
                           shm'[q].frame = shm'[p].frame
    BY DEF FramesIntact, Extent
  <2> QED
    BY <1>6 DEF IInv, FramesIntact, Extent
<1> QED
  BY <1>7, <1>8, <1>9, <1>10, <1>11, <1>12, <1>13 DEF IInv

LEMMA ShmWriteKeeps ==
  ASSUME IInv, ShmWrite
  PROVE  IInv'
<1> USE RingAssumption
<1>1. TypeOK
  BY DEF IInv
<1>2. /\ \A p \in Cells : shm'[p] = Zero
      /\ Framed' = {}
      /\ base' = frameNo /\ frameNo' = frameNo /\ cutAt' = INITIAL
      /\ writer' = "ready" /\ uiFramePos' = START
  BY <1>1, CellsStored DEF ShmWrite, Framed
<1>3. TypeOK'
  <2>1. START \in Positions /\ INITIAL \in Positions
    BY DEF START, INITIAL, Positions
  <2>2. shm' \in [Cells -> Cell]
    BY <1>1, CellsStored DEF ShmWrite
  <2> QED
    BY <1>1, <2>1, <2>2 DEF ShmWrite, TypeOK, INITIAL
<1>4. WriterPlaced' /\ CutHealed' /\ BaseBehind' /\ HeadsApart'
  BY <1>1, <1>2, CellsStored
  DEF WriterPlaced, CutHealed, BaseBehind, HeadsApart, HeadPlace, TypeOK, START
<1>5. FramesNumbered' /\ FramesUnique' /\ FramesIntact'
  BY <1>2 DEF FramesNumbered, FramesUnique, FramesIntact
<1>6. LinksGoForward' /\ NeighboursLinked'
  BY <1>2 DEF LinksGoForward, NeighboursLinked
<1>7. NewestValid'
  BY <1>1, <1>2 DEF NewestValid, TypeOK
<1>8. NextHeadClear'
  <2> SUFFICES ASSUME NEW q \in START .. START + HEAD - 1
               PROVE  q \in Cells /\ shm'[q] = Zero
    BY <1>2 DEF NextHeadClear
  <2>1. q \in Cells
    BY DEF Cells, START
  <2> QED
    BY <1>2, <2>1
<1> QED
  BY <1>3, <1>4, <1>5, <1>6, <1>7, <1>8 DEF IInv

(* Steps that leave the ring alone, with a writer that at most stops being *)
(* ready.                                                                  *)
LEMMA IdleKeeps ==
  ASSUME IInv, InitShm \/ DetachWrite \/ UNCHANGED ringVars
  PROVE  IInv'
<1>1. /\ UNCHANGED <<shm, uiNewestFramePos, uiNewestFrameSeq, uiFramePos,
                     uiFrameSeq, frameNo, base, starts, cutAt>>
      /\ writer' = "ready" => writer = "ready"
  BY DEF InitShm, DetachWrite, ringVars
<1>2. TypeOK'
  BY DEF IInv, TypeOK, InitShm, DetachWrite, ringVars
<1>3. Framed' = Framed
  BY <1>1 DEF Framed
<1>4. WriterPlaced' /\ CutHealed' /\ BaseBehind' /\ HeadsApart'
  BY <1>1 DEF IInv, WriterPlaced, CutHealed, BaseBehind, HeadsApart, HeadPlace
<1>5. FramesNumbered' /\ FramesUnique' /\ FramesIntact'
  BY <1>1, <1>3 DEF IInv, FramesNumbered, FramesUnique, FramesIntact, Extent
<1>6. LinksGoForward' /\ NeighboursLinked'
  BY <1>1, <1>3 DEF IInv, LinksGoForward, NeighboursLinked
<1>7. NewestValid' /\ NextHeadClear'
  BY <1>1, <1>3 DEF IInv, NewestValid, NextHeadClear
<1> QED
  BY <1>2, <1>4, <1>5, <1>6, <1>7 DEF IInv

(* A step of the specification keeps the invariant.                        *)
LEMMA NextKeeps ==
  ASSUME IInv, [Next]_ringVars
  PROVE  IInv'
<1>1. CASE InitShm \/ DetachWrite \/ UNCHANGED ringVars
  BY <1>1, IdleKeeps
<1>2. CASE ShmWrite
  BY <1>2, ShmWriteKeeps
<1>3. ASSUME NEW len \in Lengths, NEW key \in Keys, WriteFrame(len, key)
      PROVE  IInv'
  <2>1. CASE Accepted(len)
    BY <1>3, <2>1, WriteFrameKeeps
  <2>2. CASE ~Accepted(len)
    <3>1. UNCHANGED ringVars
      BY <1>3, <2>2 DEF WriteFrame, ringVars
    <3> QED
      BY <3>1, IdleKeeps
  <2> QED
    BY <2>1, <2>2
<1>4. ASSUME NEW len \in Lengths, NEW key \in Keys, CrashInWriteFrame(len, key)
      PROVE  IInv'
  BY <1>4, CrashKeeps
<1> QED
  BY <1>1, <1>2, <1>3, <1>4 DEF Next, WriterNext, CrashNext

LEMMA InitIInv == Init => IInv
<1> SUFFICES ASSUME Init PROVE IInv
  OBVIOUS
<1>1. INITIAL \in Positions
  BY RingAssumption DEF INITIAL, START, Positions
<1>2. Zero \in Cell /\ ~Zero.magic
  <2>1. Zero \in Cell
    BY <1>1 DEF Zero, Cell
  <2>2. ~Zero.magic
    BY DEF Zero
  <2> QED
    BY <2>1, <2>2
<1>3. TypeOK
  BY <1>1, <1>2 DEF Init, TypeOK, INITIAL
<1>4. Framed = {}
  BY <1>2 DEF Init, Framed
<1>5. WriterPlaced /\ CutHealed /\ BaseBehind /\ HeadsApart
  BY <1>2 DEF Init, WriterPlaced, CutHealed, BaseBehind, HeadsApart
<1>6. FramesNumbered /\ FramesUnique /\ FramesIntact
  BY <1>4 DEF FramesNumbered, FramesUnique, FramesIntact
<1>7. LinksGoForward /\ NeighboursLinked /\ NewestValid /\ NextHeadClear
  BY <1>4 DEF Init, LinksGoForward, NeighboursLinked, NewestValid, NextHeadClear
<1> QED
  BY <1>3, <1>5, <1>6, <1>7 DEF IInv

------------------------------------------------------------------------------
(* The inductive invariant holds of the ring: whatever the writer writes,  *)
(* wherever it dies and however often it starts again.                     *)
THEOREM RingInvariant == Spec => []IInv
<1>1. Init => IInv
  BY InitIInv
<1>2. IInv /\ [Next]_ringVars => IInv'
  BY NextKeeps
<1> QED
  BY <1>1, <1>2, PTL DEF Spec

(* WriteFrame never stores outside the segment or loses its own position.  *)
THEOREM TypeCorrect == Spec => []TypeOK
<1>1. IInv => TypeOK
  BY DEF IInv
<1> QED
  BY <1>1, RingInvariant, PTL

(* A magic number found anywhere in the ring heads a frame whose fields    *)
(* and payload were all stored by the same WriteFrame: stale laps that     *)
(* WriteFrame never clears, and deaths inside it, included.                *)
THEOREM MagicMeansWholeFrame == Spec => []FramesIntact
<1>1. IInv => FramesIntact
  BY DEF IInv
<1> QED
  BY <1>1, RingInvariant, PTL

(* The ShmHead that Refresh and MoveBack follow unchecked names the newest *)
(* frame under its own sequence number.                                    *)
THEOREM HeadNamesNewest == Spec => []NewestValid
<1>1. IInv => NewestValid
  BY DEF IInv
<1> QED
  BY <1>1, RingInvariant, PTL

(* The place a caught-up reader waits at is cleared memory.                *)
THEOREM CaughtUpSeesNothing == Spec => []NextHeadClear
<1>1. IInv => NextHeadClear
  BY DEF IInv
<1> QED
  BY <1>1, RingInvariant, PTL

(* A reader that follows uiNextFramePos never goes back to an older frame. *)
THEOREM ReadingGoesForward == Spec => []LinksGoForward
<1>1. IInv => LinksGoForward
  BY DEF IInv
<1> QED
  BY <1>1, RingInvariant, PTL

(* Frames written one after the other are linked both ways, across the     *)
(* link WriteFrame patches at a wrap as well.                              *)
THEOREM ConsecutiveFramesLinked == Spec => []NeighboursLinked
<1>1. IInv => NeighboursLinked
  BY DEF IInv
<1> QED
  BY <1>1, RingInvariant, PTL

------------------------------------------------------------------------------
(* The newest frames stay.  A frame that d frames were written after lies  *)
(* at most d + 1 rooms below the writer, or as many rooms above it as are  *)
(* still to be written before it may go.                                   *)

Room == iMaxFrameSize + HEAD

Near(p, d) ==
  \/ p < uiFramePos /\ uiFramePos - p <= (d + 1) * Room
  \/ p >= uiFramePos + HEAD + (Kept - 1 - d) * Room

KeptNear ==
  cutAt = INITIAL =>
    \A n \in base + 1 .. frameNo :
      n > frameNo - Kept =>
        \E p \in Framed : shm[p].frame = n /\ Near(p, frameNo - n)

(* The ring has room for one frame more than it keeps.                     *)
LEMMA KeptFits ==
  /\ Kept \in Int /\ Room \in Int /\ Room >= HEAD + 1
  /\ (Kept + 1) * Room \in Int
  /\ (Kept + 1) * Room <= iShmSize - START - HEAD
<1> USE RingAssumption
<1>1. Room \in Nat /\ Room > 0 /\ iShmSize - START - HEAD \in Nat
  BY DEF Room, START
<1>2. \A a \in Nat, b \in Nat : b > 0 => a \div b \in Int /\ (a \div b) * b <= a
  OBVIOUS
<1>3. Kept + 1 = (iShmSize - START - HEAD) \div Room
  BY <1>1, <1>2 DEF Kept, Room
<1>4. /\ (iShmSize - START - HEAD) \div Room \in Int
      /\ ((iShmSize - START - HEAD) \div Room) * Room <= iShmSize - START - HEAD
  BY <1>1, <1>2
<1> QED
  BY <1>1, <1>3, <1>4 DEF Kept, Room

(* The rooms above and below a frame add up.                               *)
LEMMA RoomsAddUp ==
  ASSUME NEW d \in Int
  PROVE  LET below == (d + 1) * Room
             above == (Kept - 1 - d) * Room
         IN  /\ below \in Int /\ above \in Int
             /\ (Kept + 1) * Room = below + above + Room
             /\ (d + 1 + 1) * Room = below + Room
             /\ (Kept - 1 - (d + 1)) * Room = above - Room
             /\ d + 1 < Kept => above >= Room
<1>1. Kept \in Int /\ Room \in Int /\ Room >= 0
  BY KeptFits, RingAssumption
<1>2. \A a \in Int, b \in Int, c \in Int :
        /\ a * c \in Int /\ (a + b) * c = a * c + b * c
        /\ (a - b) * c = a * c - b * c
  OBVIOUS
<1>3. 1 * Room = Room
  BY <1>1
<1> DEFINE x == (d + 1) * Room
           y == (Kept - 1 - d) * Room
<1>4. x \in Int /\ y \in Int
  BY <1>1, <1>2
<1>5. (d + 1 + 1) * Room = x + Room
  BY <1>1, <1>2, <1>3
<1>6. (Kept - 1 - (d + 1)) * Room = y - Room
  <2>1. Kept - 1 - (d + 1) = (Kept - 1 - d) - 1
    BY <1>1
  <2> QED
    BY <1>1, <1>2, <1>3, <2>1
<1>7. (Kept + 1) * Room = x + y + Room
  <2>1. Kept + 1 = ((d + 1) + (Kept - 1 - d)) + 1
    BY <1>1
  <2>2. ((d + 1) + (Kept - 1 - d)) * Room = x + y
    BY <1>1, <1>2
  <2> QED
    BY <1>1, <1>2, <1>3, <2>1, <2>2
<1>8. d + 1 < Kept => y >= Room
  <2> SUFFICES ASSUME d + 1 < Kept PROVE y >= Room
    OBVIOUS
  <2>1. \A e \in Nat : e * Room \in Int /\ e * Room >= 0
    BY <1>1
  <2>2. Kept - 1 - d - 1 \in Nat
    BY <1>1
  <2>3. (Kept - 1 - d - 1) * Room = y - Room
    BY <1>1, <1>2, <1>3
  <2> QED
    BY <1>1, <1>4, <2>1, <2>2, <2>3
<1> QED
  BY <1>4, <1>5, <1>6, <1>7, <1>8

(* What a frame written leaves in the ring: itself, and of the others only *)
(* what was there, under the same number.                                  *)
LEMMA FrameWritten ==
  ASSUME IInv, NEW len \in Lengths, NEW key \in Keys, WriteFrame(len, key),
         Accepted(len)
  PROVE  /\ len \in Int /\ len > 0 /\ len <= iMaxFrameSize
         /\ writer = "ready" /\ cutAt = INITIAL /\ uiFramePos \in Cells
         /\ HeadPlace(uiFramePos) /\ shm' \in [Cells -> Cell]
         /\ At(len) \in Framed'
         /\ shm'[At(len)] = FrameHead(len, key)
         /\ \A p \in Cells :
              /\ p # At(len) => shm'[p] = IF InHead(p, len)
                                          THEN Body(frameNo + 1)
                                          ELSE Cleared(len)[p]
              /\ shm'[p].magic /\ p # At(len) => p \in Framed
         /\ KeepsFrames(shm', len)
<1> USE RingAssumption
<1>1. /\ TypeOK /\ len \in Int /\ len > 0 /\ key \in BOOLEAN
      /\ len <= iMaxFrameSize
      /\ writer = "ready" /\ cutAt = INITIAL /\ cutAt' = INITIAL
      /\ WriterPlaced /\ HeadPlace(uiFramePos) /\ uiFramePos \in Int
      /\ shm' = Filled(len, key)
  BY DEF IInv, WriteFrame, WriterPlaced, CutHealed, TypeOK, Positions, Accepted
<1>2. At(len) \in Cells /\ uiFramePos \in Cells
  <2>1. uiFramePos \in Cells
    BY <1>1 DEF HeadPlace, Cells, START
  <2> QED
    BY <1>1, <2>1, Placement
<1>3. /\ shm' \in [Cells -> Cell] /\ shm'[At(len)] = FrameHead(len, key)
      /\ \A p \in Cells : p # At(len) =>
           shm'[p] = IF InHead(p, len) THEN Body(frameNo + 1)
                     ELSE Cleared(len)[p]
  BY <1>1, HeadStored
<1>4. KeepsFrames(shm', len)
  BY <1>1, FilledKeeps
<1>5. At(len) \in Framed'
  BY <1>1, <1>2, <1>3 DEF Framed, FrameHead, Cells, INITIAL, START
<1>6. \A p \in Cells : shm'[p].magic /\ p # At(len) => p \in Framed
  BY <1>4 DEF KeepsFrames
<1> QED
  BY <1>1, <1>2, <1>3, <1>4, <1>5, <1>6

(* A frame none of whose head's cells is stored over stays.                *)
LEMMA OtherFrameStays ==
  ASSUME IInv, NEW len \in Lengths, NEW key \in Keys, WriteFrame(len, key),
         Accepted(len),
         NEW p \in Framed, ~InHead(p, len), ~InPayload(p, len, len),
         ~InNextHead(p, len)
  PROVE  p \in Framed' /\ shm'[p].frame = shm[p].frame
<1> USE RingAssumption
<1>1. TypeOK /\ p \in Cells /\ shm[p].magic /\ cutAt' = cutAt /\ len \in Int
  BY DEF IInv, Framed, WriteFrame
<1>2. p # At(len)
  <2>1. At(len) \in Cells
    BY FrameWritten DEF Framed
  <2> QED
    BY <1>1, <2>1 DEF InHead, Cells
<1>3. shm'[p] = PatchNewest(shm, len)[p]
  <2>1. shm'[p] = Cleared(len)[p]
    BY <1>1, <1>2, FrameWritten
  <2> QED
    BY <1>1, <2>1, NextHeadCleared, PayloadStored
<1>4. shm'[p].magic /\ shm'[p].frame = shm[p].frame
  BY <1>1, <1>3, Patched
<1> QED
  BY <1>1, <1>4 DEF Framed

LEMMA WriteKeepsNear ==
  ASSUME IInv, KeptNear, NEW len \in Lengths, NEW key \in Keys,
         WriteFrame(len, key), Accepted(len)
  PROVE  KeptNear'
<1> USE RingAssumption
<1> DEFINE a == At(len)
<1>1. /\ len \in Int /\ len > 0 /\ len <= iMaxFrameSize
      /\ writer = "ready" /\ cutAt = INITIAL /\ cutAt' = INITIAL
      /\ HeadPlace(uiFramePos) /\ uiFramePos \in Int
      /\ frameNo \in Nat /\ base \in Nat /\ frameNo' = frameNo + 1
      /\ base' = base /\ uiFramePos' = After(len)
      /\ a \in Framed' /\ shm'[a].frame = frameNo + 1
  <2>1. shm'[a] = FrameHead(len, key)
    BY FrameWritten
  <2>2. frameNo \in Nat /\ base \in Nat
    BY DEF IInv, TypeOK
  <2>3. shm'[a].frame = frameNo + 1
    BY <2>1 DEF FrameHead
  <2> QED
    BY <2>2, <2>3, FrameWritten DEF WriteFrame, Cells
<1>2. /\ Room \in Int /\ Kept \in Int /\ Room = iMaxFrameSize + HEAD
      /\ Room >= HEAD + 1
      /\ (Kept + 1) * Room \in Int
      /\ (Kept + 1) * Room <= iShmSize - START - HEAD
  BY KeptFits DEF Room
<1> SUFFICES ASSUME NEW n \in base + 1 .. frameNo + 1, n > frameNo + 1 - Kept
             PROVE  \E p \in Framed' :
                      /\ shm'[p].frame = n
                      /\ \/ /\ p < After(len)
                            /\ After(len) - p <= (frameNo + 1 - n + 1) * Room
                         \/ p >= After(len) + HEAD
                                   + (Kept - 1 - (frameNo + 1 - n)) * Room
  <2>1. Kept' = Kept /\ Room' = Room
    BY DEF Kept, Room
  <2> SUFFICES ASSUME cutAt' = INITIAL, NEW n \in base' + 1 .. frameNo',
                      n > frameNo' - Kept
               PROVE  \E p \in Framed' :
                        shm'[p].frame = n /\ Near(p, frameNo - n)'
    BY <2>1 DEF KeptNear
  <2>2. n \in base + 1 .. frameNo + 1 /\ n > frameNo + 1 - Kept
    BY <1>1, <1>2
  <2> QED
    BY <1>1, <2>1, <2>2 DEF Near
<1>3. CASE n = frameNo + 1
  <2>1. /\ (0 + 1) * Room = Room
        /\ (Kept + 1) * Room = (0 + 1) * Room + (Kept - 1 - 0) * Room + Room
        /\ (Kept - 1 - 0) * Room \in Int
    BY <1>1, <1>2, RoomsAddUp
  <2>2. /\ frameNo + 1 - n + 1 = 0 + 1
        /\ Kept - 1 - (frameNo + 1 - n) = Kept - 1 - 0
    BY <1>1, <1>2, <1>3
  <2> DEFINE y == (Kept - 1 - 0) * Room
  <2>3. \/ a < After(len) /\ After(len) - a <= Room
        \/ a >= After(len) + HEAD + y
    <3> HIDE DEF y
    <3>1. (Kept + 1) * Room = Room + y + Room /\ y \in Int
      BY <1>2, <2>1 DEF y
    <3>2. CASE After(len) = a + HEAD + len
      BY <1>1, <1>2, <3>2, Placement DEF Cells, Accepted
    <3>3. CASE After(len) # a + HEAD + len
      <4>1. After(len) = START /\ ~Wraps(len) /\ a = uiFramePos
            /\ uiFramePos + HEAD + len + HEAD >= iShmSize
        BY <1>1, <3>3, Placement DEF After, At, Wraps, Accepted, START
      <4> QED
        BY <1>1, <1>2, <3>1, <4>1 DEF START
    <3> QED
      BY <3>2, <3>3
  <2> QED
    BY <1>1, <1>3, <2>1, <2>2, <2>3
<1>4. CASE n # frameNo + 1
  <2> DEFINE d == frameNo - n
             x == (d + 1) * Room
             y == (Kept - 1 - d) * Room
  <2>1. n \in base + 1 .. frameNo /\ n > frameNo - Kept /\ d \in Int
        /\ d + 1 < Kept
    BY <1>1, <1>2, <1>4
  <2>2. PICK p \in Framed :
          /\ shm[p].frame = n
          /\ \/ p < uiFramePos /\ uiFramePos - p <= x
             \/ p >= uiFramePos + HEAD + y
    BY <1>1, <2>1 DEF KeptNear, Near
  <2>3. /\ x \in Int /\ y \in Int /\ y >= Room
        /\ (Kept + 1) * Room = x + y + Room
        /\ (frameNo + 1 - n + 1) * Room = x + Room
        /\ (Kept - 1 - (frameNo + 1 - n)) * Room = y - Room
    <3>1. frameNo + 1 - n + 1 = d + 1 + 1 /\ frameNo + 1 - n = d + 1
      BY <1>1, <2>1
    <3> QED
      BY <2>1, <3>1, RoomsAddUp
  <2>4. p \in Int /\ p < iShmSize /\ p >= START
    BY <2>2 DEF Framed, Cells, START
  <2> HIDE DEF x, y, d
  <2>5. /\ ~InHead(p, len) /\ ~InPayload(p, len, len) /\ ~InNextHead(p, len)
        /\ \/ p < After(len) /\ After(len) - p <= x + Room
           \/ p >= After(len) + HEAD + (y - Room)
    <3>1. CASE Wraps(len)
      <4>1. a = START /\ After(len) = START + HEAD + len
            /\ uiFramePos + HEAD + len >= iShmSize
        BY <1>1, <3>1 DEF At, After, Wraps, START
      <4> QED
        BY <1>1, <1>2, <2>2, <2>3, <2>4, <4>1
        DEF InHead, InPayload, InNextHead, START
    <3>2. CASE ~Wraps(len) /\ After(len) = uiFramePos + HEAD + len
      <4>1. a = uiFramePos
        BY <3>2 DEF At
      <4> QED
        BY <1>1, <1>2, <2>2, <2>3, <2>4, <3>2, <4>1
        DEF InHead, InPayload, InNextHead
    <3>3. CASE ~Wraps(len) /\ After(len) # uiFramePos + HEAD + len
      <4>1. a = uiFramePos /\ After(len) = START
            /\ uiFramePos + HEAD + len + HEAD >= iShmSize
            /\ uiFramePos + HEAD + len < iShmSize
        BY <1>1, <3>3 DEF At, After, Wraps, START
      <4> QED
        BY <1>1, <1>2, <2>2, <2>3, <2>4, <4>1
        DEF InHead, InPayload, InNextHead, START
    <3> QED
      BY <3>1, <3>2, <3>3
  <2>6. p \in Framed' /\ shm'[p].frame = n
    BY <2>2, <2>5, OtherFrameStays
  <2> QED
    BY <2>3, <2>5, <2>6
<1> QED
  BY <1>3, <1>4

LEMMA StepKeepsNear ==
  ASSUME IInv, KeptNear, [Next]_ringVars
  PROVE  KeptNear'
<1>1. CASE InitShm \/ DetachWrite \/ UNCHANGED ringVars
  <2>1. UNCHANGED <<shm, uiFramePos, frameNo, base, cutAt>>
    BY <1>1 DEF InitShm, DetachWrite, ringVars
  <2> QED
    BY <2>1 DEF KeptNear, Near, Framed, Kept, Room
<1>2. CASE ShmWrite
  <2>1. base' = frameNo /\ frameNo' = frameNo /\ frameNo \in Nat
    BY <1>2 DEF ShmWrite, IInv, TypeOK
  <2>2. ~\E n \in frameNo + 1 .. frameNo : TRUE
    BY <2>1
  <2> QED
    BY <2>1, <2>2 DEF KeptNear
<1>3. ASSUME NEW len \in Lengths, NEW key \in Keys, WriteFrame(len, key)
      PROVE  KeptNear'
  <2>1. CASE Accepted(len)
    BY <1>3, <2>1, WriteKeepsNear
  <2>2. CASE ~Accepted(len)
    <3>1. UNCHANGED <<shm, uiFramePos, frameNo, base, cutAt>>
      BY <1>3, <2>2 DEF WriteFrame
    <3> QED
      BY <3>1 DEF KeptNear, Near, Framed, Kept, Room
  <2> QED
    BY <2>1, <2>2
<1>4. ASSUME NEW len \in Lengths, NEW key \in Keys, CrashInWriteFrame(len, key)
      PROVE  KeptNear'
  <2>1. cutAt' # INITIAL
    <3>1. IInv'
      BY <1>4, CrashKeeps
    <3>2. At(len) \in Cells
      BY <1>4, Placement, RingAssumption
      DEF CrashInWriteFrame, IInv, WriterPlaced, TypeOK, Positions, Accepted
    <3> QED
      BY <1>4, <3>2 DEF CrashInWriteFrame, Cells, START, INITIAL
  <2> QED
    BY <2>1 DEF KeptNear
<1> QED
  BY <1>1, <1>2, <1>3, <1>4 DEF Next, WriterNext, CrashNext

(* A reader at most Kept frames behind still finds its frame: however long *)
(* the frames are and wherever the ring wraps, the newest Kept frames are  *)
(* never written over or cleared.                                          *)
THEOREM NewestFramesKept == Spec => []NewestKept
<1>1. Init => KeptNear
  BY DEF Init, KeptNear
<1>2. IInv /\ KeptNear /\ [Next]_ringVars => KeptNear'
  BY StepKeepsNear
<1>3. KeptNear => NewestKept
  BY DEF KeptNear, NewestKept
<1> QED
  BY <1>1, <1>2, <1>3, RingInvariant, PTL DEF Spec

------------------------------------------------------------------------------
(* Going back.  The ShmHead names the last frame also while no writer      *)
(* lives, and a link back that still leads to a frame skips none.          *)

NewestStands ==
  cutAt = INITIAL /\ frameNo > base =>
    /\ uiNewestFramePos \in Framed
    /\ shm[uiNewestFramePos].frame = frameNo
    /\ shm[uiNewestFramePos].seq = uiNewestFrameSeq

BackLinks ==
  cutAt = INITIAL =>
    \A p \in Framed : shm[p].prev \in Framed =>
                        shm[shm[p].prev].frame >= shm[p].frame - 1

LEMMA WriteKeepsLinks ==
  ASSUME IInv, BackLinks, NEW len \in Lengths, NEW key \in Keys,
         WriteFrame(len, key), Accepted(len)
  PROVE  BackLinks'
<1> USE RingAssumption
<1> DEFINE a == At(len)
<1>1. /\ writer = "ready" /\ cutAt = INITIAL /\ frameNo \in Nat
      /\ a \in Framed' /\ shm'[a] = FrameHead(len, key)
      /\ \A p \in Framed : shm[p].frame > base /\ shm[p].frame <= frameNo
                           /\ shm[p].frame \in Nat
  BY FrameWritten DEF IInv, TypeOK, FramesNumbered, Framed, Cell
<1>2. shm'[a].frame = frameNo + 1 /\ shm'[a].prev = uiNewestFramePos
  BY <1>1 DEF FrameHead
<1>3. \A p \in Framed' : p # a =>
        /\ p \in Framed /\ shm'[p].frame = shm[p].frame
        /\ shm'[p].prev = shm[p].prev
  BY FrameWritten DEF KeepsFrames, Framed, Cells
<1> HIDE DEF a
<1> SUFFICES ASSUME NEW p \in Framed', NEW q \in Framed', q = shm'[p].prev
             PROVE  shm'[q].frame >= shm'[p].frame - 1
  BY DEF BackLinks
<1>4. CASE q = a
  BY <1>1, <1>2, <1>3, <1>4
<1>5. CASE q # a /\ p # a
  BY <1>1, <1>3, <1>5 DEF BackLinks
<1>6. CASE q # a /\ p = a
  <2>1. q = uiNewestFramePos /\ q \in Framed /\ shm'[q].frame = shm[q].frame
    BY <1>2, <1>3, <1>6
  <2>2. frameNo > base /\ base \in Nat
    BY <1>1, <2>1 DEF IInv, TypeOK
  <2>3. shm[q].frame = frameNo
    BY <1>1, <2>1, <2>2 DEF IInv, NewestValid
  <2> QED
    BY <1>1, <1>2, <1>6, <2>1, <2>3
<1> QED
  BY <1>4, <1>5, <1>6

(* What cannot happen without a frame more, or the ring emptied.           *)
LEMMA QuietRing ==
  ASSUME IInv, [Next]_ringVars, frameNo' = frameNo, cutAt' = INITIAL,
         frameNo' > base'
  PROVE  UNCHANGED <<shm, uiNewestFramePos, uiNewestFrameSeq, frameNo, base,
                     cutAt>>
<1>1. frameNo \in Nat
  BY DEF IInv, TypeOK
<1>2. CASE InitShm \/ DetachWrite \/ UNCHANGED ringVars
  BY <1>2 DEF InitShm, DetachWrite, ringVars
<1>3. CASE ShmWrite
  BY <1>1, <1>3 DEF ShmWrite
<1>4. ASSUME NEW len \in Lengths, NEW key \in Keys, WriteFrame(len, key)
      PROVE  UNCHANGED <<shm, uiNewestFramePos, uiNewestFrameSeq, frameNo,
                         base, cutAt>>
  BY <1>1, <1>4 DEF WriteFrame
<1>5. ASSUME NEW len \in Lengths, NEW key \in Keys, CrashInWriteFrame(len, key)
      PROVE  FALSE
  BY <1>1, <1>5 DEF CrashInWriteFrame
<1> QED
  BY <1>2, <1>3, <1>4, <1>5 DEF Next, WriterNext, CrashNext

LEMMA StepKeepsLinks ==
  ASSUME IInv, BackLinks, NewestStands, [Next]_ringVars
  PROVE  BackLinks' /\ NewestStands'
<1> USE RingAssumption
<1>1. CASE cutAt' # INITIAL
  BY <1>1 DEF BackLinks, NewestStands
<1>2. CASE frameNo' = frameNo /\ frameNo' > base' /\ cutAt' = INITIAL
  <2>1. UNCHANGED <<shm, uiNewestFramePos, uiNewestFrameSeq, frameNo, base,
                    cutAt>>
    BY <1>2, QuietRing
  <2> QED
    BY <2>1 DEF BackLinks, NewestStands, Framed, Cells
<1>3. IInv'
  BY NextKeeps
<1>4. CASE ~(frameNo' > base')
  <2>1. \A p \in Framed' : FALSE
    BY <1>3, <1>4 DEF IInv, TypeOK, FramesNumbered, Framed, Cell
  <2> QED
    BY <1>4, <2>1 DEF BackLinks, NewestStands
<1>5. CASE frameNo' # frameNo /\ frameNo' > base' /\ cutAt' = INITIAL
  <2>1. ASSUME NEW len \in Lengths, NEW key \in Keys, CrashInWriteFrame(len, key)
        PROVE  FALSE
    <3>1. At(len) \in Cells
      BY <2>1, Placement
      DEF CrashInWriteFrame, IInv, WriterPlaced, TypeOK, Positions, Accepted
    <3> QED
      BY <1>5, <2>1, <3>1 DEF CrashInWriteFrame, Cells, START, INITIAL
  <2>2. PICK len \in Lengths, key \in Keys :
          WriteFrame(len, key) /\ Accepted(len)
    BY <1>5, <2>1 DEF Next, WriterNext, CrashNext, InitShm, ShmWrite,
                      DetachWrite, WriteFrame, ringVars
  <2>3. writer' = "ready"
    BY <2>2 DEF WriteFrame
  <2> QED
    BY <1>3, <1>5, <2>2, <2>3, WriteKeepsLinks DEF IInv, NewestValid,
                                                   NewestStands
<1> QED
  BY <1>1, <1>2, <1>4, <1>5

LEMMA InitLinks == Init => BackLinks /\ NewestStands
  BY DEF Init, BackLinks, NewestStands, Framed, Zero

------------------------------------------------------------------------------
(* The numbers of the frames.  They say more while sequence numbers have   *)
(* not started over at MAX_SEQUENCE, which takes 2^31 frames.              *)

FewFrames == 2 * (MaxFrames + 2) < MAX_SEQUENCE

(* Where a read finds one whole frame, the head a writer died over         *)
(* included.                                                               *)
Whole(p) == \A q \in Extent(p) : q \in Cells /\ shm[q].frame = shm[p].frame

Readable(p) == p \in Cells /\ shm[p].magic /\ Whole(p)

(* The writer and the ShmHead count the frames since the last format.      *)
Counters ==
  /\ frameNo <= MaxFrames
  /\ writer = "ready" => uiFrameSeq = frameNo - base
  /\ uiNewestFrameSeq =
       (IF cutAt = INITIAL THEN frameNo ELSE frameNo - 1) - base
  /\ writer = "ready" \/ frameNo # 0 => uiNewestFramePos \in Cells

(* Every head names a length and neighbours in the ring.                   *)
HeadsFilled ==
  \A p \in Cells : shm[p].magic =>
    /\ shm[p].size > 0 /\ shm[p].size <= iMaxFrameSize
    /\ shm[p].next \in Cells /\ shm[p].prev \in Cells

CellsNumbered == \A p \in Cells : shm[p].frame <= frameNo

(* A frame carries its number since the last format.                       *)
SeqNumbered ==
  \A p \in Cells : Readable(p) =>
    shm[p].frame > base /\ shm[p].seq = shm[p].frame - base

(* Links lead forward for a reader that has not caught up, also when the   *)
(* writer died after it patched the newest one.                            *)
ReadableForward ==
  \A p \in Cells :
    Readable(p) /\ shm[p].seq < uiNewestFrameSeq /\ Readable(shm[p].next) =>
      shm[shm[p].next].frame > shm[p].frame

NumInv ==
  Counters /\ HeadsFilled /\ CellsNumbered /\ SeqNumbered /\ ReadableForward

(* Without an interrupted head the readable frames are the framed ones.    *)
LEMMA FramedReadable ==
  ASSUME IInv
  PROVE  /\ \A p \in Framed : Readable(p)
         /\ cutAt = INITIAL => \A p : Readable(p) => p \in Framed
<1> USE RingAssumption
<1>1. ASSUME NEW p \in Framed PROVE Readable(p)
  <2>1. p \in Cells /\ shm[p].magic /\ shm[p].size \in Nat
    BY DEF Framed, IInv, TypeOK, Cell
  <2>2. /\ p + HEAD + shm[p].size <= iShmSize
        /\ \A q \in Extent(p) : shm[q].frame = shm[p].frame
    BY DEF IInv, FramesIntact
  <2>3. \A q \in Extent(p) : q \in Cells
    BY <2>1, <2>2 DEF Extent, Cells, START
  <2> QED
    BY <2>1, <2>2, <2>3 DEF Readable, Whole
<1>2. ASSUME cutAt = INITIAL, NEW p, Readable(p) PROVE p \in Framed
  BY <1>2 DEF Readable, Framed, Cells, INITIAL, START
<1> QED
  BY <1>1, <1>2

(* The sequence number that follows, while numbers do not start over.      *)
LEMMA NumberNext ==
  ASSUME TypeOK, FewFrames, Counters, writer = "ready", frameNo < MaxFrames
  PROVE  NextSequence = frameNo + 1 - base
  BY RingAssumption DEF TypeOK, FewFrames, Counters, NextSequence

LEMMA WriteNumbers ==
  ASSUME IInv, NumInv, FewFrames, NEW len \in Lengths, NEW key \in Keys,
         WriteFrame(len, key), Accepted(len)
  PROVE  NumInv'
<1> USE RingAssumption
<1> DEFINE a == At(len)
<1>1. /\ TypeOK /\ len \in Int /\ len > 0 /\ len <= iMaxFrameSize
      /\ writer = "ready" /\ cutAt = INITIAL /\ frameNo < MaxFrames
      /\ frameNo \in Nat /\ base \in Nat /\ base <= frameNo
      /\ KeepsFrames(shm', len) /\ HeadPlace(uiFramePos) /\ uiFramePos \in Int
      /\ shm' \in [Cells -> Cell]
  BY FrameWritten DEF IInv, WriteFrame, TypeOK, BaseBehind, Cells
<1>2. /\ frameNo' = frameNo + 1 /\ base' = base /\ cutAt' = INITIAL
      /\ uiNewestFramePos' = a /\ writer' = "ready"
      /\ uiFrameSeq' = frameNo + 1 - base
      /\ uiNewestFrameSeq' = frameNo + 1 - base
  BY <1>1, NumberNext DEF WriteFrame, NumInv
<1>3. a \in Cells /\ After(len) \in Cells /\ a \in Framed'
  BY <1>1, Placement, FrameWritten
<1>4. /\ shm'[a].frame = frameNo + 1 /\ shm'[a].seq = frameNo + 1 - base
      /\ shm'[a].size = len /\ shm'[a].prev = uiNewestFramePos
      /\ shm'[a].next = After(len)
  <2>1. shm'[a] = FrameHead(len, key)
    BY FrameWritten
  <2>2. NextSequence = frameNo + 1 - base
    BY <1>1, NumberNext DEF NumInv
  <2> QED
    BY <2>1, <2>2 DEF FrameHead
<1>5. \A p \in Cells : shm'[p].magic /\ p # a =>
        /\ p \in Framed /\ shm[p].magic /\ Readable(p)
        /\ shm'[p].frame = shm[p].frame /\ shm'[p].size = shm[p].size
        /\ shm'[p].seq = shm[p].seq /\ shm'[p].prev = shm[p].prev
        /\ shm'[p].next = START \/ shm'[p].next = shm[p].next
  BY <1>1, FramedReadable DEF KeepsFrames, Framed
<1>6. IInv'
  BY WriteFrameKeeps
<1>7. Counters'
  BY <1>1, <1>2, <1>3 DEF Counters
<1>8. HeadsFilled'
  <2> SUFFICES ASSUME NEW p \in Cells, shm'[p].magic
               PROVE  /\ shm'[p].size > 0 /\ shm'[p].size <= iMaxFrameSize
                      /\ shm'[p].next \in Cells /\ shm'[p].prev \in Cells
    BY DEF HeadsFilled
  <2>1. START \in Cells /\ uiNewestFramePos \in Cells
    BY <1>1 DEF NumInv, Counters, Cells, START
  <2>2. CASE p = a
    BY <1>1, <1>3, <1>4, <2>1, <2>2
  <2>3. CASE p # a
    BY <1>5, <2>1, <2>3 DEF NumInv, HeadsFilled
  <2> QED
    BY <2>2, <2>3
<1>9. CellsNumbered'
  <2> SUFFICES ASSUME NEW p \in Cells PROVE shm'[p].frame <= frameNo + 1
    BY <1>2 DEF CellsNumbered
  <2>1. shm[p].frame \in Nat /\ shm[p].frame <= frameNo
    BY <1>1 DEF TypeOK, Cell, NumInv, CellsNumbered
  <2>2. PatchNewest(shm, len)[p].frame = shm[p].frame
    BY <1>1, Patched
  <2>3. Payload(len, len)[p].frame \in {frameNo + 1, shm[p].frame}
    BY <1>1, <2>2, PayloadStored, CellsStored
  <2>4. Cleared(len)[p].frame \in {frameNo + 1, shm[p].frame, 0}
    BY <1>1, <2>3, NextHeadCleared, CellsStored
  <2>5. shm'[p].frame \in {frameNo + 1, shm[p].frame, 0}
    BY <1>1, <1>4, <2>4, FrameWritten, CellsStored
  <2> QED
    BY <1>1, <2>1, <2>5
<1>10. SeqNumbered'
  <2> SUFFICES ASSUME NEW p \in Cells, shm'[p].magic
               PROVE  shm'[p].frame > base /\ shm'[p].seq = shm'[p].frame - base
    BY <1>2 DEF SeqNumbered, Readable
  <2>1. CASE p = a
    BY <1>1, <1>4, <2>1
  <2>2. CASE p # a
    BY <1>5, <2>2 DEF NumInv, SeqNumbered
  <2> QED
    BY <2>1, <2>2
<1>11. ReadableForward'
  <2>1. \A p \in Cells : Readable(p)' => p \in Framed'
    BY <1>2, <1>6, FramedReadable DEF Readable, Framed, Cells, START, INITIAL
  <2>2. LinksGoForward'
    BY <1>6 DEF IInv
  <2>3. \A p \in Cells : Readable(shm[p].next)' => (shm'[p].next \in Framed')
    BY <1>2 DEF Readable, Framed, Cells, START, INITIAL
  <2> QED
    BY <1>2, <2>1, <2>2, <2>3 DEF ReadableForward, LinksGoForward
<1> QED
  BY <1>7, <1>8, <1>9, <1>10, <1>11 DEF NumInv

(* What the cell holds that the head of an interrupted frame starts at:    *)
(* what it held before, a link patched; a head that no read takes for a    *)
(* whole frame; or the whole head.                                         *)
LEMMA CutHead ==
  ASSUME IInv, CellsNumbered, NEW len \in Lengths, NEW key \in Keys,
         CrashInWriteFrame(len, key)
  PROVE  LET a == At(len)
         IN  /\ a \in Cells /\ After(len) \in Cells /\ cutAt' = a
             /\ len > 0 /\ len <= iMaxFrameSize /\ len \in Int
             /\ shm' \in [Cells -> Cell] /\ KeepsFrames(shm', len)
             /\ \A p \in Cells : shm'[p].frame <= frameNo + 1
             /\ \/ /\ shm'[a].magic = shm[a].magic
                   /\ shm'[a].frame = shm[a].frame
                   /\ shm'[a].seq = shm[a].seq /\ shm'[a].size = shm[a].size
                   /\ shm'[a].prev = shm[a].prev
                   /\ \/ shm'[a].next = shm[a].next
                      \/ shm'[a].next = START /\ a = uiNewestFramePos
                \/ /\ \A p : p = a => ~Readable(p)'
                   /\ shm'[a].size = len /\ shm'[a].next = After(len)
                   /\ shm'[a].prev = uiNewestFramePos
                \/ shm'[a] = FrameHead(len, key)
<1> USE RingAssumption
<1> DEFINE a == At(len)
           Old(c) == /\ c.magic = shm[a].magic
                     /\ c.frame = shm[a].frame
                     /\ c.seq = shm[a].seq /\ c.size = shm[a].size
                     /\ c.prev = shm[a].prev
                     /\ \/ c.next = shm[a].next
                        \/ c.next = START /\ a = uiNewestFramePos
<1>1. /\ TypeOK /\ WriterPlaced /\ len \in Int /\ len > 0
      /\ len <= iMaxFrameSize /\ key \in BOOLEAN
      /\ Accepted(len) /\ writer = "ready" /\ cutAt = INITIAL
      /\ frameNo \in Nat /\ uiFramePos \in Int /\ HeadPlace(uiFramePos)
      /\ cutAt' = a
  BY DEF IInv, CrashInWriteFrame, CutHealed, TypeOK, WriterPlaced, Accepted,
         Positions
<1>2. /\ a \in Cells /\ After(len) \in Cells /\ a + HEAD + len < iShmSize
      /\ HeadPlace(After(len)) /\ (a = START \/ a >= START + HEAD)
      /\ \/ After(len) = a + HEAD + len
         \/ After(len) = START /\ a >= START + HEAD
  BY <1>1, Placement
<1>3. \A p \in Cells : shm[p].frame \in Nat /\ shm[p].frame <= frameNo
  BY <1>1 DEF TypeOK, Cell, CellsNumbered
<1>4. /\ ~InNextHead(a, len)
      /\ \A n \in 0 .. len : ~InPayload(a, len, n)
  BY <1>1, <1>2 DEF InPayload, InNextHead, Cells, HeadPlace
<1>5. \A p \in Cells : PatchNewest(shm, len)[p].frame = shm[p].frame
  BY <1>1, Patched
<1>6. ASSUME NEW n \in 0 .. len
      PROVE  /\ Payload(len, n) \in [Cells -> Cell]
             /\ KeepsFrames(Payload(len, n), len)
             /\ Old(Payload(len, n)[a])
             /\ \A p \in Cells :
                  Payload(len, n)[p].frame \in {frameNo + 1, shm[p].frame}
  <2>1. /\ Payload(len, n) \in [Cells -> Cell]
        /\ \A p \in Cells :
             Payload(len, n)[p] = IF InPayload(p, len, n) THEN Body(frameNo + 1)
                                  ELSE PatchNewest(shm, len)[p]
    <3>1. n \in Int
      BY <1>1
    <3> QED
      BY <1>1, <3>1, PayloadStored
  <2>2. KeepsFrames(Payload(len, n), len)
    BY <1>1, PayloadKeeps
  <2>3. Payload(len, n)[a] = PatchNewest(shm, len)[a]
    BY <1>2, <1>4, <2>1
  <2>4. Old(Payload(len, n)[a])
    BY <1>1, <1>2, <2>3, Patched
  <2> QED
    BY <1>1, <1>5, <2>1, <2>2, <2>4, CellsStored
<1>7. /\ Cleared(len) \in [Cells -> Cell] /\ KeepsFrames(Cleared(len), len)
      /\ Cleared(len)[a] = Payload(len, len)[a]
      /\ \A p \in Cells :
           Cleared(len)[p].frame \in {frameNo + 1, shm[p].frame, 0}
  <2>1. KeepsFrames(Cleared(len), len)
    BY <1>1, ClearedKeeps
  <2> QED
    BY <1>1, <1>2, <1>4, <1>6, <2>1, NextHeadCleared, CellsStored
<1>8. CASE \E n \in 0 .. len : shm' = Payload(len, n)
  BY <1>1, <1>2, <1>3, <1>6, <1>8
<1>9. CASE shm' = Cleared(len)
  <2>1. Old(shm'[a])
    BY <1>1, <1>6, <1>7, <1>9
  <2> QED
    BY <1>1, <1>2, <1>3, <1>7, <1>9, <2>1
<1>10. CASE shm' = Filled(len, key)
  <2>1. /\ Filled(len, key) \in [Cells -> Cell]
        /\ Filled(len, key)[a] = FrameHead(len, key)
        /\ \A p \in Cells : p # a =>
             Filled(len, key)[p] = IF InHead(p, len) THEN Body(frameNo + 1)
                                   ELSE Cleared(len)[p]
    BY <1>1, HeadStored
  <2>2. KeepsFrames(Filled(len, key), len)
    BY <1>1, FilledKeeps
  <2>3. FrameHead(len, key).frame = frameNo + 1
    BY DEF FrameHead
  <2>4. \A p \in Cells :
          Filled(len, key)[p].frame \in {frameNo + 1, shm[p].frame, 0}
    BY <1>1, <1>7, <2>1, <2>3, CellsStored
  <2> QED
    BY <1>1, <1>2, <1>3, <1>10, <2>1, <2>2, <2>4
<1>11. CASE \E magic \in {shm[At(len)].magic, TRUE} :
              shm' = [Cleared(len) EXCEPT ![At(len)] = HeadInPart(len, magic)]
  <2>1. PICK magic \in {shm[At(len)].magic, TRUE} :
          shm' = [Cleared(len) EXCEPT ![At(len)] = HeadInPart(len, magic)]
    BY <1>11
  <2> DEFINE old == Cleared(len)[a]
             c   == HeadInPart(len, magic)
  <2>2. old \in Cell /\ old.key \in BOOLEAN /\ old.frame \in Nat
        /\ old.frame <= frameNo
    <3>1. old.frame = shm[a].frame
      BY <1>1, <1>6, <1>7
    <3> QED
      BY <1>2, <1>3, <1>7, <3>1 DEF Cell
  <2>3. magic \in BOOLEAN
    BY <1>1, <1>2 DEF TypeOK, Cell
  <2>4. /\ c \in Cell /\ c.frame = old.frame /\ c.size = len
        /\ c.next = After(len) /\ c.prev = uiNewestFramePos
    <3>1. FrameHead(len, old.key) \in Cell
      BY <1>1, <2>2, HeadStored
    <3>2. /\ FrameHead(len, old.key).size = len
          /\ FrameHead(len, old.key).next = After(len)
          /\ FrameHead(len, old.key).prev = uiNewestFramePos
      BY DEF FrameHead
    <3> QED
      BY <2>2, <2>3, <3>1, <3>2 DEF HeadInPart, Cell
  <2>5. /\ shm' \in [Cells -> Cell]
        /\ shm'[a] = c
        /\ \A p \in Cells : p # a => shm'[p] = Cleared(len)[p]
        /\ \A p \in Cells : shm'[p].frame = Cleared(len)[p].frame
    BY <1>2, <1>7, <2>1, <2>4
  <2>6. KeepsFrames(shm', len)
    <3>1. \A p \in Framed : \A q \in Extent(p) : q \in Cells
      BY FramedReadable DEF Readable, Whole
    <3> QED
      BY <1>7, <2>5, <3>1 DEF KeepsFrames
  <2>7. \A p : p = a => ~Readable(p)'
    <3> SUFFICES ASSUME NEW p, p = a, Readable(p)' PROVE FALSE
      OBVIOUS
    <3>0. shm'[p].size = len
      BY <2>4, <2>5
    <3>1. a + HEAD \in Extent(p)'
      BY <1>1, <1>2, <3>0 DEF Extent, Cells
    <3>2. shm'[a + HEAD].frame = shm'[a].frame
      BY <3>1 DEF Readable, Whole
    <3>3. a + HEAD \in Cells /\ InPayload(a + HEAD, len, len)
          /\ ~InNextHead(a + HEAD, len)
      BY <1>1, <1>2 DEF InPayload, InNextHead, Cells, HeadPlace, START
    <3>4. Cleared(len)[a + HEAD].frame = frameNo + 1
      BY <1>1, <3>3, NextHeadCleared, PayloadStored, CellsStored
    <3> QED
      BY <1>1, <2>2, <2>4, <2>5, <3>2, <3>3, <3>4
  <2>8. \A p \in Cells : shm'[p].frame <= frameNo + 1
    BY <1>1, <1>3, <1>7, <2>5
  <2> QED
    BY <1>1, <1>2, <2>4, <2>5, <2>6, <2>7, <2>8
<1> QED
  BY <1>8, <1>9, <1>10, <1>11 DEF CrashInWriteFrame, CutShort

(* A frame found after the interrupted write was found before, or is it.   *)
LEMMA CrashFinds ==
  ASSUME IInv, NumInv, FewFrames, NEW len \in Lengths, NEW key \in Keys,
         CrashInWriteFrame(len, key)
  PROVE  \A p \in Cells : Readable(p)' =>
             \/ /\ p \in Framed /\ Readable(p)
                /\ shm'[p].frame = shm[p].frame /\ shm'[p].seq = shm[p].seq
                /\ \/ shm'[p].next = START /\ p = uiNewestFramePos
                   \/ shm'[p].next = shm[p].next
             \/ shm'[p].frame = frameNo + 1 /\ shm'[p].seq = frameNo + 1 - base
<1> USE RingAssumption
<1> DEFINE a == At(len)
           Old == /\ shm'[a].magic = shm[a].magic
                  /\ shm'[a].frame = shm[a].frame
                  /\ shm'[a].seq = shm[a].seq /\ shm'[a].size = shm[a].size
                  /\ shm'[a].prev = shm[a].prev
                  /\ \/ shm'[a].next = shm[a].next
                     \/ shm'[a].next = START /\ a = uiNewestFramePos
           Part == /\ \A p : p = a => ~Readable(p)'
                   /\ shm'[a].size = len /\ shm'[a].next = After(len)
                   /\ shm'[a].prev = uiNewestFramePos
           All == /\ shm'[a].frame = frameNo + 1
                  /\ shm'[a].seq = frameNo + 1 - base
                  /\ shm'[a].size = len /\ shm'[a].next = After(len)
                  /\ shm'[a].prev = uiNewestFramePos
<1>1. /\ TypeOK /\ writer = "ready" /\ cutAt = INITIAL
      /\ frameNo < MaxFrames /\ frameNo \in Nat /\ base \in Nat
      /\ base <= frameNo
      /\ frameNo' = frameNo + 1 /\ base' = base /\ writer' = "none"
      /\ uiNewestFrameSeq' = uiNewestFrameSeq
      /\ uiNewestFramePos' \in {uiNewestFramePos, a}
  BY DEF IInv, CrashInWriteFrame, CutHealed, TypeOK, BaseBehind
<1>2. /\ a \in Cells /\ After(len) \in Cells /\ cutAt' = a
      /\ len > 0 /\ len <= iMaxFrameSize
      /\ KeepsFrames(shm', len)
      /\ \A p \in Cells : shm'[p].frame <= frameNo + 1
  BY CutHead DEF NumInv
<1>3. Old \/ Part \/ All
  <2>1. FrameHead(len, key).seq = frameNo + 1 - base
    BY <1>1, NumberNext DEF FrameHead, NumInv
  <2>2. /\ FrameHead(len, key).frame = frameNo + 1
        /\ FrameHead(len, key).size = len
        /\ FrameHead(len, key).next = After(len)
        /\ FrameHead(len, key).prev = uiNewestFramePos
    BY DEF FrameHead
  <2>3. shm'[a] = FrameHead(len, key) => All
    BY <2>1, <2>2
  <2> QED
    BY <2>3, CutHead DEF NumInv
<1> HIDE DEF a
<1>4. \A p \in Cells : shm'[p].magic /\ p # a =>
        /\ p \in Framed /\ shm[p].magic /\ Readable(p)
        /\ shm'[p].frame = shm[p].frame /\ shm'[p].size = shm[p].size
        /\ shm'[p].seq = shm[p].seq /\ shm'[p].prev = shm[p].prev
        /\ \/ shm'[p].next = START /\ p = uiNewestFramePos
           \/ shm'[p].next = shm[p].next
  BY <1>2, FramedReadable DEF KeepsFrames, Framed, a
<1>5. a # INITIAL /\ START \in Cells /\ uiNewestFramePos \in Cells
  BY <1>1, <1>2 DEF Cells, START, INITIAL, NumInv, Counters
<1> SUFFICES ASSUME NEW p \in Cells, Readable(p)', p = a, ~All
             PROVE  /\ p \in Framed /\ Readable(p)
                    /\ shm'[p].frame = shm[p].frame
                    /\ shm'[p].seq = shm[p].seq
                    /\ \/ shm'[p].next = START /\ p = uiNewestFramePos
                       \/ shm'[p].next = shm[p].next
  BY <1>4 DEF Readable
<1>6. Old
  BY <1>3
<1>7. shm[p].magic
  BY <1>6 DEF Readable
<1>8. p \in Framed
  BY <1>1, <1>5, <1>7 DEF Framed
<1> QED
  BY <1>6, <1>8, FramedReadable

LEMMA CrashNumbers ==
  ASSUME IInv, NumInv, FewFrames, NEW len \in Lengths, NEW key \in Keys,
         CrashInWriteFrame(len, key)
  PROVE  NumInv'
<1> USE RingAssumption
<1> DEFINE a == At(len)
           Old == /\ shm'[a].magic = shm[a].magic
                  /\ shm'[a].frame = shm[a].frame
                  /\ shm'[a].seq = shm[a].seq /\ shm'[a].size = shm[a].size
                  /\ shm'[a].prev = shm[a].prev
                  /\ \/ shm'[a].next = shm[a].next
                     \/ shm'[a].next = START /\ a = uiNewestFramePos
           Part == /\ \A p : p = a => ~Readable(p)'
                   /\ shm'[a].size = len /\ shm'[a].next = After(len)
                   /\ shm'[a].prev = uiNewestFramePos
           All == /\ shm'[a].frame = frameNo + 1
                  /\ shm'[a].seq = frameNo + 1 - base
                  /\ shm'[a].size = len /\ shm'[a].next = After(len)
                  /\ shm'[a].prev = uiNewestFramePos
<1>1. /\ TypeOK /\ writer = "ready" /\ cutAt = INITIAL
      /\ frameNo < MaxFrames /\ frameNo \in Nat /\ base \in Nat
      /\ base <= frameNo
      /\ frameNo' = frameNo + 1 /\ base' = base /\ writer' = "none"
      /\ uiNewestFrameSeq' = uiNewestFrameSeq
      /\ uiNewestFramePos' \in {uiNewestFramePos, a}
  BY DEF IInv, CrashInWriteFrame, CutHealed, TypeOK, BaseBehind
<1>2. /\ a \in Cells /\ After(len) \in Cells /\ cutAt' = a
      /\ len > 0 /\ len <= iMaxFrameSize
      /\ KeepsFrames(shm', len)
      /\ \A p \in Cells : shm'[p].frame <= frameNo + 1
  BY CutHead DEF NumInv
<1>3. Old \/ Part \/ All
  <2>1. FrameHead(len, key).seq = frameNo + 1 - base
    BY <1>1, NumberNext DEF FrameHead, NumInv
  <2>2. /\ FrameHead(len, key).frame = frameNo + 1
        /\ FrameHead(len, key).size = len
        /\ FrameHead(len, key).next = After(len)
        /\ FrameHead(len, key).prev = uiNewestFramePos
    BY DEF FrameHead
  <2>3. shm'[a] = FrameHead(len, key) => All
    BY <2>1, <2>2
  <2> QED
    BY <2>3, CutHead DEF NumInv
<1> HIDE DEF a
<1>4. \A p \in Cells : shm'[p].magic /\ p # a =>
        /\ p \in Framed /\ shm[p].magic /\ Readable(p)
        /\ shm'[p].frame = shm[p].frame /\ shm'[p].size = shm[p].size
        /\ shm'[p].seq = shm[p].seq /\ shm'[p].prev = shm[p].prev
        /\ \/ shm'[p].next = START /\ p = uiNewestFramePos
           \/ shm'[p].next = shm[p].next
  BY <1>2, FramedReadable DEF KeepsFrames, Framed, a
<1>5. a # INITIAL /\ START \in Cells /\ uiNewestFramePos \in Cells
  BY <1>1, <1>2 DEF Cells, START, INITIAL, NumInv, Counters
<1>6. Counters'
  BY <1>1, <1>2, <1>5 DEF Counters, NumInv
<1>7. HeadsFilled'
  <2> SUFFICES ASSUME NEW p \in Cells, shm'[p].magic
               PROVE  /\ shm'[p].size > 0 /\ shm'[p].size <= iMaxFrameSize
                      /\ shm'[p].next \in Cells /\ shm'[p].prev \in Cells
    BY DEF HeadsFilled
  <2>1. CASE p = a
    BY <1>2, <1>3, <1>5, <2>1 DEF NumInv, HeadsFilled
  <2>2. CASE p # a
    BY <1>4, <1>5, <2>2 DEF NumInv, HeadsFilled
  <2> QED
    BY <2>1, <2>2
<1>8. CellsNumbered'
  BY <1>1, <1>2 DEF CellsNumbered
<1>9. \A p \in Cells : Readable(p)' =>
        \/ /\ p \in Framed /\ Readable(p)
           /\ shm'[p].frame = shm[p].frame /\ shm'[p].seq = shm[p].seq
           /\ \/ shm'[p].next = START /\ p = uiNewestFramePos
              \/ shm'[p].next = shm[p].next
        \/ shm'[p].frame = frameNo + 1 /\ shm'[p].seq = frameNo + 1 - base
  BY CrashFinds
<1>10. SeqNumbered'
  BY <1>1, <1>9 DEF SeqNumbered, NumInv
<1>11. ReadableForward'
  <2> SUFFICES ASSUME NEW p \in Cells, Readable(p)',
                      shm'[p].seq < uiNewestFrameSeq, Readable(shm[p].next)'
               PROVE  shm'[shm'[p].next].frame > shm'[p].frame
    BY <1>1 DEF ReadableForward
  <2>1. uiNewestFrameSeq = frameNo - base
    BY <1>1 DEF NumInv, Counters
  <2>2. /\ p \in Framed /\ Readable(p) /\ shm'[p].frame = shm[p].frame
        /\ shm'[p].seq = shm[p].seq
    BY <1>1, <1>9, <2>1
  <2>3. shm[p].frame \in Nat /\ shm[p].frame <= frameNo /\ shm[p].frame > base
        /\ shm[p].seq = shm[p].frame - base
    BY <1>1, <2>2 DEF TypeOK, Cell, IInv, FramesNumbered, NumInv, SeqNumbered
  <2>4. p # uiNewestFramePos
    BY <1>1, <2>1, <2>2, <2>3 DEF IInv, NewestValid
  <2>5. shm'[p].next = shm[p].next
    BY <1>1, <1>9, <2>1, <2>2, <2>3, <2>4
  <2>6. PICK q \in Cells : q = shm[p].next /\ Readable(q)'
    <3>1. shm[p].next \in Cells
      BY <2>2 DEF NumInv, HeadsFilled, Readable
    <3> QED
      BY <2>5, <3>1 DEF Readable, Whole, Extent
  <2>7. CASE q \in Framed /\ shm'[q].frame = shm[q].frame
    BY <1>1, <2>2, <2>5, <2>6, <2>7 DEF IInv, LinksGoForward
  <2>8. CASE shm'[q].frame = frameNo + 1
    BY <1>1, <2>2, <2>3, <2>5, <2>6, <2>8
  <2> QED
    BY <1>9, <2>6, <2>7, <2>8
<1> QED
  BY <1>6, <1>7, <1>8, <1>10, <1>11 DEF NumInv

LEMMA FormatNumbers ==
  ASSUME IInv, NumInv, ShmWrite
  PROVE  NumInv'
<1> USE RingAssumption
<1>1. /\ \A p \in Cells : shm'[p] = Zero
      /\ base' = frameNo /\ frameNo' = frameNo /\ cutAt' = INITIAL
      /\ uiFrameSeq' = 0 /\ uiNewestFrameSeq' = 0
      /\ uiNewestFramePos' = START
      /\ frameNo \in Nat
  BY DEF ShmWrite, INITIAL, IInv, TypeOK
<1>2. ~Zero.magic /\ Zero.frame = 0
  BY DEF Zero
<1>3. Counters'
  BY <1>1 DEF NumInv, Counters, Cells, START
<1>4. HeadsFilled' /\ CellsNumbered'
  BY <1>1, <1>2 DEF HeadsFilled, CellsNumbered
<1>5. SeqNumbered' /\ ReadableForward'
  BY <1>1, <1>2 DEF SeqNumbered, ReadableForward, Readable
<1> QED
  BY <1>3, <1>4, <1>5 DEF NumInv

LEMMA IdleNumbers ==
  ASSUME NumInv, InitShm \/ DetachWrite \/ UNCHANGED ringVars
  PROVE  NumInv'
<1>1. /\ UNCHANGED <<shm, uiNewestFramePos, uiNewestFrameSeq, uiFramePos,
                     uiFrameSeq, frameNo, base, cutAt>>
      /\ writer' = "ready" => writer = "ready"
  BY DEF InitShm, DetachWrite, ringVars
<1>2. Counters'
  BY <1>1 DEF NumInv, Counters
<1>3. HeadsFilled' /\ CellsNumbered'
  BY <1>1 DEF NumInv, HeadsFilled, CellsNumbered
<1>4. SeqNumbered' /\ ReadableForward'
  BY <1>1 DEF NumInv, SeqNumbered, ReadableForward, Readable, Whole, Extent
<1> QED
  BY <1>2, <1>3, <1>4 DEF NumInv

LEMMA StepNumbers ==
  ASSUME IInv, NumInv, FewFrames, [Next]_ringVars
  PROVE  NumInv'
<1>1. CASE InitShm \/ DetachWrite \/ UNCHANGED ringVars
  BY <1>1, IdleNumbers
<1>2. CASE ShmWrite
  BY <1>2, FormatNumbers
<1>3. ASSUME NEW len \in Lengths, NEW key \in Keys, WriteFrame(len, key)
      PROVE  NumInv'
  <2>1. CASE Accepted(len)
    BY <1>3, <2>1, WriteNumbers
  <2>2. CASE ~Accepted(len)
    <3>1. UNCHANGED ringVars
      BY <1>3, <2>2 DEF WriteFrame, ringVars
    <3> QED
      BY <3>1, IdleNumbers
  <2> QED
    BY <2>1, <2>2
<1>4. ASSUME NEW len \in Lengths, NEW key \in Keys, CrashInWriteFrame(len, key)
      PROVE  NumInv'
  BY <1>4, CrashNumbers
<1> QED
  BY <1>1, <1>2, <1>3, <1>4 DEF Next, WriterNext, CrashNext

LEMMA InitNumbers == Init => NumInv
<1> SUFFICES ASSUME Init PROVE NumInv
  OBVIOUS
<1>1. /\ \A p \in Cells : shm[p] = Zero
      /\ frameNo = 0 /\ base = 0 /\ uiNewestFrameSeq = 0 /\ cutAt = INITIAL
      /\ writer = "none"
  BY DEF Init, INITIAL
<1>2. ~Zero.magic /\ Zero.frame = 0
  BY DEF Zero
<1>3. Counters
  BY <1>1, RingAssumption DEF Counters
<1>4. HeadsFilled /\ CellsNumbered
  BY <1>1, <1>2 DEF HeadsFilled, CellsNumbered
<1>5. SeqNumbered /\ ReadableForward
  BY <1>1, <1>2 DEF SeqNumbered, ReadableForward, Readable
<1> QED
  BY <1>3, <1>4, <1>5 DEF NumInv

(* A frame a reader finds it would have found before, or has just been     *)
(* written.                                                                *)
LEMMA FoundBefore ==
  ASSUME IInv, NumInv, FewFrames, [Next]_ringVars
  PROVE  /\ frameNo' \in {frameNo, frameNo + 1} /\ base' \in {base, frameNo}
         /\ base' = frameNo => frameNo' = frameNo \/ base' = base
         /\ \A p : Readable(p)' =>
              \/ shm'[p].frame = frameNo + 1 /\ frameNo' = frameNo + 1
              \/ /\ Readable(p) /\ shm'[p].frame = shm[p].frame
                 /\ cutAt = INITIAL \/ UNCHANGED <<cutAt, uiNewestFrameSeq>>
<1>1. CASE InitShm \/ DetachWrite \/ UNCHANGED ringVars
  <2>1. UNCHANGED <<shm, uiNewestFrameSeq, frameNo, base, cutAt>>
    BY <1>1 DEF InitShm, DetachWrite, ringVars
  <2>2. \A p : Readable(p)' => Readable(p)
    BY <2>1 DEF Readable, Whole, Extent
  <2> QED
    BY <2>1, <2>2
<1>2. CASE ShmWrite
  <2>1. /\ \A p \in Cells : shm'[p] = Zero
        /\ frameNo' = frameNo /\ base' = frameNo
    BY <1>2 DEF ShmWrite
  <2>2. \A p : ~Readable(p)'
    BY <2>1 DEF Readable, Zero
  <2> QED
    BY <2>1, <2>2
<1>3. ASSUME NEW len \in Lengths, NEW key \in Keys, WriteFrame(len, key),
             Accepted(len)
      PROVE  /\ frameNo' = frameNo + 1 /\ base' = base /\ cutAt = INITIAL
             /\ \A p : Readable(p)' =>
                  \/ shm'[p].frame = frameNo + 1
                  \/ Readable(p) /\ shm'[p].frame = shm[p].frame
  <2>1. frameNo' = frameNo + 1 /\ base' = base
    BY <1>3 DEF WriteFrame
  <2>2. /\ cutAt = INITIAL /\ shm'[At(len)] = FrameHead(len, key)
        /\ KeepsFrames(shm', len)
    BY <1>3, FrameWritten
  <2>3. \A p \in Cells : shm'[p].magic =>
          \/ shm'[p].frame = frameNo + 1
          \/ p \in Framed /\ shm'[p].frame = shm[p].frame
    BY <2>2 DEF KeepsFrames, FrameHead
  <2> QED
    BY <2>1, <2>2, <2>3, FramedReadable DEF Readable
<1>4. ASSUME NEW len \in Lengths, NEW key \in Keys, CrashInWriteFrame(len, key)
      PROVE  /\ frameNo' = frameNo + 1 /\ base' = base /\ cutAt = INITIAL
             /\ \A p : Readable(p)' =>
                  \/ shm'[p].frame = frameNo + 1
                  \/ Readable(p) /\ shm'[p].frame = shm[p].frame
  <2>1. frameNo' = frameNo + 1 /\ base' = base /\ cutAt = INITIAL
    BY <1>4 DEF CrashInWriteFrame, IInv, CutHealed
  <2>2. \A p : Readable(p)' => p \in Cells
    BY DEF Readable
  <2> QED
    BY <1>4, <2>1, <2>2, CrashFinds
<1>5. ASSUME NEW len \in Lengths, NEW key \in Keys, WriteFrame(len, key),
             ~Accepted(len)
      PROVE  UNCHANGED ringVars
  BY <1>5 DEF WriteFrame, ringVars
<1> QED
  BY <1>1, <1>2, <1>3, <1>4, <1>5 DEF Next, WriterNext, CrashNext

(* What the frames and the ShmHead are numbered by holds of the ring while *)
(* sequence numbers do not start over: the difference of two is the number *)
(* of frames between, and links lead forward after a crash as well.        *)
THEOREM RingNumbers ==
  ASSUME FewFrames
  PROVE  Spec => []NumInv
<1>1. Init => NumInv
  BY InitNumbers
<1>2. IInv /\ NumInv /\ [Next]_ringVars => NumInv'
  BY StepNumbers
<1> QED
  BY <1>1, <1>2, RingInvariant, PTL DEF Spec
==============================================================================

---------------------------- MODULE ShmApiProofs -----------------------------
(***************************************************************************)
(* Proofs about the readers of ShmApi, for every ring, every number of ids *)
(* and every bound: what a read hands over is one whole frame.  They rest  *)
(* on the invariant of the ring, which no reader can disturb.              *)
(***************************************************************************)
EXTENDS ShmApi, ShmRingProofs, DataInduction

(* A step of the composed system is a step of the ring or none.            *)
LEMMA RingOnly == [ApiNext]_vars => [Next]_ringVars
  BY DEF ApiNext, WriterStep, ReaderNext, Next, vars

THEOREM ApiRingInvariant == ApiSpec => []IInv
<1>1. ApiInit => IInv
  BY InitIInv DEF ApiInit
<1>2. IInv /\ [ApiNext]_vars => IInv'
  BY RingOnly, NextKeeps
<1> QED
  BY <1>1, <1>2, PTL DEF ApiSpec

(* What follows a magic number is copied as one frame: the ShmHead passes  *)
(* for a frame too, but for one too large to be copied.                    *)
LEMMA WholeFrameHanded ==
  ASSUME IInv, cutAt = INITIAL, NEW p,
         FrameAt(p).magic, FrameAt(p).size <= iMaxFrameSize
  PROVE  Handed(p) # Torn
<1> USE RingAssumption
<1>1. p \in Cells
  <2>1. CASE p \notin Cells /\ p = INITIAL
    <3>1. FrameAt(p).size = iShmSize
      BY <2>1 DEF FrameAt
    <3> QED
      BY <3>1 DEF START
  <2>2. CASE p \notin Cells /\ p # INITIAL
    <3>1. FrameAt(p) = Zero
      BY <2>2 DEF FrameAt
    <3> QED
      BY <3>1 DEF Zero
  <2> QED
    BY <2>1, <2>2
<1>2. FrameAt(p) = shm[p]
  BY <1>1 DEF FrameAt, Cells, INITIAL, START
<1>3. p \in Framed
  BY <1>1, <1>2 DEF Framed, Cells, INITIAL, START
<1>4. shm[p].size \in Nat /\ shm[p].frame \in Nat
  BY <1>1 DEF IInv, TypeOK, Cell
<1>5. \A q \in Extent(p) : q \in Cells /\ shm[q].frame = shm[p].frame
  BY <1>1, <1>3, <1>4 DEF IInv, FramesIntact, Extent, Cells, START
<1> QED
  BY <1>4, <1>5 DEF Handed, Torn

(* So does ReadFrame, from any position and sequence number.               *)
LEMMA ReadHandsWholeFrames ==
  ASSUME IInv, cutAt = INITIAL, NEW pos, NEW seq, NEW buf,
         ReadFrame(pos, seq, buf).rtn = "GET_A_NEW_FRAME"
  PROVE  ReadFrame(pos, seq, buf).frame # Torn
<1> DEFINE p == CheckOverflowed(pos, seq)
           f == FrameAt(p)
<1>1. /\ ~(uiNewestFrameSeq < seq)
      /\ f.magic /\ ~(f.size > iMaxFrameSize) /\ ~(f.size > buf)
  BY DEF ReadFrame, Outcome, Lost, NotFound, KeepLarge
<1>2. ReadFrame(pos, seq, buf).frame = Handed(p)
  BY <1>1 DEF ReadFrame, Outcome
<1>3. f.size <= iMaxFrameSize
  <2>1. f.size \in Int
    BY RingAssumption DEF IInv, TypeOK, FrameAt, Cell, Zero
  <2> QED
    BY <1>1, <2>1, RingAssumption
<1> QED
  BY <1>1, <1>2, <1>3, WholeFrameHanded

(* A call that repositions an id reports itself, if anything, and hands    *)
(* over nothing.                                                           *)
LEMMA MovedReturns ==
  ASSUME NEW rtn, NEW pos, NEW seq,
         Moved(rtn, pos, seq) \/ Refreshed(rtn, pos, seq)
  PROVE  ret'.op \in {"none", call.op} /\ ret'.got = 0
<1>1. Silent => ret'.op = "none" /\ ret'.got = 0
  BY DEF Silent, NoReturn
<1>2. \A r, p, n, key : Return(r, p, n, 0, key) =>
                          ret'.op = call.op /\ ret'.got = 0
  BY DEF Return
<1>3. Reposition(rtn, pos, seq) => ret'.op = call.op /\ ret'.got = 0
  BY <1>2 DEF Reposition
<1>4. Refreshed(rtn, pos, seq) => ret'.op \in {"none", call.op} /\ ret'.got = 0
  BY <1>1, <1>2, <1>3 DEF Refreshed
<1> QED
  BY <1>3, <1>4 DEF Moved

(* A step of a call reports that call, if any.                             *)
LEMMA CallStepReturns ==
  ASSUME CallStep
  PROVE  /\ ret'.op \in {"none", call.op}
         /\ ~ReadStep => ret'.got = 0
<1>0. Silent => ret'.op = "none" /\ ret'.got = 0
  BY DEF Silent, NoReturn
<1>1. CASE RefreshStep
  BY <1>0, <1>1, MovedReturns DEF RefreshStep
<1>2. CASE NewestExtrasStep
  BY <1>0, <1>2, MovedReturns DEF NewestExtrasStep
<1>3. CASE ExtrasStep
  BY <1>0, <1>3, MovedReturns DEF ExtrasStep
<1>4. CASE MoveEmptyStep
  BY <1>0, <1>4, MovedReturns DEF MoveEmptyStep, GiveUp
<1>5. CASE MoveStep
  BY <1>0, <1>5, MovedReturns DEF MoveStep, GiveUp
<1>6. CASE ReadEmptyStep
  BY <1>0, <1>6 DEF ReadEmptyStep, Return
<1>7. CASE ReadStep
  BY <1>7 DEF ReadStep, Return
<1> QED
  BY <1>1, <1>2, <1>3, <1>4, <1>5, <1>6, <1>7 DEF CallStep

(* No other call hands over a frame.                                       *)
LEMMA OthersHandNothing ==
  ASSUME ReaderNext, ~ReadStep
  PROVE  ~(ret'.op = "read" /\ ret'.got = Torn)
<1>0. Silent => ret'.op = "none"
  BY DEF Silent, NoReturn
<1>1. CASE InitID \/ BeginCall
  <2>1. \A i, op, at, c : Begin(i, op, at, c) => Silent
    BY DEF Begin
  <2>2. BeginCall => Silent
    BY <2>1, Zenon DEF BeginCall, BeginRead, BeginRefresh, BeginMove
  <2> QED
    BY <1>0, <1>1, <2>2 DEF InitID
<1>2. CASE \/ \E i \in Ids : CopyID(i) \/ RemoveID(i) \/ Distance(i)
                               \/ FrameExtras(i)
           \/ \E i, j \in Ids : i # j /\ Compare(i, j)
  <2>1. ASSUME NEW i \in Ids, CopyID(i) \/ RemoveID(i)
        PROVE  ret'.op = "none"
    BY <1>0, <2>1 DEF CopyID, RemoveID
  <2>2. ASSUME NEW i \in Ids, Distance(i)
        PROVE  ret'.op = "distance"
    BY <2>2 DEF Distance, NoReturn
  <2>3. ASSUME NEW i \in Ids, FrameExtras(i)
        PROVE  ret'.op = "extras"
    BY <2>3 DEF FrameExtras, NoReturn
  <2>4. ASSUME NEW i \in Ids, NEW j \in Ids, Compare(i, j)
        PROVE  ret'.op = "compare"
    BY <2>4 DEF Compare, NoReturn
  <2> QED
    BY <1>2, <2>1, <2>2, <2>3, <2>4
<1>3. CASE CallStep
  BY <1>3, CallStepReturns DEF Torn
<1> QED
  BY <1>1, <1>2, <1>3 DEF ReaderNext

LEMMA StepHandsWholeFrames ==
  ASSUME IInv, TornOnlyAfterCrash, [ApiNext]_vars
  PROVE  TornOnlyAfterCrash'
<1>1. CASE WriterStep
  BY <1>1 DEF WriterStep, Silent, NoReturn, TornOnlyAfterCrash, Got
<1>2. CASE ReaderNext /\ ReadStep
  <2>1. cutAt' = cutAt
    BY <1>2 DEF ReaderNext, ringVars
  <2> DEFINE r == ReadFrame(ids[call.id].pos, ids[call.id].seq, call.buf)
  <2>2. ret'.rtn = r.rtn /\ ret'.got = r.frame
    BY <1>2 DEF ReadStep, Return
  <2>3. r.rtn = "GET_A_NEW_FRAME" /\ r.frame = Torn => cutAt # INITIAL
    BY ReadHandsWholeFrames
  <2> QED
    BY <2>1, <2>2, <2>3 DEF TornOnlyAfterCrash, Got, INITIAL
<1>3. CASE ReaderNext /\ ~ReadStep
  BY <1>3, OthersHandNothing DEF TornOnlyAfterCrash, Got
<1>4. CASE UNCHANGED vars
  BY <1>4 DEF TornOnlyAfterCrash, Got, vars, apiVars, ringVars
<1> QED
  BY <1>1, <1>2, <1>3, <1>4 DEF ApiNext

(* Only a writer that died inside WriteFrame can make a read hand over     *)
(* bytes of two frames, whatever position and number the id was left with. *)
THEOREM NoTornFrames == ApiSpec => []TornOnlyAfterCrash
<1>1. ApiInit => TornOnlyAfterCrash
  BY DEF ApiInit, NoReturn, TornOnlyAfterCrash, Got
<1>2. IInv /\ TornOnlyAfterCrash /\ [ApiNext]_vars => TornOnlyAfterCrash'
  BY StepHandsWholeFrames
<1> QED
  BY <1>1, <1>2, ApiRingInvariant, PTL DEF ApiSpec

------------------------------------------------------------------------------
(* Types.  The calls are records of fixed shape, and the one that holds    *)
(* the mutex is about an id that lives.                                    *)

Places == Positions \union {Inside}

IdType == [live: BOOLEAN, pos: Places, seq: Nat]

CallType ==
  [op: {"none", "read", "refresh", "back", "forward"}, id: Nat,
   at: {"idle", "refresh", "newest", "extras", "moveEmpty", "move", "empty",
        "read"},
   rtn: {"OK", "ERROR"}, steps: Int, keyed: BOOLEAN, back: BOOLEAN, moved: BOOLEAN,
   extra: {"unset", "key", "normal"}, bakPos: Places, bakSeq: Nat, buf: Nat,
   fresh: BOOLEAN, began: Nat, stood: Nat, asked: Nat,
   last: Nat \union {Torn}]

CallTyped ==
  /\ call \in CallType
  /\ call.op = "none" <=> call.at = "idle"
  /\ call.op # "none" => call.id \in Ids /\ ids[call.id].live
  /\ call.at \in {"refresh", "newest"} => call.op \in {"read", "refresh"}
  /\ call.at \in {"empty", "read"} => call.op = "read"

RetTyped == ret.stands \in Nat /\ ret.got \in Int

ApiTyped ==
  /\ ids \in [Ids -> IdType]
  /\ CallTyped
  /\ seen \in [Ids -> Nat \union {Torn}]
  /\ RetTyped

LEMMA TypedIsTypeOK == ApiTyped => ApiTypeOK
  BY DEF ApiTyped, ApiTypeOK, CallTyped, CallType, RetTyped, IdType, Places

(* What a read through the struct of a frame head gives, wherever it is.   *)
LEMMA FrameAtTyped ==
  ASSUME TypeOK, NEW p
  PROVE  /\ FrameAt(p).magic \in BOOLEAN /\ FrameAt(p).frame \in Nat
         /\ FrameAt(p).seq \in Nat /\ FrameAt(p).size \in Nat
         /\ FrameAt(p).prev \in Positions /\ FrameAt(p).next \in Places
         /\ FrameAt(p).key \in BOOLEAN
<1> USE RingAssumption
<1>1. INITIAL \in Positions /\ \A x \in Positions : x \in Places
  BY DEF Places, Positions, INITIAL, START
<1>2. CASE p \in Cells
  <2>1. FrameAt(p) = shm[p] /\ shm[p] \in Cell
    BY <1>2 DEF FrameAt, TypeOK, Cells, INITIAL, START
  <2> QED
    BY <1>1, <2>1 DEF Cell
<1>3. CASE p \notin Cells /\ p = INITIAL
  <2> DEFINE f == [magic |-> TRUE, frame |-> 0, seq |-> FarSequence,
                   size |-> iShmSize, prev |-> uiNewestFramePos,
                   next |-> IF uiNewestFrameSeq = 0 THEN INITIAL ELSE Inside,
                   key |-> FALSE]
  <2>1. FrameAt(p) = f
    BY <1>3 DEF FrameAt
  <2>2. FarSequence \in Nat
    BY DEF FarSequence
  <2>3. f.next \in Places
    BY <1>1 DEF Places
  <2> QED
    BY <2>1, <2>2, <2>3 DEF TypeOK
<1>4. CASE p \notin Cells /\ p # INITIAL
  <2>1. FrameAt(p) = Zero
    BY <1>4 DEF FrameAt
  <2> QED
    BY <1>1, <2>1 DEF Zero
<1> QED
  BY <1>2, <1>3, <1>4

LEMMA OverflowTyped ==
  ASSUME NEW pos \in Places, NEW seq
  PROVE  CheckOverflowed(pos, seq) \in {pos, START} /\ START \in Places
  BY RingAssumption DEF CheckOverflowed, Places, Positions, START

LEMMA StandingTyped ==
  ASSUME TypeOK, NEW pos, NEW seq
  PROVE  Standing(pos, seq) \in Nat
<1>1. FrameAt(CheckOverflowed(pos, seq)).frame \in Nat
  BY FrameAtTyped
<1>2. frameNo + 1 \in Nat
  BY DEF TypeOK
<1> QED
  BY <1>1, <1>2 DEF Standing

(* What the operations of a ShmRead object give back.                      *)
LEMMA ReadTyped ==
  ASSUME TypeOK, NEW pos \in Places, NEW seq \in Nat, NEW buf
  PROVE  LET r == ReadFrame(pos, seq, buf)
         IN  /\ r.pos \in Places /\ r.seq \in Nat
             /\ r.frame \in Nat \union {Torn}
<1> DEFINE p == CheckOverflowed(pos, seq)
           f == FrameAt(p)
<1>1. /\ f.next \in Places /\ f.seq \in Nat /\ p \in Places
      /\ INITIAL \in Places
  BY FrameAtTyped, OverflowTyped, RingAssumption
  DEF Places, Positions, INITIAL, START
<1>2. Following(f) \in Nat
  BY <1>1 DEF Following
<1>3. f.size <= iMaxFrameSize /\ f.magic => Handed(p) \in Nat \union {Torn}
  <2> SUFFICES ASSUME f.size <= iMaxFrameSize, f.magic
               PROVE  Handed(p) \in Nat \union {Torn}
    OBVIOUS
  <2>1. p \in Cells
    <3>1. CASE p \notin Cells /\ p = INITIAL
      BY <3>1, RingAssumption DEF FrameAt, START
    <3>2. CASE p \notin Cells /\ p # INITIAL
      BY <3>2 DEF FrameAt, Zero
    <3> QED
      BY <3>1, <3>2
  <2>2. shm[p].frame \in Nat
    BY <2>1 DEF TypeOK, Cell
  <2> QED
    BY <2>2 DEF Handed
<1>4. \/ ReadFrame(pos, seq, buf) = Lost
      \/ ReadFrame(pos, seq, buf) = Outcome("NO_NEW_FRAME", pos, seq, 0)
      \/ ReadFrame(pos, seq, buf) =
           Outcome("FRAME_TOO_LARGE", f.next, Following(f), 0)
      \/ ReadFrame(pos, seq, buf) = Outcome("FRAME_TOO_LARGE", p, seq, 0)
      \/ /\ f.magic /\ f.size <= iMaxFrameSize
         /\ ReadFrame(pos, seq, buf) =
              Outcome("GET_A_NEW_FRAME", f.next, Following(f), Handed(p))
  <2>1. f.size \in Nat /\ f.magic \in BOOLEAN
    BY FrameAtTyped
  <2>2. ~(f.size > iMaxFrameSize) => f.size <= iMaxFrameSize
    BY <2>1, RingAssumption
  <2> QED
    BY <2>1, <2>2 DEF ReadFrame, NotFound, KeepLarge
<1>5. p \in Places /\ pos \in Places /\ seq \in Nat /\ INITIAL \in Nat
      /\ 0 \in Nat \union {Torn}
  BY <1>1 DEF INITIAL
<1> HIDE DEF p, f
<1> QED
  BY <1>1, <1>2, <1>3, <1>4, <1>5 DEF Outcome, Lost

LEMMA MoveTyped ==
  ASSUME TypeOK, NEW pos \in Places, NEW seq \in Nat
  PROVE  /\ MoveForward(pos, seq).pos \in Places
         /\ MoveForward(pos, seq).seq \in Nat
         /\ MoveBack(pos, seq).pos \in Places
         /\ MoveBack(pos, seq).seq \in Nat
         /\ Refresh.pos \in Places /\ Refresh.seq \in Nat
         /\ Refresh.rtn \in {"OK", "ERROR"}
<1>0. uiNewestFramePos \in Places /\ uiNewestFrameSeq \in Nat
      /\ INITIAL \in Places /\ INITIAL \in Nat
  BY RingAssumption DEF TypeOK, Places, Positions, INITIAL, START
<1>1. /\ MoveForward(pos, seq).pos \in Places
      /\ MoveForward(pos, seq).seq \in Nat
  <2> DEFINE r == ReadFrame(pos, seq, iMaxFrameSize)
  <2>1. r.pos \in Places /\ r.seq \in Nat
    BY ReadTyped
  <2>2. /\ DOMAIN r = {"rtn", "pos", "seq", "frame"}
    BY DEF ReadFrame, Outcome, Lost, NotFound, KeepLarge
  <2> HIDE DEF r
  <2>3. MoveForward(pos, seq) =
          [r EXCEPT !.rtn = IF @ = "GET_A_NEW_FRAME" THEN "OK" ELSE "ERROR"]
    BY DEF MoveForward, r
  <2> QED
    BY <2>1, <2>2, <2>3
<1>2. MoveBack(pos, seq).pos \in Places /\ MoveBack(pos, seq).seq \in Nat
  <2> DEFINE f == FrameAt(CheckOverflowed(pos, seq))
  <2>1. f.prev \in Places /\ FrameAt(f.prev).seq \in Nat
        /\ FrameAt(uiNewestFramePos).seq \in Nat
    BY FrameAtTyped DEF Places
  <2> HIDE DEF f
  <2>2. \/ MoveBack(pos, seq) = Outcome("OK", uiNewestFramePos,
                                         FrameAt(uiNewestFramePos).seq, 0)
        \/ MoveBack(pos, seq) = Outcome("OK", uiNewestFramePos,
                                         uiNewestFrameSeq, 0)
        \/ MoveBack(pos, seq) = Outcome("OK", f.prev, FrameAt(f.prev).seq, 0)
        \/ MoveBack(pos, seq) = Lost
    BY DEF MoveBack, f
  <2> QED
    BY <1>0, <2>1, <2>2 DEF Outcome, Lost
<1>3. Refresh.pos \in Places /\ Refresh.seq \in Nat
      /\ Refresh.rtn \in {"OK", "ERROR"}
  BY <1>0 DEF Refresh, Outcome
<1> QED
  BY <1>1, <1>2, <1>3

LEMMA DistanceTyped ==
  ASSUME TypeOK, NEW pos, NEW seq \in Nat, NEW a \in Nat, NEW b \in Nat
  PROVE  Distance2Newest(pos, seq) \in Int /\ SeqDistance(a, b) \in Int
<1>1. \A x \in Nat, y \in Nat : SeqDistance(x, y) \in Int
  BY RingAssumption DEF SeqDistance
<1> QED
  BY <1>1 DEF Distance2Newest, TypeOK

(* An id that is moved stays one, and no other changes.                    *)
LEMMA MoveToMoves ==
  ASSUME ids \in [Ids -> IdType], call.id \in Ids,
         NEW pos \in Places, NEW seq \in Nat, MoveTo(pos, seq)
  PROVE  /\ ids' \in [Ids -> IdType]
         /\ ids'[call.id].live = ids[call.id].live
         /\ ids'[call.id].pos = pos /\ ids'[call.id].seq = seq
         /\ \A j \in Ids : j # call.id => ids'[j] = ids[j]
  BY DEF MoveTo, IdType

(* The search for a free id finds one.                                     *)
LEMMA FirstFreeFree ==
  ASSUME Ids # Live
  PROVE  FirstFree \in Ids \ Live
<1>1. Live \subseteq Ids /\ Ids \subseteq Nat
  BY ApiAssumption DEF Live
<1>2. Ids \ Live \in SUBSET Nat /\ Ids \ Live # {}
  BY <1>1
<1>3. \E i \in Ids \ Live : \A j \in Ids \ Live : i <= j
  BY <1>2, LeastOf
<1> QED
  BY <1>3 DEF FirstFree

(* How a call goes on, and how one that was repositioned ends or, if it    *)
(* was to read, goes on.                                                   *)
Continues(at) ==
  /\ call' \in CallType /\ call'.at = at
  /\ call'.op = call.op /\ call'.id = call.id /\ call'.last = call.last
  /\ ret' = NoReturn

Settled(rtn) ==
  \/ /\ call.op # "read" /\ call' = NoCall
     /\ RetTyped' /\ ret'.op = call.op
     /\ seen' = IF rtn = "ERROR" /\ call.op # "refresh" THEN seen
                ELSE [seen EXCEPT ![call.id] = 0]
  \/ /\ call.op = "read" /\ seen' = seen
     /\ \/ call' = NoCall /\ RetTyped' /\ ret'.rtn = "NO_FRAME"
        \/ Continues("empty") /\ RetTyped' /\ call'.bakPos = call.bakPos

LEMMA NoCallTyped ==
  /\ NoCall \in CallType /\ NoCall.op = "none" /\ NoCall.at = "idle"
  /\ NoReturn.stands \in Nat /\ NoReturn.got \in Int
  /\ NoReturn.op = "none"
<1>1. INITIAL \in Places /\ INITIAL \in Nat
  BY RingAssumption DEF Places, Positions, INITIAL, START
<1> QED
  BY <1>1 DEF NoCall, CallType, NoReturn

LEMMA CallGoesOn ==
  ASSUME call \in CallType,
         NEW at \in {"idle", "refresh", "newest", "extras", "moveEmpty",
                     "move", "empty", "read"},
         call' = [call EXCEPT !.at = at], Silent
  PROVE  /\ Continues(at) /\ RetTyped'
         /\ call'.bakPos = call.bakPos /\ call'.bakSeq = call.bakSeq
  BY NoCallTyped DEF CallType, Continues, Silent, RetTyped

LEMMA ReturnTyped ==
  ASSUME TypeOK, NEW rtn, NEW pos, NEW seq, NEW got \in Int, NEW key,
         Return(rtn, pos, seq, got, key)
  PROVE  /\ call' = NoCall /\ RetTyped'
         /\ ret'.op = call.op /\ ret'.rtn = rtn /\ ret'.got = got
         /\ ret'.last = call.last
  BY StandingTyped DEF Return, RetTyped

LEMMA RefreshedSettles ==
  ASSUME TypeOK, call \in CallType, call.op \in {"read", "refresh"},
         NEW rtn, NEW pos, NEW seq, Refreshed(rtn, pos, seq)
  PROVE  Settled(rtn)
<1>1. CASE call.op = "refresh"
  <2>1. Reposition(rtn, pos, seq)
    BY <1>1 DEF Refreshed
  <2> QED
    BY <1>1, <2>1, ReturnTyped DEF Reposition, Settled
<1>2. CASE call.op = "read" /\ rtn = "ERROR"
  <2>1. seen' = seen /\ Return("NO_FRAME", pos, seq, 0, FALSE)
    BY <1>2 DEF Refreshed
  <2>2. call' = NoCall /\ RetTyped' /\ ret'.rtn = "NO_FRAME"
    BY <2>1, StandingTyped DEF Return, RetTyped
  <2> QED
    BY <1>2, <2>1, <2>2 DEF Settled
<1>3. CASE call.op = "read" /\ rtn # "ERROR"
  <2>1. seen' = seen /\ call' = [call EXCEPT !.at = "empty"] /\ Silent
    BY <1>3 DEF Refreshed
  <2> QED
    BY <1>3, <2>1, CallGoesOn DEF Settled
<1> QED
  BY <1>1, <1>2, <1>3

LEMMA MovedSettles ==
  ASSUME TypeOK, call \in CallType, call.op # "none",
         NEW rtn, NEW pos, NEW seq, Moved(rtn, pos, seq)
  PROVE  Settled(rtn)
<1>1. CASE call.op \in {"back", "forward"}
  <2>1. Reposition(rtn, pos, seq)
    BY <1>1 DEF Moved
  <2> QED
    BY <1>1, <2>1, ReturnTyped DEF Reposition, Settled
<1>2. CASE call.op \notin {"back", "forward"}
  <2>1. Refreshed(rtn, pos, seq) /\ call.op \in {"read", "refresh"}
    BY <1>2 DEF Moved, CallType
  <2> QED
    BY <2>1, RefreshedSettles
<1> QED
  BY <1>1, <1>2

(* The steps of a call: where each leaves the id, and how it goes on.      *)

LEMMA RefreshStepShape ==
  ASSUME TypeOK, ApiTyped, RefreshStep
  PROVE  /\ MoveTo(Refresh.pos, Refresh.seq)
         /\ \/ Continues("newest") /\ RetTyped' /\ seen' = seen
            \/ Settled(Refresh.rtn)
<1>1. /\ call \in CallType /\ call.at = "refresh"
      /\ call.op \in {"read", "refresh"}
  BY DEF RefreshStep, ApiTyped, CallTyped
<1>2. CASE call.keyed
  <2>1. /\ call' = [call EXCEPT !.at = "newest", !.rtn = Refresh.rtn]
        /\ Silent /\ seen' = seen
    BY <1>2 DEF RefreshStep
  <2>2. Refresh.rtn \in {"OK", "ERROR"}
    BY DEF Refresh, Outcome
  <2>3. Continues("newest") /\ RetTyped'
    BY <1>1, <2>1, <2>2, NoCallTyped
    DEF CallType, Continues, Silent, RetTyped
  <2> QED
    BY <2>1, <2>3 DEF RefreshStep
<1>3. CASE ~call.keyed
  BY <1>1, <1>3, RefreshedSettles DEF RefreshStep
<1> QED
  BY <1>2, <1>3

LEMMA NewestStepShape ==
  ASSUME TypeOK, ApiTyped, NewestExtrasStep
  PROVE  /\ ids' = ids
         /\ \/ /\ Continues("extras") /\ RetTyped' /\ seen' = seen
               /\ call'.bakPos = ids[call.id].pos
               /\ call'.bakSeq = ids[call.id].seq
            \/ Settled(call.rtn)
<1>1. /\ call \in CallType /\ call.at = "newest"
      /\ call.op \in {"read", "refresh"} /\ call.id \in Ids
      /\ ids \in [Ids -> IdType]
  BY DEF NewestExtrasStep, ApiTyped, CallTyped
<1>2. PICK extra \in ExtrasSeen :
        IF extra = "key"
        THEN Refreshed(call.rtn, ids[call.id].pos, ids[call.id].seq)
        ELSE /\ call' = [call EXCEPT !.at = "extras", !.steps = 1,
                                     !.back = TRUE,
                                     !.bakPos = ids[call.id].pos,
                                     !.bakSeq = ids[call.id].seq]
             /\ Silent /\ UNCHANGED seen
  BY DEF NewestExtrasStep
<1>3. CASE extra = "key"
  BY <1>1, <1>2, <1>3, RefreshedSettles DEF NewestExtrasStep
<1>4. CASE extra # "key"
  <2> DEFINE pos == ids[call.id].pos
             seq == ids[call.id].seq
  <2>1. pos \in Places /\ seq \in Nat
    BY <1>1 DEF IdType
  <2>2. /\ call' = [call EXCEPT !.at = "extras", !.steps = 1, !.back = TRUE,
                                !.bakPos = pos, !.bakSeq = seq]
        /\ Silent /\ seen' = seen
    BY <1>2, <1>4
  <2> HIDE DEF pos, seq
  <2> DEFINE stepping == [call EXCEPT !.at = "extras", !.steps = 1,
                                      !.back = TRUE]
  <2>3. stepping \in CallType
    <3>0. \A c \in CallType : [c EXCEPT !.at = "extras"] \in CallType
      BY DEF CallType
    <3>a. \A c \in CallType : [c EXCEPT !.steps = 1] \in CallType
      BY DEF CallType
    <3>b. [call EXCEPT !.at = "extras", !.steps = 1]
            = [[call EXCEPT !.at = "extras"] EXCEPT !.steps = 1]
      OBVIOUS
    <3>1. [call EXCEPT !.at = "extras", !.steps = 1] \in CallType
      BY <1>1, <3>0, <3>a, <3>b
    <3>2. \A c \in CallType : [c EXCEPT !.back = TRUE] \in CallType
      BY DEF CallType
    <3>3. stepping = [[call EXCEPT !.at = "extras", !.steps = 1]
                        EXCEPT !.back = TRUE]
      OBVIOUS
    <3> QED
      BY <3>1, <3>2, <3>3
  <2>4. /\ stepping.at = "extras" /\ stepping.op = call.op
        /\ stepping.id = call.id /\ stepping.last = call.last
    BY <1>1 DEF CallType
  <2> DEFINE kept == [stepping EXCEPT !.bakPos = pos]
  <2>5. call' = [kept EXCEPT !.bakSeq = seq]
    BY <1>1, <2>2 DEF CallType
  <2> HIDE DEF stepping
  <2>a. /\ kept \in CallType /\ kept.at = "extras" /\ kept.op = call.op
        /\ kept.id = call.id /\ kept.last = call.last /\ kept.bakPos = pos
    BY <2>1, <2>3, <2>4 DEF CallType
  <2> HIDE DEF kept
  <2>b. /\ call' \in CallType /\ call'.at = "extras" /\ call'.op = call.op
        /\ call'.id = call.id /\ call'.last = call.last
        /\ call'.bakPos = pos /\ call'.bakSeq = seq
    BY <2>1, <2>5, <2>a DEF CallType
  <2>6. /\ Continues("extras") /\ RetTyped'
        /\ call'.bakPos = pos /\ call'.bakSeq = seq
    BY <2>2, <2>b, NoCallTyped DEF Continues, Silent, RetTyped
  <2> QED
    BY <2>2, <2>6 DEF NewestExtrasStep, pos, seq
<1> QED
  BY <1>3, <1>4

LEMMA ExtrasStepShape ==
  ASSUME TypeOK, ApiTyped, ExtrasStep
  PROVE  /\ ids' = ids
         /\ \/ /\ Continues("moveEmpty") /\ RetTyped' /\ seen' = seen
               /\ call'.bakPos = call.bakPos /\ call'.bakSeq = call.bakSeq
            \/ Settled("OK")
<1>1. call \in CallType /\ call.at = "extras" /\ call.op # "none"
  BY DEF ExtrasStep, ApiTyped, CallTyped
<1>2. PICK extra \in ExtrasSeen :
        LET left == IF Counts(extra) THEN call.steps - 1 ELSE call.steps
        IN IF left = 0
           THEN Moved("OK", ids[call.id].pos, ids[call.id].seq)
           ELSE /\ call' = [call EXCEPT !.at = "moveEmpty", !.steps = left,
                                        !.extra = extra]
                /\ Silent /\ UNCHANGED seen
  BY DEF ExtrasStep
<1> DEFINE left == IF Counts(extra) THEN call.steps - 1 ELSE call.steps
<1>3. left \in Int /\ extra \in {"unset", "key", "normal"}
  BY <1>1, <1>2 DEF CallType, ExtrasSeen
<1>4. CASE left = 0
  BY <1>1, <1>2, <1>4, MovedSettles DEF ExtrasStep
<1>5. CASE left # 0
  <2> HIDE DEF left
  <2>1. /\ call' = [call EXCEPT !.at = "moveEmpty", !.steps = left,
                                !.extra = extra]
        /\ Silent /\ UNCHANGED seen
    BY <1>2, <1>5 DEF left
  <2>2. /\ Continues("moveEmpty") /\ RetTyped'
        /\ call'.bakPos = call.bakPos /\ call'.bakSeq = call.bakSeq
    BY <1>1, <1>3, <2>1, NoCallTyped DEF CallType, Continues, Silent, RetTyped
  <2> QED
    BY <2>1, <2>2 DEF ExtrasStep
<1> QED
  BY <1>4, <1>5

LEMMA MoveEmptyStepShape ==
  ASSUME TypeOK, ApiTyped, MoveEmptyStep
  PROVE  \/ MoveTo(call.bakPos, call.bakSeq) /\ Settled("ERROR")
         \/ /\ ~IsEmpty /\ ids' = ids /\ seen' = seen
            /\ Continues("move") /\ RetTyped'
            /\ call'.bakPos = call.bakPos /\ call'.bakSeq = call.bakSeq
<1>1. call \in CallType /\ call.at = "moveEmpty" /\ call.op # "none"
  BY DEF MoveEmptyStep, ApiTyped, CallTyped
<1> QED
  BY <1>1, MovedSettles, CallGoesOn DEF MoveEmptyStep, GiveUp

LEMMA MoveStepShape ==
  ASSUME TypeOK, ApiTyped, MoveStep
  PROVE  \/ MoveTo(call.bakPos, call.bakSeq) /\ Settled("ERROR")
         \/ \E r \in {MoveBack(ids[call.id].pos, ids[call.id].seq),
                      MoveForward(ids[call.id].pos, ids[call.id].seq)} :
              /\ r.rtn = "OK" /\ MoveTo(r.pos, r.seq)
              /\ \/ Settled("OK")
                 \/ /\ seen' = seen /\ RetTyped'
                    /\ Continues("extras") \/ Continues("moveEmpty")
                    /\ call'.bakPos = call.bakPos
                    /\ call'.bakSeq = call.bakSeq
<1>1. call \in CallType /\ call.at = "move" /\ call.op # "none"
  BY DEF MoveStep, ApiTyped, CallTyped
<1> DEFINE r == IF call.back THEN MoveBack(ids[call.id].pos, ids[call.id].seq)
                ELSE MoveForward(ids[call.id].pos, ids[call.id].seq)
           left == IF call.keyed THEN call.steps ELSE call.steps - 1
           at == IF call.keyed THEN "extras" ELSE "moveEmpty"
<1>2. /\ r \in {MoveBack(ids[call.id].pos, ids[call.id].seq),
                MoveForward(ids[call.id].pos, ids[call.id].seq)}
      /\ left \in Int /\ at \in {"extras", "moveEmpty"}
  BY <1>1 DEF CallType
<1>3. IF r.rtn # "OK" THEN GiveUp
      ELSE /\ MoveTo(r.pos, r.seq)
           /\ IF left = 0 THEN Moved("OK", r.pos, r.seq)
              ELSE /\ call' = [call EXCEPT !.at = at, !.steps = left,
                                           !.moved = TRUE]
                   /\ Silent /\ UNCHANGED seen
  BY DEF MoveStep
<1> HIDE DEF r, left, at
<1>4. CASE r.rtn # "OK"
  BY <1>1, <1>3, <1>4, MovedSettles DEF GiveUp
<1>5. CASE r.rtn = "OK" /\ left = 0
  BY <1>1, <1>2, <1>3, <1>5, MovedSettles
<1>6. CASE r.rtn = "OK" /\ left # 0
  <2>0. /\ call' = [call EXCEPT !.at = at, !.steps = left, !.moved = TRUE]
        /\ Silent
    BY <1>3, <1>6
  <2>1. /\ Continues(at) /\ RetTyped'
        /\ call'.bakPos = call.bakPos /\ call'.bakSeq = call.bakSeq
    BY <1>1, <1>2, <2>0, NoCallTyped DEF CallType, Continues, Silent, RetTyped
  <2> QED
    BY <1>2, <1>3, <1>6, <2>1
<1> QED
  BY <1>4, <1>5, <1>6

LEMMA ReadEmptyStepShape ==
  ASSUME TypeOK, ApiTyped, ReadEmptyStep
  PROVE  /\ ids' = ids /\ seen' = seen /\ RetTyped' /\ call.op = "read"
         /\ \/ call' = NoCall /\ ret'.rtn = "EMPTY_SPACE"
            \/ ~IsEmpty /\ Continues("read")
<1>1. call \in CallType /\ call.at = "empty" /\ call.op = "read"
  BY DEF ReadEmptyStep, ApiTyped, CallTyped
<1>2. CASE IsEmpty
  <2>1. Return("EMPTY_SPACE", ids[call.id].pos, ids[call.id].seq, 0, FALSE)
    BY <1>2 DEF ReadEmptyStep
  <2>2. call' = NoCall /\ RetTyped' /\ ret'.rtn = "EMPTY_SPACE"
    BY <2>1, StandingTyped DEF Return, RetTyped
  <2> QED
    BY <1>1, <2>2 DEF ReadEmptyStep
<1>3. CASE ~IsEmpty
  <2>1. call' = [call EXCEPT !.at = "read"] /\ Silent
    BY <1>3 DEF ReadEmptyStep
  <2>2. Continues("read") /\ RetTyped'
    BY <1>1, <2>1, CallGoesOn
  <2> QED
    BY <1>1, <1>3, <2>2 DEF ReadEmptyStep
<1> QED
  BY <1>2, <1>3

LEMMA ReadStepShape ==
  ASSUME TypeOK, ApiTyped, ReadStep
  PROVE  LET r == ReadFrame(ids[call.id].pos, ids[call.id].seq, call.buf)
             i == call.id
         IN  /\ MoveTo(r.pos, r.seq)
             /\ call' = NoCall /\ RetTyped'
             /\ call.op = "read" /\ ret'.op = "read" /\ ret'.rtn = r.rtn
             /\ ret'.got = r.frame /\ ret'.last = call.last
             /\ seen' = [seen EXCEPT ![i] =
                           IF r.rtn = "GET_A_NEW_FRAME" THEN r.frame
                           ELSE IF r.rtn = "ERROR" THEN 0 ELSE seen[i]]
<1>1. /\ call \in CallType /\ call.at = "read" /\ call.op = "read"
      /\ call.id \in Ids /\ ids \in [Ids -> IdType]
  BY DEF ReadStep, ApiTyped, CallTyped
<1> DEFINE r == ReadFrame(ids[call.id].pos, ids[call.id].seq, call.buf)
<1>2. r.frame \in Int
  <2>1. ids[call.id].pos \in Places /\ ids[call.id].seq \in Nat
    BY <1>1 DEF IdType
  <2> QED
    BY <2>1, ReadTyped DEF Torn
<1>3. /\ MoveTo(r.pos, r.seq)
      /\ \E key : Return(r.rtn, r.pos, r.seq, r.frame, key)
      /\ seen' = [seen EXCEPT ![call.id] =
                    IF r.rtn = "GET_A_NEW_FRAME" THEN r.frame
                    ELSE IF r.rtn = "ERROR" THEN 0 ELSE seen[call.id]]
  BY DEF ReadStep
<1> HIDE DEF r
<1>4. /\ call' = NoCall /\ RetTyped' /\ ret'.op = "read" /\ ret'.rtn = r.rtn
      /\ ret'.got = r.frame /\ ret'.last = call.last
  BY <1>1, <1>2, <1>3, ReturnTyped
<1> QED
  BY <1>1, <1>3, <1>4 DEF r

(* How a call begins.                                                      *)
Begins(i) ==
  /\ ids' = ids /\ seen' = seen /\ ret' = NoReturn
  /\ ids[i].live /\ call' \in CallType
  /\ call'.id = i /\ call'.last = seen[i]
  /\ call'.bakPos = ids[i].pos /\ call'.bakSeq = ids[i].seq
  /\ \/ call'.op = "read" /\ call'.at = "refresh" /\ ids[i].pos = INITIAL
     \/ call'.op = "read" /\ call'.at = "empty"
     \/ call'.op = "refresh" /\ call'.at = "refresh"
     \/ /\ call'.op \in {"back", "forward"}
        /\ call'.at \in {"extras", "moveEmpty"}

LEMMA BeginTyped ==
  ASSUME TypeOK, ApiTyped, NEW i \in Ids, NEW c \in CallType,
         NEW op \in {"read", "refresh", "back", "forward"},
         NEW at \in {"refresh", "extras", "moveEmpty", "empty"},
         Begin(i, op, at, c)
  PROVE  /\ ids' = ids /\ seen' = seen /\ ret' = NoReturn /\ ids[i].live
         /\ call' \in CallType /\ call'.op = op /\ call'.at = at
         /\ call'.id = i /\ call'.last = seen[i]
         /\ call'.bakPos = ids[i].pos /\ call'.bakSeq = ids[i].seq
<1> DEFINE fresh == ids[i].pos = INITIAL
           pos   == ids[i].pos
           seq   == ids[i].seq
           last  == seen[i]
           stood == StandingOf(i)
<1>1. /\ call' = [c EXCEPT !.op = op, !.id = i, !.at = at, !.fresh = fresh,
                           !.began = frameNo, !.bakPos = pos, !.bakSeq = seq,
                           !.last = last, !.stood = stood]
      /\ ids' = ids /\ seen' = seen /\ ret' = NoReturn /\ i \in Live
  BY DEF Begin, Silent
<1>2. /\ pos \in Places /\ seq \in Nat /\ last \in Nat \union {Torn}
      /\ i \in Nat /\ frameNo \in Nat /\ fresh \in BOOLEAN
  BY ApiAssumption DEF ApiTyped, IdType, TypeOK
<1>3. stood \in Nat
  BY StandingTyped DEF StandingOf
<1> HIDE DEF fresh, pos, seq, last, stood
<1>4. /\ call' \in CallType /\ call'.op = op /\ call'.at = at
      /\ call'.id = i /\ call'.last = last
      /\ call'.bakPos = pos /\ call'.bakSeq = seq
  <2> DEFINE d1 == [c EXCEPT !.op = op, !.id = i]
             d2 == [d1 EXCEPT !.at = at]
             e2 == [d2 EXCEPT !.fresh = fresh]
             d3 == [e2 EXCEPT !.began = frameNo, !.bakPos = pos]
             d4 == [d3 EXCEPT !.bakSeq = seq, !.last = last]
             d5 == [d4 EXCEPT !.stood = stood]
  <2>0. call' = d5
    BY <1>1
  <2>1. d1 \in CallType /\ d1.op = op /\ d1.id = i
    BY <1>2 DEF CallType
  <2> HIDE DEF d1
  <2>2. d2 \in CallType /\ d2.op = op /\ d2.id = i /\ d2.at = at
    BY <2>1 DEF CallType
  <2> HIDE DEF d2
  <2>a. e2 \in CallType /\ e2.op = op /\ e2.id = i /\ e2.at = at
    BY <1>2, <2>2 DEF CallType
  <2> HIDE DEF e2
  <2>3. /\ d3 \in CallType /\ d3.op = op /\ d3.id = i /\ d3.at = at
        /\ d3.bakPos = pos
    BY <1>2, <2>a DEF CallType
  <2> HIDE DEF d3
  <2>4. /\ d4 \in CallType /\ d4.op = op /\ d4.id = i /\ d4.at = at
        /\ d4.bakPos = pos /\ d4.bakSeq = seq /\ d4.last = last
    BY <1>2, <2>3 DEF CallType
  <2> HIDE DEF d4
  <2>5. /\ d5 \in CallType /\ d5.op = op /\ d5.id = i /\ d5.at = at
        /\ d5.bakPos = pos /\ d5.bakSeq = seq /\ d5.last = last
    BY <1>3, <2>4 DEF CallType
  <2> QED
    BY <2>0, <2>5
<1> QED
  BY <1>1, <1>4 DEF Live, pos, seq, last

(* What the calls begin from.                                              *)
LEMMA BlankCalls ==
  ASSUME NEW keyed \in BOOLEAN, NEW buf \in Nat, NEW steps \in Nat,
         NEW back \in BOOLEAN
  PROVE  /\ [NoCall EXCEPT !.keyed = keyed, !.buf = buf] \in CallType
         /\ [NoCall EXCEPT !.keyed = keyed] \in CallType
         /\ [NoCall EXCEPT !.steps = steps, !.asked = steps, !.keyed = keyed,
                           !.back = back] \in CallType
<1>1. \A c \in CallType :
        /\ [c EXCEPT !.keyed = keyed, !.buf = buf] \in CallType
        /\ [c EXCEPT !.keyed = keyed] \in CallType
  BY DEF CallType
<1>2. \A c \in CallType :
        [c EXCEPT !.steps = steps, !.asked = steps, !.keyed = keyed,
                  !.back = back] \in CallType
  <2>1. \A c \in CallType : [c EXCEPT !.steps = steps, !.asked = steps] \in CallType
    <3>1. \A c \in CallType, n \in Int : [c EXCEPT !.steps = n] \in CallType
      BY DEF CallType
    <3>2. \A c \in CallType : [c EXCEPT !.asked = steps] \in CallType
      BY DEF CallType
    <3>3. steps \in Int
      OBVIOUS
    <3> TAKE c \in CallType
    <3>4. [c EXCEPT !.steps = steps] \in CallType
      BY <3>1, <3>3
    <3>5. [[c EXCEPT !.steps = steps] EXCEPT !.asked = steps] \in CallType
      BY <3>2, <3>4
    <3> QED
      BY <3>5
  <2>2. \A c \in CallType : [c EXCEPT !.back = back] \in CallType
    BY DEF CallType
  <2> TAKE c \in CallType
  <2> DEFINE d == [c EXCEPT !.steps = steps, !.asked = steps]
             e == [d EXCEPT !.keyed = keyed]
  <2>3. d \in CallType
    BY <2>1
  <2>4. e \in CallType
    BY <1>1, <2>3
  <2>5. [e EXCEPT !.back = back] \in CallType
    BY <2>2, <2>4
  <2> QED
    BY <2>5
<1> QED
  BY <1>1, <1>2, NoCallTyped

LEMMA BeginCallShape ==
  ASSUME TypeOK, ApiTyped, BeginCall
  PROVE  \E i \in Ids : Begins(i)
<1> USE ApiAssumption
<1>1. ASSUME NEW i \in Ids, NEW buf \in Buffers, BeginRead(i, buf)
      PROVE  Begins(i)
  <2> DEFINE c  == [NoCall EXCEPT !.keyed = H264, !.buf = buf]
             at == IF ids[i].pos = INITIAL THEN "refresh" ELSE "empty"
  <2>1. c \in CallType /\ at \in {"refresh", "empty"}
    BY BlankCalls
  <2>2. Begin(i, "read", at, c)
    BY <1>1 DEF BeginRead
  <2>3. at = "refresh" => ids[i].pos = INITIAL
    OBVIOUS
  <2> HIDE DEF c, at
  <2> QED
    BY <2>1, <2>2, <2>3, BeginTyped DEF Begins
<1>2. ASSUME NEW i \in Ids, NEW keyed \in {FALSE, H264}, BeginRefresh(i, keyed)
      PROVE  Begins(i)
  <2> DEFINE c == [NoCall EXCEPT !.keyed = keyed]
  <2>1. c \in CallType
    BY BlankCalls
  <2>2. Begin(i, "refresh", "refresh", c)
    BY <1>2 DEF BeginRefresh
  <2> HIDE DEF c
  <2> QED
    BY <2>1, <2>2, BeginTyped DEF Begins
<1>3. ASSUME NEW i \in Ids, NEW keyed \in {FALSE, H264}, NEW steps \in Steps,
             NEW op \in {"back", "forward"}, BeginMove(i, op, steps, keyed)
      PROVE  Begins(i)
  <2> DEFINE back == op = "back"
             c == [NoCall EXCEPT !.steps = steps, !.asked = steps,
                                 !.keyed = keyed, !.back = back]
             at == IF keyed THEN "extras" ELSE "moveEmpty"
  <2>1. c \in CallType /\ at \in {"extras", "moveEmpty"}
    <3>1. back \in BOOLEAN /\ keyed \in BOOLEAN /\ steps \in Nat
      OBVIOUS
    <3> HIDE DEF back
    <3> QED
      BY <3>1, BlankCalls
  <2>2. Begin(i, op, at, c)
    BY <1>3 DEF BeginMove
  <2> HIDE DEF c, at, back
  <2> QED
    BY <2>1, <2>2, BeginTyped DEF Begins
<1> QED
  BY <1>1, <1>2, <1>3 DEF BeginCall

(* The calls that give out and take back ids.                              *)
GivesID(f, id, s) ==
  /\ f \in Ids \ Live /\ id \in IdType /\ id.live
  /\ ids' \in [Ids -> IdType] /\ ids'[f] = id
  /\ \A j \in Ids : j # f => ids'[j] = ids[j]
  /\ seen' = [seen EXCEPT ![f] = s]
  /\ Unlocked /\ call' = call /\ ret' = NoReturn

LEMMA FreshTyped ==
  /\ Free \in IdType /\ ~Free.live
  /\ Fresh \in IdType /\ Fresh.live /\ Fresh.pos = INITIAL
<1>1. INITIAL \in Places /\ INITIAL \in Nat
  BY RingAssumption DEF Places, Positions, INITIAL, START
<1> QED
  BY <1>1 DEF Free, Fresh, IdType

LEMMA InitIDShape ==
  ASSUME ApiTyped, InitID
  PROVE  GivesID(FirstFree, Fresh, 0)
  BY FirstFreeFree, FreshTyped DEF InitID, GivesID, Silent, ApiTyped

LEMMA CopyIDShape ==
  ASSUME ApiTyped, NEW i \in Ids, CopyID(i)
  PROVE  GivesID(FirstFree, ids[i], seen[i])
  BY FirstFreeFree DEF CopyID, GivesID, Silent, ApiTyped, Live

LEMMA RemoveIDShape ==
  ASSUME ApiTyped, NEW i \in Ids, RemoveID(i)
  PROVE  /\ i \in Live /\ Unlocked /\ call' = call /\ ret' = NoReturn
         /\ ids' \in [Ids -> IdType] /\ ids'[i] = Free
         /\ \A j \in Ids : j # i => ids'[j] = ids[j]
         /\ seen' = [seen EXCEPT ![i] = 0]
  BY FreshTyped DEF RemoveID, Silent, ApiTyped

(* The calls that only answer.                                             *)
Answers ==
  \E i \in Ids : \/ Distance(i) \/ FrameExtras(i)
                 \/ \E j \in Ids : Compare(i, j)

LEMMA AnswersShape ==
  ASSUME TypeOK, ApiTyped, Answers
  PROVE  /\ ids' = ids /\ call' = call /\ seen' = seen /\ RetTyped'
         /\ ret'.op \in {"distance", "extras", "compare"}
<1>1. /\ \A i \in Ids : ids[i].seq \in Nat
      /\ \A i \in Ids : StandingOf(i) \in Nat
  BY StandingTyped DEF ApiTyped, IdType, StandingOf
<1>2. ASSUME NEW i \in Ids, Distance(i)
      PROVE  /\ ids' = ids /\ call' = call /\ seen' = seen /\ RetTyped'
             /\ ret'.op = "distance"
  <2>1. Distance2Newest(ids[i].pos, ids[i].seq) \in Int
    BY <1>1, DistanceTyped
  <2> QED
    BY <1>2, <2>1, NoCallTyped DEF Distance, NoReturn, RetTyped
<1>3. ASSUME NEW i \in Ids, FrameExtras(i)
      PROVE  /\ ids' = ids /\ call' = call /\ seen' = seen /\ RetTyped'
             /\ ret'.op = "extras"
  BY <1>3 DEF FrameExtras, NoReturn, RetTyped
<1>4. ASSUME NEW i \in Ids, NEW j \in Ids, Compare(i, j)
      PROVE  /\ ids' = ids /\ call' = call /\ seen' = seen /\ RetTyped'
             /\ ret'.op = "compare"
  <2>1. SeqDistance(ids[i].seq, ids[j].seq) \in Int
    BY <1>1, DistanceTyped
  <2> QED
    BY <1>1, <1>4, <2>1 DEF Compare, NoReturn, RetTyped
<1> QED
  BY <1>2, <1>3, <1>4 DEF Answers

LEMMA SettledTyped ==
  ASSUME TypeOK, ApiTyped, call.op # "none", NEW rtn, Settled(rtn),
         ids' \in [Ids -> IdType], ids'[call.id].live
  PROVE  ApiTyped'
<1>1. /\ call \in CallType /\ call.id \in Ids
      /\ seen \in [Ids -> Nat \union {Torn}]
  BY DEF ApiTyped, CallTyped
<1>2. seen' \in [Ids -> Nat \union {Torn}]
  BY <1>1 DEF Settled
<1>3. RetTyped'
  BY DEF Settled
<1>4. CallTyped'
  <2>1. CASE call' = NoCall
    BY <2>1, NoCallTyped DEF CallTyped
  <2>2. CASE Continues("empty") /\ call.op = "read"
    BY <1>1, <2>2 DEF CallTyped, Continues
  <2> QED
    BY <2>1, <2>2 DEF Settled
<1> QED
  BY <1>2, <1>3, <1>4 DEF ApiTyped

LEMMA ContinuesTyped ==
  ASSUME ApiTyped, call.op # "none", NEW at, Continues(at), RetTyped',
         seen' = seen, ids' \in [Ids -> IdType], ids'[call.id].live,
         \/ at \in {"extras", "moveEmpty", "move"}
         \/ at = "newest" /\ call.op \in {"read", "refresh"}
         \/ at = "read" /\ call.op = "read"
  PROVE  ApiTyped'
<1>1. CallTyped'
  BY DEF CallTyped, Continues, ApiTyped
<1> QED
  BY <1>1 DEF ApiTyped

LEMMA CallStepTyped ==
  ASSUME TypeOK, ApiTyped, CallStep
  PROVE  ApiTyped'
<1>1. /\ call \in CallType /\ call.op # "none" /\ call.id \in Ids
      /\ ids \in [Ids -> IdType] /\ ids[call.id].live
      /\ seen \in [Ids -> Nat \union {Torn}]
      /\ ids[call.id].pos \in Places /\ ids[call.id].seq \in Nat
      /\ call.bakPos \in Places /\ call.bakSeq \in Nat
  <2>1. call.op # "none"
    BY DEF ApiTyped, CallTyped, CallStep, RefreshStep, NewestExtrasStep,
           ExtrasStep, MoveEmptyStep, MoveStep, ReadEmptyStep, ReadStep
  <2>2. call \in CallType /\ ids \in [Ids -> IdType] /\ call.id \in Ids
    BY <2>1 DEF ApiTyped, CallTyped
  <2> QED
    BY <2>1, <2>2 DEF ApiTyped, CallTyped, CallType, IdType
<1>2. ASSUME NEW pos \in Places, NEW seq \in Nat, MoveTo(pos, seq)
      PROVE  ids' \in [Ids -> IdType] /\ ids'[call.id].live
  BY <1>1, <1>2, MoveToMoves
<1> DEFINE StillLive == ids' \in [Ids -> IdType] /\ ids'[call.id].live
<1>a. ids' = ids => StillLive
  BY <1>1
<1>b. ASSUME NEW rtn, Settled(rtn), StillLive PROVE ApiTyped'
  BY <1>1, <1>b, SettledTyped
<1>c. ASSUME NEW at \in {"extras", "moveEmpty", "move"},
             Continues(at), RetTyped', seen' = seen, StillLive
      PROVE  ApiTyped'
  BY <1>1, <1>c, ContinuesTyped
<1> HIDE DEF StillLive
<1>3. CASE RefreshStep
  <2>1. StillLive
    BY <1>1, <1>2, <1>3, RefreshStepShape, MoveTyped DEF StillLive
  <2>2. call.op \in {"read", "refresh"}
    BY <1>3 DEF RefreshStep, ApiTyped, CallTyped
  <2>3. CASE Continues("newest") /\ RetTyped' /\ seen' = seen
    BY <1>1, <2>1, <2>2, <2>3, ContinuesTyped DEF StillLive
  <2> QED
    BY <1>3, <1>b, <2>1, <2>3, RefreshStepShape
<1>4. CASE NewestExtrasStep
  <2>1. CASE Continues("extras") /\ RetTyped' /\ seen' = seen
    BY <1>4, <1>a, <1>c, <2>1, NewestStepShape
  <2> QED
    BY <1>4, <1>a, <1>b, <2>1, NewestStepShape
<1>5. CASE ExtrasStep
  <2>1. CASE Continues("moveEmpty") /\ RetTyped' /\ seen' = seen
    BY <1>5, <1>a, <1>c, <2>1, ExtrasStepShape
  <2> QED
    BY <1>5, <1>a, <1>b, <2>1, ExtrasStepShape
<1>6. CASE MoveEmptyStep
  <2>1. CASE MoveTo(call.bakPos, call.bakSeq) /\ Settled("ERROR")
    <3>1. StillLive
      BY <1>1, <1>2, <2>1 DEF StillLive
    <3> QED
      BY <1>b, <2>1, <3>1
  <2>2. CASE ids' = ids /\ seen' = seen /\ Continues("move") /\ RetTyped'
    BY <1>a, <1>c, <2>2
  <2> QED
    BY <1>6, <2>1, <2>2, MoveEmptyStepShape
<1>7. CASE MoveStep
  <2> DEFINE pos == ids[call.id].pos
             seq == ids[call.id].seq
  <2>1. \A r \in {MoveBack(pos, seq), MoveForward(pos, seq)} :
          r.pos \in Places /\ r.seq \in Nat
    BY <1>1, MoveTyped
  <2>2. StillLive
    BY <1>1, <1>2, <1>7, <2>1, MoveStepShape DEF StillLive
  <2>3. \/ Settled("ERROR") \/ Settled("OK")
        \/ /\ seen' = seen /\ RetTyped'
           /\ Continues("extras") \/ Continues("moveEmpty")
    BY <1>7, MoveStepShape
  <2> QED
    BY <1>b, <1>c, <2>2, <2>3
<1>8. CASE ReadEmptyStep
  <2>1. CASE call' = NoCall
    <3>1. CallTyped'
      BY <2>1, NoCallTyped DEF CallTyped
    <3> QED
      BY <1>1, <1>8, <3>1, ReadEmptyStepShape DEF ApiTyped
  <2>2. CASE Continues("read")
    BY <1>1, <1>8, <2>2, ReadEmptyStepShape, ContinuesTyped
  <2> QED
    BY <1>8, <2>1, <2>2, ReadEmptyStepShape
<1>9. CASE ReadStep
  <2> DEFINE r == ReadFrame(ids[call.id].pos, ids[call.id].seq, call.buf)
  <2>1. r.pos \in Places /\ r.seq \in Nat /\ r.frame \in Nat \union {Torn}
    BY <1>1, ReadTyped
  <2>2. /\ MoveTo(r.pos, r.seq) /\ call' = NoCall /\ RetTyped'
        /\ seen' = [seen EXCEPT ![call.id] =
                      IF r.rtn = "GET_A_NEW_FRAME" THEN r.frame
                      ELSE IF r.rtn = "ERROR" THEN 0 ELSE seen[call.id]]
    BY <1>9, ReadStepShape
  <2> HIDE DEF r
  <2>3. ids' \in [Ids -> IdType]
    BY <1>2, <2>1, <2>2
  <2>4. seen' \in [Ids -> Nat \union {Torn}]
    BY <1>1, <2>1, <2>2
  <2>5. CallTyped'
    BY <2>2, NoCallTyped DEF CallTyped
  <2> QED
    BY <2>2, <2>3, <2>4, <2>5 DEF ApiTyped
<1> QED
  BY <1>3, <1>4, <1>5, <1>6, <1>7, <1>8, <1>9 DEF CallStep

(* An id given out, or taken back, while no call is under way.             *)
LEMMA GivesIDTyped ==
  ASSUME ApiTyped, NEW f, NEW id, NEW s \in Nat \union {Torn},
         GivesID(f, id, s)
  PROVE  ApiTyped'
<1>1. seen' \in [Ids -> Nat \union {Torn}]
  BY DEF ApiTyped, GivesID
<1>2. CallTyped'
  BY DEF ApiTyped, GivesID, Unlocked, CallTyped
<1>3. RetTyped'
  BY NoCallTyped DEF GivesID, RetTyped
<1> QED
  BY <1>1, <1>2, <1>3 DEF ApiTyped, GivesID

LEMMA ReaderTyped ==
  ASSUME TypeOK, ApiTyped, ReaderNext
  PROVE  ApiTyped'
<1>1. CASE InitID
  BY <1>1, InitIDShape, GivesIDTyped
<1>2. ASSUME NEW i \in Ids, CopyID(i) PROVE ApiTyped'
  <2>1. seen[i] \in Nat \union {Torn}
    BY DEF ApiTyped
  <2> QED
    BY <1>2, <2>1, CopyIDShape, GivesIDTyped
<1>3. ASSUME NEW i \in Ids, RemoveID(i) PROVE ApiTyped'
  <2>1. seen' \in [Ids -> Nat \union {Torn}]
    BY <1>3, RemoveIDShape DEF ApiTyped
  <2>2. CallTyped'
    BY <1>3, RemoveIDShape DEF ApiTyped, Unlocked, CallTyped
  <2>3. RetTyped'
    BY <1>3, RemoveIDShape, NoCallTyped DEF RetTyped
  <2> QED
    BY <1>3, <2>1, <2>2, <2>3, RemoveIDShape DEF ApiTyped
<1>4. CASE Answers
  BY <1>4, AnswersShape DEF ApiTyped, CallTyped
<1>5. CASE BeginCall
  <2>1. PICK i \in Ids : Begins(i)
    BY <1>5, BeginCallShape
  <2>2. CallTyped'
    BY <2>1 DEF Begins, CallTyped
  <2>3. RetTyped'
    BY <2>1, NoCallTyped DEF Begins, RetTyped
  <2> QED
    BY <2>1, <2>2, <2>3 DEF Begins, ApiTyped
<1>6. CASE CallStep
  BY <1>6, CallStepTyped
<1> QED
  BY <1>1, <1>2, <1>3, <1>4, <1>5, <1>6 DEF ReaderNext, Answers

LEMMA WriterTyped ==
  ASSUME ApiTyped, ids' = ids, call' = call, seen' = seen,
         ret' = ret \/ ret' = NoReturn
  PROVE  ApiTyped'
  BY NoCallTyped DEF ApiTyped, CallTyped, RetTyped

(* The ids keep their shape, and whatever call holds the mutex is about an *)
(* id that somebody holds and stands where calls of its kind stand.        *)
THEOREM ApiTypes == ApiSpec => []ApiTyped
<1>1. ApiInit => ApiTyped
  BY FreshTyped, NoCallTyped DEF ApiInit, ApiTyped, CallTyped, RetTyped
<1>2. IInv /\ ApiTyped /\ [ApiNext]_vars => ApiTyped'
  <2> SUFFICES ASSUME IInv, ApiTyped, [ApiNext]_vars
               PROVE  ApiTyped'
    OBVIOUS
  <2>1. CASE WriterStep
    BY <2>1, WriterTyped DEF WriterStep, Silent
  <2>2. CASE ReaderNext
    BY <2>2, ReaderTyped DEF IInv
  <2>3. CASE UNCHANGED vars
    BY <2>3, WriterTyped DEF vars, apiVars
  <2> QED
    BY <2>1, <2>2, <2>3 DEF ApiNext
<1> QED
  BY <1>1, <1>2, ApiRingInvariant, PTL DEF ApiSpec

(* The typing the runs of the interface check.                             *)
THEOREM ApiTypeCorrect == ApiSpec => []ApiTypeOK
  BY ApiTypes, TypedIsTypeOK, PTL

------------------------------------------------------------------------------
(* Order.  While sequence numbers do not start over, an id that has read   *)
(* frame s stands at a place where no frame up to s is found again: what a *)
(* read finds there is newer, or the id counts as caught up.  An id that   *)
(* a call is moving is put back there if the call fails.                   *)

LEMMA ApiStepNumbers ==
  ASSUME IInv, NumInv, FewFrames, [ApiNext]_vars
  PROVE  NumInv'
  BY RingOnly, StepNumbers

THEOREM ApiNumbers ==
  ASSUME FewFrames
  PROVE  ApiSpec => []NumInv
<1>1. ApiInit => NumInv
  BY InitNumbers DEF ApiInit
<1>2. IInv /\ NumInv /\ [ApiNext]_vars => NumInv'
  BY ApiStepNumbers
<1> QED
  BY <1>1, <1>2, ApiRingInvariant, PTL DEF ApiSpec

Past(pos, seq, s) ==
  s # 0 =>
    /\ pos \in Cells
    /\ s # Torn =>
         /\ s <= frameNo
         /\ s <= base \/ seq = s - base + 1
         /\ Readable(pos) => \/ shm[pos].frame > s
                             \/ cutAt # INITIAL /\ seq > uiNewestFrameSeq

Moving(i) == call.op \in {"back", "forward"} /\ call.id = i
PosOf(i)  == IF Moving(i) THEN call.bakPos ELSE ids[i].pos
SeqOf(i)  == IF Moving(i) THEN call.bakSeq ELSE ids[i].seq

Refreshing(i) == call.op = "refresh" /\ call.id = i

ReadersPast ==
  \A i \in Ids : ~Refreshing(i) => Past(PosOf(i), SeqOf(i), seen[i])

(* A read in progress continues the run of reads, which an id without a    *)
(* position begins.                                                        *)
ReadRuns ==
  call.op = "read" =>
    /\ call.last = seen[call.id]
    /\ call.at \notin {"empty", "read"} => seen[call.id] = 0

OrderInv == ReadersPast /\ ReadRuns

(* Nothing the writer does brings an old frame back before a reader.       *)
LEMMA PastStays ==
  ASSUME IInv, NumInv, FewFrames, [Next]_ringVars,
         NEW pos, NEW seq \in Nat, NEW s \in Nat \union {Torn},
         Past(pos, seq, s)
  PROVE  Past(pos, seq, s)'
<1> SUFFICES ASSUME s # 0, s # Torn
             PROVE  /\ s <= frameNo'
                    /\ s <= base' \/ seq = s - base' + 1
                    /\ Readable(pos)' => \/ shm'[pos].frame > s
                                         \/ cutAt' # INITIAL /\ seq > uiNewestFrameSeq'
  BY DEF Past
<1>1. /\ s \in Nat /\ s <= frameNo
      /\ s <= base \/ seq = s - base + 1
      /\ Readable(pos) => \/ shm[pos].frame > s
                          \/ cutAt # INITIAL /\ seq > uiNewestFrameSeq
      /\ frameNo \in Nat /\ base \in Nat /\ base <= frameNo
  BY DEF Past, IInv, TypeOK, BaseBehind
<1>2. s <= frameNo' /\ (s <= base' \/ seq = s - base' + 1)
  BY <1>1, FoundBefore
<1>3. ASSUME Readable(pos)'
      PROVE  \/ shm'[pos].frame > s
             \/ cutAt' # INITIAL /\ seq > uiNewestFrameSeq'
  BY <1>1, <1>3, FoundBefore
<1> QED
  BY <1>2, <1>3

LEMMA PastSame ==
  ASSUME UNCHANGED ringVars, NEW pos, NEW seq, NEW s, Past(pos, seq, s)
  PROVE  Past(pos, seq, s)'
  BY DEF Past, Readable, Whole, Extent, ringVars

(* Before frame s + 1 or at START instead of where the ring ended, an id   *)
(* that counts on finds no frame up to s.                                  *)
LEMMA OverflowPast ==
  ASSUME IInv, NumInv, NEW pos \in Places, NEW seq \in Nat,
         NEW s \in Nat \union {Torn}, Past(pos, seq, s)
  PROVE  Past(CheckOverflowed(pos, seq), seq, s)
<1> DEFINE p == CheckOverflowed(pos, seq)
<1>1. CASE p = pos
  BY <1>1
<1>2. CASE p # pos
  <2>1. p = START /\ seq = shm[START].seq
    BY <1>2 DEF CheckOverflowed
  <2>2. START \in Cells
    BY RingAssumption DEF Cells, START
  <2>3. ASSUME s # 0, s # Torn, Readable(START)
        PROVE  shm[START].frame > s
    <3>1. /\ s \in Nat /\ base \in Nat
          /\ s <= base \/ seq = s - base + 1
      BY <2>3 DEF Past, IInv, TypeOK
    <3>2. /\ shm[START].frame > base /\ shm[START].frame \in Nat
          /\ shm[START].seq = shm[START].frame - base
      BY <2>2, <2>3 DEF NumInv, SeqNumbered, IInv, TypeOK, Cell
    <3> QED
      BY <2>1, <3>1, <3>2
  <2> QED
    BY <2>1, <2>2, <2>3 DEF Past
<1> QED
  BY <1>1, <1>2

(* After a frame has been handed over the id stands where its link leads,  *)
(* which is past it.                                                       *)
LEMMA LinkPast ==
  ASSUME IInv, NumInv, FewFrames, NEW p, Readable(p)
  PROVE  Past(shm[p].next, Following(shm[p]), shm[p].frame)
<1> USE RingAssumption
<1> DEFINE n == shm[p].frame
           q == shm[p].next
<1>1. /\ p \in Cells /\ shm[p].magic /\ q \in Cells
      /\ n \in Nat /\ base \in Nat /\ frameNo \in Nat
      /\ n <= frameNo /\ n > base /\ shm[p].seq = n - base
      /\ frameNo <= MaxFrames
  BY DEF Readable, NumInv, HeadsFilled, CellsNumbered, SeqNumbered, Counters,
         IInv, TypeOK, Cell
<1>2. Following(shm[p]) = n - base + 1
  BY <1>1 DEF Following, FewFrames
<1>3. ASSUME Readable(q)
      PROVE  shm[q].frame > n \/ (cutAt # INITIAL /\ n - base + 1 > uiNewestFrameSeq)
  <2>1. CASE cutAt = INITIAL
    <3>1. p \in Framed /\ q \in Framed
      BY <1>3, <2>1, FramedReadable
    <3> QED
      BY <2>1, <3>1 DEF IInv, LinksGoForward
  <2>2. CASE shm[p].seq < uiNewestFrameSeq
    BY <1>1, <1>3, <2>2 DEF NumInv, ReadableForward
  <2>3. CASE cutAt # INITIAL /\ ~(shm[p].seq < uiNewestFrameSeq)
    <3>1. uiNewestFrameSeq \in Nat
      BY DEF IInv, TypeOK
    <3> QED
      BY <1>1, <2>3, <3>1
  <2> QED
    BY <2>1, <2>2, <2>3
<1> HIDE DEF q
<1>4. n # Torn /\ n # 0
  BY <1>1 DEF Torn
<1> QED
  BY <1>1, <1>2, <1>3, <1>4 DEF Past, q

LEMMA FrameAtCell ==
  ASSUME NEW p \in Cells
  PROVE  FrameAt(p) = shm[p]
  BY DEF FrameAt, Cells, INITIAL, START

LEMMA ReadPast ==
  ASSUME IInv, NumInv, FewFrames, NEW pos \in Places, NEW seq \in Nat,
         NEW s \in Nat \union {Torn}, NEW buf, Past(pos, seq, s)
  PROVE  LET r == ReadFrame(pos, seq, buf)
             n == IF r.rtn = "GET_A_NEW_FRAME" THEN r.frame
                  ELSE IF r.rtn = "ERROR" THEN 0 ELSE s
         IN  /\ Past(r.pos, r.seq, n)
             /\ r.rtn = "GET_A_NEW_FRAME" /\ r.frame # Torn
                  => r.frame \in Nat \ {0} /\ (s # 0 => r.frame > s)
<1> USE RingAssumption
<1> DEFINE p == CheckOverflowed(pos, seq)
           f == FrameAt(p)
           r == ReadFrame(pos, seq, buf)
           n == IF r.rtn = "GET_A_NEW_FRAME" THEN r.frame
                ELSE IF r.rtn = "ERROR" THEN 0 ELSE s
<1>0. TypeOK /\ Past(p, seq, s)
  BY OverflowPast DEF IInv
<1>1. f.size \in Nat /\ f.magic \in BOOLEAN
  BY <1>0, FrameAtTyped
<1>2. CASE uiNewestFrameSeq < seq
  <2>1. r = Lost \/ r = Outcome("NO_NEW_FRAME", pos, seq, 0)
    BY <1>2 DEF ReadFrame
  <2> QED
    BY <2>1 DEF Lost, Outcome, Past
<1>3. CASE ~(uiNewestFrameSeq < seq) /\ ~f.magic
  <2>1. r = Lost
    BY <1>3 DEF ReadFrame, NotFound
  <2> QED
    BY <2>1 DEF Lost, Outcome, Past
<1>4. CASE ~(uiNewestFrameSeq < seq) /\ f.magic /\ f.size > iMaxFrameSize
  <2>1. r = Outcome("FRAME_TOO_LARGE", f.next, Following(f), 0)
    BY <1>4 DEF ReadFrame
  <2>2. p \notin Cells
    <3>1. p \in Cells => f = shm[p]
      BY FrameAtCell
    <3> QED
      BY <1>1, <1>4, <3>1 DEF NumInv, HeadsFilled
  <2>3. s = 0
    BY <1>0, <2>2 DEF Past
  <2> QED
    BY <2>1, <2>3 DEF Outcome, Past
<1>5. CASE /\ ~(uiNewestFrameSeq < seq) /\ f.magic
           /\ ~(f.size > iMaxFrameSize) /\ f.size > buf
  <2>1. r = Outcome("FRAME_TOO_LARGE", p, seq, 0)
    BY <1>5 DEF ReadFrame, KeepLarge
  <2> QED
    BY <1>0, <2>1 DEF Outcome
<1>6. CASE /\ ~(uiNewestFrameSeq < seq) /\ f.magic
           /\ ~(f.size > iMaxFrameSize) /\ ~(f.size > buf)
  <2>1. r = Outcome("GET_A_NEW_FRAME", f.next, Following(f), Handed(p))
    BY <1>6 DEF ReadFrame
  <2>2. p \in Cells
    <3>1. CASE p \notin Cells /\ p = INITIAL
      BY <1>6, <3>1 DEF FrameAt, START
    <3>2. CASE p \notin Cells /\ p # INITIAL
      BY <1>6, <3>2 DEF FrameAt, Zero
    <3> QED
      BY <3>1, <3>2
  <2>3. f = shm[p]
    BY <2>2, FrameAtCell
  <2>4. shm[p].next \in Cells
    BY <1>6, <2>2, <2>3 DEF NumInv, HeadsFilled
  <2>5. CASE Whole(p)
    <3>1. Readable(p) /\ Handed(p) = shm[p].frame
      BY <1>6, <2>2, <2>3, <2>5 DEF Readable, Whole, Handed
    <3>2. Past(shm[p].next, Following(shm[p]), shm[p].frame)
      BY <3>1, LinkPast
    <3>3. shm[p].frame \in Nat \ {0} /\ (s # 0 => shm[p].frame > s)
      <4>1. shm[p].frame \in Nat \ {0}
        BY <1>0, <2>2, <3>1 DEF TypeOK, Cell, NumInv, SeqNumbered
      <4> QED
        BY <1>0, <1>6, <3>1, <4>1 DEF Past, Torn
    <3> QED
      BY <2>1, <2>3, <3>1, <3>2, <3>3 DEF Outcome
  <2>6. CASE ~Whole(p)
    <3>1. Handed(p) = Torn
      BY <2>6 DEF Whole, Handed
    <3> QED
      BY <2>1, <2>3, <2>4, <3>1 DEF Outcome, Past
  <2> QED
    BY <2>5, <2>6
<1> QED
  BY <1>1, <1>2, <1>3, <1>4, <1>5, <1>6

(* What a step of a reader makes of an id's run of reads: it is forgotten, *)
(* it is that of an id before the step, or a read has gone on with it.     *)
Reads(i) ==
  LET r == ReadFrame(ids[i].pos, ids[i].seq, call.buf)
  IN  /\ ReadStep /\ call.id = i /\ call.op = "read"
      /\ PosOf(i)' = r.pos /\ SeqOf(i)' = r.seq
      /\ seen'[i] = IF r.rtn = "GET_A_NEW_FRAME" THEN r.frame
                    ELSE IF r.rtn = "ERROR" THEN 0 ELSE seen[i]

RunOf(i, j) ==
  /\ ~Refreshing(j)
  /\ PosOf(i)' = PosOf(j) /\ SeqOf(i)' = SeqOf(j) /\ seen'[i] = seen[j]

GoesOn(i) == seen'[i] = 0 \/ (\E j \in Ids : RunOf(i, j)) \/ Reads(i)

RunsGoOn == ReadRuns' /\ \A i \in Ids : Refreshing(i)' \/ GoesOn(i)

LEMMA SamePast ==
  ASSUME UNCHANGED ringVars, NEW i, NEW pos, NEW seq, NEW s,
         Past(pos, seq, s),
         PosOf(i)' = pos, SeqOf(i)' = seq, seen'[i] = s
  PROVE  Past(PosOf(i), SeqOf(i), seen[i])'
  BY DEF Past, Readable, Whole, Extent, ringVars

(* The ids no call is about.                                               *)
LEMMA OtherGoesOn ==
  ASSUME NEW i \in Ids, ids'[i] = ids[i], seen'[i] = seen[i],
         call.op = "none" \/ call.id # i,
         call'.op = "none" \/ call'.id # i
  PROVE  GoesOn(i)
<1>1. ~Refreshing(i)
  BY DEF Refreshing
<1>2. PosOf(i)' = PosOf(i) /\ SeqOf(i)' = SeqOf(i)
  BY DEF PosOf, SeqOf, Moving
<1> QED
  BY <1>1, <1>2 DEF GoesOn, RunOf

(* A call goes on before it reads.                                         *)
LEMMA ContinuesRuns ==
  ASSUME ApiTyped, OrderInv, call.op # "none",
         call.at \notin {"empty", "read"}, NEW at, Continues(at),
         seen' = seen,
         \A j \in Ids : j # call.id => ids'[j] = ids[j],
         call.op \in {"back", "forward"} =>
           call'.bakPos = call.bakPos /\ call'.bakSeq = call.bakSeq
  PROVE  RunsGoOn
<1>1. call.id \in Ids /\ call'.op = call.op /\ call'.id = call.id
      /\ call'.last = call.last
      /\ call.op \in {"read", "refresh", "back", "forward"}
  BY DEF ApiTyped, CallTyped, CallType, Continues
<1>2. ASSUME NEW i \in Ids, ~Refreshing(i)'
      PROVE  GoesOn(i)
  <2>1. CASE i # call.id
    BY <1>1, <2>1, OtherGoesOn DEF OrderInv
  <2>2. CASE i = call.id /\ call.op = "read"
    BY <2>2 DEF OrderInv, ReadRuns, GoesOn
  <2>3. CASE i = call.id /\ call.op \in {"back", "forward"}
    <3>1. ~Refreshing(i)
      BY <2>3 DEF Refreshing
    <3>2. PosOf(i)' = PosOf(i) /\ SeqOf(i)' = SeqOf(i)
      BY <1>1, <2>3 DEF PosOf, SeqOf, Moving
    <3> QED
      BY <3>1, <3>2 DEF GoesOn, RunOf
  <2> QED
    BY <1>1, <1>2, <2>1, <2>2, <2>3 DEF Refreshing
<1>3. ReadRuns'
  BY <1>1 DEF OrderInv, ReadRuns
<1> QED
  BY <1>2, <1>3 DEF RunsGoOn

(* A call has repositioned its id, or put it back, before any read.        *)
LEMMA SettledRuns ==
  ASSUME ApiTyped, OrderInv, call.op # "none",
         call.at \notin {"empty", "read"}, NEW rtn, Settled(rtn),
         \A j \in Ids : j # call.id => ids'[j] = ids[j],
         rtn = "ERROR" /\ call.op \in {"back", "forward"} =>
           ids'[call.id].pos = call.bakPos /\ ids'[call.id].seq = call.bakSeq
  PROVE  RunsGoOn
<1>1. call.id \in Ids /\ seen \in [Ids -> Nat \union {Torn}]
      /\ call.op \in {"read", "refresh", "back", "forward"}
  BY DEF ApiTyped, CallTyped, CallType
<1>2. /\ call'.op = "none" \/ (call'.id = call.id /\ call'.op = "read")
      /\ \A j \in Ids : j # call.id => seen'[j] = seen[j]
      /\ call.op # "read" => call' = NoCall
  BY <1>1, NoCallTyped DEF Settled, Continues
<1>3. ASSUME NEW i \in Ids
      PROVE  GoesOn(i)
  <2>1. CASE i # call.id
    BY <1>1, <1>2, <2>1, OtherGoesOn DEF OrderInv
  <2>2. CASE i = call.id /\ call.op = "read"
    BY <2>2 DEF OrderInv, ReadRuns, Settled, GoesOn
  <2>3. CASE /\ i = call.id /\ call.op # "read"
             /\ ~(rtn = "ERROR" /\ call.op # "refresh")
    BY <1>1, <2>3 DEF Settled, GoesOn
  <2>4. CASE /\ i = call.id /\ call.op \in {"back", "forward"}
             /\ rtn = "ERROR"
    <3>1. ~Refreshing(i) /\ PosOf(i) = call.bakPos /\ SeqOf(i) = call.bakSeq
      BY <2>4 DEF Refreshing, PosOf, SeqOf, Moving
    <3>2. PosOf(i)' = call.bakPos /\ SeqOf(i)' = call.bakSeq
      BY <1>2, <2>4, NoCallTyped DEF PosOf, SeqOf, Moving
    <3>3. seen'[i] = seen[i]
      BY <2>4 DEF Settled
    <3> QED
      BY <3>1, <3>2, <3>3 DEF GoesOn, RunOf
  <2> QED
    BY <1>1, <2>1, <2>2, <2>3, <2>4
<1>4. ReadRuns'
  <2>1. CASE call' = NoCall
    BY <2>1, NoCallTyped DEF ReadRuns
  <2>2. CASE call.op = "read" /\ seen' = seen /\ Continues("empty")
    BY <2>2 DEF OrderInv, ReadRuns, Continues
  <2> QED
    BY <2>1, <2>2 DEF Settled
<1> QED
  BY <1>3, <1>4 DEF RunsGoOn

LEMMA CallStepRuns ==
  ASSUME TypeOK, ApiTyped, OrderInv, CallStep
  PROVE  RunsGoOn
<1>0. TypeOK
  BY DEF IInv
<1>1. /\ call \in CallType /\ call.op # "none" /\ call.id \in Ids
      /\ ids \in [Ids -> IdType]
      /\ seen \in [Ids -> Nat \union {Torn}]
      /\ ids[call.id].pos \in Places /\ ids[call.id].seq \in Nat
      /\ call.bakPos \in Places /\ call.bakSeq \in Nat
  <2>1. call.op # "none"
    BY DEF ApiTyped, CallTyped, CallStep, RefreshStep, NewestExtrasStep,
           ExtrasStep, MoveEmptyStep, MoveStep, ReadEmptyStep, ReadStep
  <2>2. call \in CallType /\ ids \in [Ids -> IdType] /\ call.id \in Ids
    BY <2>1 DEF ApiTyped, CallTyped
  <2> QED
    BY <2>1, <2>2 DEF ApiTyped, CallTyped, CallType, IdType
<1> DEFINE Others == \A j \in Ids : j # call.id => ids'[j] = ids[j]
           PutBack == /\ ids'[call.id].pos = call.bakPos
                      /\ ids'[call.id].seq = call.bakSeq
           Earlier == call.at \notin {"empty", "read"}
<1>2. ASSUME NEW pos \in Places, NEW seq \in Nat, MoveTo(pos, seq)
      PROVE  /\ Others /\ ids'[call.id].pos = pos /\ ids'[call.id].seq = seq
  BY <1>1, <1>2, MoveToMoves
<1>a. ids' = ids => Others
  OBVIOUS
<1>b. ASSUME NEW rtn, Settled(rtn), Others, Earlier,
             rtn # "ERROR" \/ call.op \in {"read", "refresh"} \/ PutBack
      PROVE  RunsGoOn
  <2>1. rtn = "ERROR" /\ call.op \in {"back", "forward"} =>
          ids'[call.id].pos = call.bakPos /\ ids'[call.id].seq = call.bakSeq
    BY <1>b
  <2> QED
    BY <1>1, <1>b, <2>1, SettledRuns
<1>c. ASSUME NEW at, Continues(at), seen' = seen, Others, Earlier,
             \/ call.op \in {"read", "refresh"}
             \/ call'.bakPos = call.bakPos /\ call'.bakSeq = call.bakSeq
      PROVE  RunsGoOn
  <2>1. call.op \in {"back", "forward"} =>
          call'.bakPos = call.bakPos /\ call'.bakSeq = call.bakSeq
    BY <1>c
  <2> QED
    BY <1>1, <1>c, <2>1, ContinuesRuns
<1> HIDE DEF Others, PutBack, Earlier
<1>3. CASE RefreshStep
  <2>1. Others /\ Earlier /\ call.op \in {"read", "refresh"}
    BY <1>0, <1>1, <1>2, <1>3, RefreshStepShape, MoveTyped
    DEF RefreshStep, Earlier, ApiTyped, CallTyped
  <2> QED
    BY <1>0, <1>3, <1>b, <1>c, <2>1, RefreshStepShape
<1>4. CASE NewestExtrasStep
  <2>1. Others /\ Earlier /\ call.op \in {"read", "refresh"}
    BY <1>0, <1>4, <1>a, NewestStepShape
    DEF NewestExtrasStep, Earlier, ApiTyped, CallTyped
  <2> QED
    BY <1>0, <1>4, <1>b, <1>c, <2>1, NewestStepShape
<1>5. CASE ExtrasStep
  <2>1. Others /\ Earlier
    BY <1>0, <1>5, <1>a, ExtrasStepShape DEF ExtrasStep, Earlier
  <2>2. Settled("OK") => RunsGoOn
    BY <1>b, <2>1
  <2> QED
    BY <1>0, <1>5, <1>c, <2>1, <2>2, ExtrasStepShape
<1>6. CASE MoveEmptyStep
  <2>1. Earlier
    BY <1>6 DEF MoveEmptyStep, Earlier
  <2>2. CASE MoveTo(call.bakPos, call.bakSeq) /\ Settled("ERROR")
    BY <1>1, <1>2, <1>b, <2>1, <2>2 DEF PutBack
  <2>3. CASE /\ ids' = ids /\ seen' = seen /\ Continues("move")
             /\ call'.bakPos = call.bakPos /\ call'.bakSeq = call.bakSeq
    BY <1>a, <1>c, <2>1, <2>3
  <2> QED
    BY <1>0, <1>6, <2>2, <2>3, MoveEmptyStepShape
<1>7. CASE MoveStep
  <2> DEFINE pos == ids[call.id].pos
             seq == ids[call.id].seq
  <2>1. Earlier
    BY <1>7 DEF MoveStep, Earlier
  <2>2. CASE MoveTo(call.bakPos, call.bakSeq) /\ Settled("ERROR")
    BY <1>1, <1>2, <1>b, <2>1, <2>2 DEF PutBack
  <2>3. ASSUME NEW r \in {MoveBack(pos, seq), MoveForward(pos, seq)},
               MoveTo(r.pos, r.seq),
               \/ Settled("OK")
               \/ /\ seen' = seen
                  /\ Continues("extras") \/ Continues("moveEmpty")
                  /\ call'.bakPos = call.bakPos /\ call'.bakSeq = call.bakSeq
        PROVE  RunsGoOn
    <3>1. r.pos \in Places /\ r.seq \in Nat
      BY <1>0, <1>1, MoveTyped
    <3>2. Others
      BY <1>2, <2>3, <3>1
    <3>3. Settled("OK") => RunsGoOn
      BY <1>b, <2>1, <3>2
    <3> QED
      BY <1>c, <2>1, <2>3, <3>2, <3>3
  <2> QED
    BY <1>0, <1>7, <2>2, <2>3, MoveStepShape
<1>8. CASE ReadEmptyStep
  <2>1. /\ ids' = ids /\ seen' = seen /\ call.op = "read"
        /\ call' = NoCall \/ Continues("read")
    BY <1>0, <1>8, ReadEmptyStepShape
  <2>2. ASSUME NEW i \in Ids PROVE GoesOn(i)
    <3>1. ~Refreshing(i)
      BY <2>1 DEF Refreshing
    <3>2. PosOf(i)' = PosOf(i) /\ SeqOf(i)' = SeqOf(i)
      BY <2>1, NoCallTyped DEF PosOf, SeqOf, Moving, Continues
    <3> QED
      BY <2>1, <3>1, <3>2 DEF GoesOn, RunOf
  <2>3. ReadRuns'
    BY <2>1, NoCallTyped DEF OrderInv, ReadRuns, Continues
  <2> QED
    BY <2>2, <2>3 DEF RunsGoOn
<1>9. CASE ReadStep
  <2> DEFINE i == call.id
             r == ReadFrame(ids[i].pos, ids[i].seq, call.buf)
             n == IF r.rtn = "GET_A_NEW_FRAME" THEN r.frame
                  ELSE IF r.rtn = "ERROR" THEN 0 ELSE seen[i]
  <2>1. /\ MoveTo(r.pos, r.seq) /\ call' = NoCall /\ call.op = "read"
        /\ seen' = [seen EXCEPT ![i] = n]
    BY <1>0, <1>9, ReadStepShape
  <2>2. r.pos \in Places /\ r.seq \in Nat
    BY <1>0, <1>1, ReadTyped
  <2>3. ReadRuns'
    BY <2>1, NoCallTyped DEF ReadRuns
  <2>4. ASSUME NEW j \in Ids PROVE GoesOn(j)
    <3>1. CASE j # i
      BY <1>1, <1>2, <2>1, <2>2, <3>1, OtherGoesOn, NoCallTyped DEF Others
    <3>2. CASE j = i
      <4>1. PosOf(j)' = r.pos /\ SeqOf(j)' = r.seq /\ seen'[j] = n
        BY <1>1, <1>2, <2>1, <2>2, <3>2, NoCallTyped DEF PosOf, SeqOf, Moving
      <4> QED
        BY <1>9, <2>1, <3>2, <4>1 DEF GoesOn, Reads
    <3> QED
      BY <3>1, <3>2
  <2> QED
    BY <2>3, <2>4 DEF RunsGoOn
<1> QED
  BY <1>3, <1>4, <1>5, <1>6, <1>7, <1>8, <1>9 DEF CallStep

(* The calls that are one step, and the first step of the others.          *)
LEMMA QuickStepRuns ==
  ASSUME TypeOK, ApiTyped, OrderInv,
         \/ InitID \/ BeginCall \/ Answers
         \/ \E i \in Ids : CopyID(i) \/ RemoveID(i)
  PROVE  RunsGoOn
<1>0. INITIAL \notin Cells
  BY DEF Cells, INITIAL, START
<1>1. ASSUME NEW f, NEW id, NEW s, GivesID(f, id, s),
             s = 0 \/ \E i \in Ids : id = ids[i] /\ s = seen[i]
      PROVE  RunsGoOn
  <2>1. call.op = "none" /\ call' = call /\ f \in Ids
        /\ ids'[f] = id /\ seen' = [seen EXCEPT ![f] = s]
        /\ seen \in [Ids -> Nat \union {Torn}]
    BY <1>1 DEF GivesID, Unlocked, ApiTyped
  <2>2. ASSUME NEW i \in Ids PROVE GoesOn(i)
    <3>1. CASE i # f
      BY <1>1, <2>1, <3>1, OtherGoesOn DEF OrderInv, GivesID
    <3>2. CASE i = f
      <4>1. PosOf(i)' = id.pos /\ SeqOf(i)' = id.seq /\ seen'[i] = s
        BY <2>1, <3>2 DEF PosOf, SeqOf, Moving
      <4> QED
        BY <1>1, <2>1, <4>1 DEF GoesOn, RunOf, Refreshing, PosOf, SeqOf, Moving
    <3> QED
      BY <3>1, <3>2
  <2>3. ReadRuns'
    BY <2>1 DEF ReadRuns
  <2> QED
    BY <2>2, <2>3 DEF RunsGoOn
<1>2. CASE InitID
  BY <1>1, <1>2, InitIDShape
<1>3. ASSUME NEW i \in Ids, CopyID(i) PROVE RunsGoOn
  BY <1>1, <1>3, CopyIDShape
<1>4. ASSUME NEW f \in Ids, RemoveID(f) PROVE RunsGoOn
  <2>1. /\ call.op = "none" /\ call' = call
        /\ \A j \in Ids : j # f => ids'[j] = ids[j]
        /\ seen' = [seen EXCEPT ![f] = 0]
        /\ seen \in [Ids -> Nat \union {Torn}]
    BY <1>4, RemoveIDShape DEF Unlocked, ApiTyped
  <2>2. ASSUME NEW i \in Ids PROVE GoesOn(i)
    <3>1. CASE i # f
      BY <2>1, <3>1, OtherGoesOn DEF OrderInv
    <3>2. CASE i = f
      <4>1. seen'[i] = 0
        BY <2>1, <3>2
      <4> QED
        BY <4>1 DEF GoesOn
    <3> QED
      BY <3>1, <3>2
  <2>3. ReadRuns'
    BY <2>1 DEF ReadRuns
  <2> QED
    BY <2>2, <2>3 DEF RunsGoOn
<1>5. CASE Answers
  <2>1. ids' = ids /\ call' = call /\ seen' = seen
    BY <1>5, AnswersShape
  <2>2. ASSUME NEW i \in Ids, ~Refreshing(i)'
        PROVE  GoesOn(i)
    <3>1. ~Refreshing(i)
      BY <2>1, <2>2 DEF Refreshing
    <3>2. PosOf(i)' = PosOf(i) /\ SeqOf(i)' = SeqOf(i)
      BY <2>1 DEF PosOf, SeqOf, Moving
    <3> QED
      BY <2>1, <3>1, <3>2 DEF GoesOn, RunOf
  <2>3. ReadRuns'
    BY <2>1 DEF OrderInv, ReadRuns
  <2> QED
    BY <2>2, <2>3 DEF RunsGoOn
<1>6. CASE BeginCall
  <2>1. PICK f \in Ids : Begins(f)
    BY <1>6, BeginCallShape
  <2>2. Unlocked
    <3>1. \A i, op, at, c : Begin(i, op, at, c) => Unlocked
      BY DEF Begin
    <3> HIDE DEF Unlocked
    <3> QED
      BY <1>6, <3>1 DEF BeginCall, BeginRead, BeginRefresh, BeginMove
  <2>3. ASSUME NEW i \in Ids PROVE GoesOn(i)
    <3>1. ~Refreshing(i) /\ PosOf(i) = ids[i].pos /\ SeqOf(i) = ids[i].seq
      BY <2>2 DEF Unlocked, Refreshing, PosOf, SeqOf, Moving
    <3>2. PosOf(i)' = ids[i].pos /\ SeqOf(i)' = ids[i].seq /\ seen'[i] = seen[i]
      BY <2>1 DEF Begins, PosOf, SeqOf, Moving
    <3> QED
      BY <3>1, <3>2 DEF GoesOn, RunOf
  <2>4. ids[f].pos = INITIAL => seen[f] = 0
    BY <1>0, <2>2 DEF Unlocked, OrderInv, ReadersPast, Refreshing, PosOf,
                      Moving, Past
  <2>5. ReadRuns'
    BY <2>1, <2>4 DEF Begins, ReadRuns
  <2> QED
    BY <2>3, <2>5 DEF RunsGoOn
<1> QED
  BY <1>2, <1>3, <1>4, <1>5, <1>6

LEMMA ReaderRuns ==
  ASSUME TypeOK, ApiTyped, OrderInv, ReaderNext
  PROVE  RunsGoOn
<1>1. CASE CallStep
  BY <1>1, CallStepRuns
<1>2. CASE ~CallStep
  BY <1>2, QuickStepRuns DEF ReaderNext, Answers
<1> QED
  BY <1>1, <1>2

(* The steps of the readers keep every id past what it has read.           *)
LEMMA StepOrder ==
  ASSUME IInv, NumInv, FewFrames, ApiTyped, OrderInv, [ApiNext]_vars
  PROVE  OrderInv'
<1>0. TypeOK
  BY DEF IInv
<1>1. CASE ReaderNext
  <2>0. UNCHANGED ringVars /\ RunsGoOn
    BY <1>0, <1>1, ReaderRuns DEF ReaderNext
  <2>1. ASSUME NEW i \in Ids, ~Refreshing(i)'
        PROVE  Past(PosOf(i), SeqOf(i), seen[i])'
    <3>1. CASE seen'[i] = 0
      BY <3>1 DEF Past
    <3>2. ASSUME NEW j \in Ids, RunOf(i, j)
          PROVE  Past(PosOf(i), SeqOf(i), seen[i])'
      <4>1. Past(PosOf(j), SeqOf(j), seen[j])
        BY <3>2 DEF OrderInv, ReadersPast, RunOf
      <4> QED
        BY <2>0, <3>2, <4>1, SamePast DEF RunOf
    <3>3. CASE Reads(i)
      <4> DEFINE r == ReadFrame(ids[i].pos, ids[i].seq, call.buf)
                 n == IF r.rtn = "GET_A_NEW_FRAME" THEN r.frame
                      ELSE IF r.rtn = "ERROR" THEN 0 ELSE seen[i]
      <4>1. /\ ids[i].pos \in Places /\ ids[i].seq \in Nat
            /\ seen[i] \in Nat \union {Torn}
        BY DEF ApiTyped, IdType
      <4>2. Past(ids[i].pos, ids[i].seq, seen[i])
        BY <3>3 DEF Reads, OrderInv, ReadersPast, Refreshing, PosOf, SeqOf,
                    Moving
      <4>3. Past(r.pos, r.seq, n)
        BY <4>1, <4>2, ReadPast
      <4>4. PosOf(i)' = r.pos /\ SeqOf(i)' = r.seq /\ seen'[i] = n
        BY <3>3 DEF Reads
      <4> HIDE DEF r, n
      <4> QED
        BY <2>0, <4>3, <4>4, SamePast
    <3> QED
      BY <2>0, <2>1, <3>1, <3>2, <3>3 DEF RunsGoOn, GoesOn
  <2> QED
    BY <2>0, <2>1 DEF RunsGoOn, OrderInv, ReadersPast
<1>2. CASE WriterStep \/ UNCHANGED vars
  <2>1. ids' = ids /\ call' = call /\ seen' = seen /\ [Next]_ringVars
    BY <1>2 DEF WriterStep, Next, vars, apiVars
  <2>2. ASSUME NEW i \in Ids, ~Refreshing(i)'
        PROVE  Past(PosOf(i), SeqOf(i), seen[i])'
    <3>1. Past(PosOf(i), SeqOf(i), seen[i])
      BY <2>1, <2>2 DEF OrderInv, ReadersPast, Refreshing
    <3>2. PICK pos, seq, s : pos = PosOf(i) /\ seq = SeqOf(i) /\ s = seen[i]
      OBVIOUS
    <3>3. seq \in Nat /\ s \in Nat \union {Torn}
      BY <3>2 DEF SeqOf, Moving, ApiTyped, CallTyped, CallType, IdType
    <3>4. Past(pos, seq, s)'
      BY <2>1, <3>1, <3>2, <3>3, PastStays
    <3>5. PosOf(i)' = pos /\ SeqOf(i)' = seq /\ seen'[i] = s
      BY <2>1, <3>2 DEF PosOf, SeqOf, Moving
    <3> QED
      BY <3>4, <3>5
  <2>3. ReadRuns'
    BY <2>1 DEF OrderInv, ReadRuns
  <2> QED
    BY <2>2, <2>3 DEF OrderInv, ReadersPast
<1> QED
  BY <1>1, <1>2 DEF ApiNext

THEOREM OrderInvariant ==
  ASSUME FewFrames
  PROVE  ApiSpec => []OrderInv
<1>1. ApiInit => OrderInv
  BY DEF ApiInit, OrderInv, ReadersPast, ReadRuns, Past, NoCall
<1>2. /\ IInv /\ NumInv /\ ApiTyped /\ OrderInv /\ [ApiNext]_vars
      => OrderInv'
  BY StepOrder
<1> QED
  BY <1>1, <1>2, ApiRingInvariant, ApiNumbers, ApiTypes, PTL DEF ApiSpec

(* A step that returns no read leaves no frame behind.                     *)
LEMMA OnlyReadsGet ==
  ASSUME TypeOK, ApiTyped, ReaderNext, ~ReadStep
  PROVE  ~Got'
<1>0. ret' = NoReturn => ~Got'
  BY DEF NoReturn, Got
<1>1. CASE InitID \/ \E i \in Ids : CopyID(i) \/ RemoveID(i)
  BY <1>0, <1>1 DEF InitID, CopyID, RemoveID, Silent
<1>2. CASE BeginCall
  BY <1>0, <1>2, BeginCallShape DEF Begins
<1>3. CASE Answers
  BY <1>3, AnswersShape DEF Got
<1>4. CASE CallStep
  <2>1. ASSUME NEW at, Continues(at) PROVE ~Got'
    BY <1>0, <2>1 DEF Continues
  <2>2. ASSUME NEW rtn, Settled(rtn) PROVE ~Got'
    BY <2>1, <2>2 DEF Settled, Got
  <2>3. CASE RefreshStep
    BY <2>1, <2>2, <2>3, RefreshStepShape
  <2>4. CASE NewestExtrasStep
    BY <2>1, <2>2, <2>4, NewestStepShape
  <2>5. CASE ExtrasStep
    BY <2>1, <2>2, <2>5, ExtrasStepShape
  <2>6. CASE MoveEmptyStep
    BY <2>1, <2>2, <2>6, MoveEmptyStepShape
  <2>7. CASE MoveStep
    BY <2>1, <2>2, <2>7, MoveStepShape
  <2>8. CASE ReadEmptyStep
    <3>1. CASE IsEmpty
      BY <2>8, <3>1 DEF ReadEmptyStep, Return, Got
    <3>2. CASE ~IsEmpty
      BY <1>0, <2>8, <3>2 DEF ReadEmptyStep, Silent
    <3> QED
      BY <3>1, <3>2
  <2> QED
    BY <1>4, <2>3, <2>4, <2>5, <2>6, <2>7, <2>8 DEF CallStep
<1> QED
  BY <1>1, <1>2, <1>3, <1>4 DEF ReaderNext, Answers

LEMMA StepReadsInOrder ==
  ASSUME IInv, NumInv, FewFrames, ApiTyped, OrderInv, ReadsInOrder,
         [ApiNext]_vars
  PROVE  ReadsInOrder'
<1>1. CASE WriterStep
  BY <1>1 DEF WriterStep, Silent, NoReturn, ReadsInOrder, Got
<1>2. CASE UNCHANGED vars
  BY <1>2 DEF vars, apiVars, ReadsInOrder, Got
<1>3. CASE ReaderNext /\ ~ReadStep
  BY <1>3, OnlyReadsGet DEF ReadsInOrder, IInv
<1>4. CASE ReadStep
  <2> DEFINE i == call.id
             s == seen[i]
             r == ReadFrame(ids[i].pos, ids[i].seq, call.buf)
  <2>1. /\ ret'.rtn = r.rtn /\ ret'.got = r.frame /\ ret'.last = call.last
        /\ call.op = "read"
    BY <1>4, ReadStepShape DEF IInv
  <2>2. /\ call.last = s /\ s \in Nat \union {Torn}
        /\ Past(ids[i].pos, ids[i].seq, s)
        /\ ids[i].pos \in Places /\ ids[i].seq \in Nat
    <3>1. i \in Ids
      BY <2>1 DEF ApiTyped, CallTyped
    <3> QED
      BY <2>1, <3>1 DEF ApiTyped, IdType, OrderInv, ReadRuns, ReadersPast,
                        Refreshing, PosOf, SeqOf, Moving
  <2>3. r.rtn = "GET_A_NEW_FRAME" /\ s # 0 /\ r.frame # Torn => r.frame > s
    BY <2>2, ReadPast
  <2> HIDE DEF r, s
  <2> QED
    BY <2>1, <2>2, <2>3 DEF ReadsInOrder, Got, Torn
<1> QED
  BY <1>1, <1>2, <1>3, <1>4 DEF ApiNext

(* While an id reads on, no frame is handed over twice or after a newer    *)
(* one: from whatever place the writer's laps, restarts and crashes leave  *)
(* it at.                                                                  *)
THEOREM FramesInOrder ==
  ASSUME FewFrames
  PROVE  ApiSpec => []ReadsInOrder
<1>1. ApiInit => ReadsInOrder
  BY DEF ApiInit, NoReturn, ReadsInOrder, Got
<1>2. /\ IInv /\ NumInv /\ ApiTyped /\ OrderInv /\ ReadsInOrder
      /\ [ApiNext]_vars
      => ReadsInOrder'
  BY StepReadsInOrder
<1> QED
  BY <1>1, <1>2, ApiRingInvariant, ApiNumbers, ApiTypes, OrderInvariant, PTL
  DEF ApiSpec

------------------------------------------------------------------------------
(* The abstract log.  Where no writer dies inside WriteFrame, every step   *)
(* of ring, ids and calls is one of FrameLog or shows nothing of it.       *)

WholeOnly == cutAt = INITIAL /\ \A i \in Ids : seen[i] # Torn

(* What a step of a call does to the ids that live and what they have read. *)
LEMMA CallStepInLog ==
  ASSUME IInv, NumInv, FewFrames, ApiTyped, OrderInv, WholeOnly, CallStep,
         UNCHANGED ringVars
  PROVE  /\ Live' = Live /\ call.id \in Live
         /\ \/ seen' = seen
            \/ seen' = [seen EXCEPT ![call.id] = 0]
            \/ \E n \in seen[call.id] + 1 .. frameNo :
                 seen' = [seen EXCEPT ![call.id] = n]
<1>0. TypeOK
  BY DEF IInv
<1>1. /\ call \in CallType /\ call.op # "none" /\ call.id \in Live
      /\ ids \in [Ids -> IdType]
      /\ seen \in [Ids -> Nat \union {Torn}]
      /\ ids[call.id].pos \in Places /\ ids[call.id].seq \in Nat
      /\ call.bakPos \in Places /\ call.bakSeq \in Nat
  <2>1. call.op # "none"
    BY DEF ApiTyped, CallTyped, CallStep, RefreshStep, NewestExtrasStep,
           ExtrasStep, MoveEmptyStep, MoveStep, ReadEmptyStep, ReadStep
  <2>2. call \in CallType /\ ids \in [Ids -> IdType] /\ call.id \in Live
    BY <2>1 DEF ApiTyped, CallTyped, Live
  <2> QED
    BY <2>1, <2>2 DEF ApiTyped, CallTyped, CallType, IdType, Live
<1>2. ASSUME NEW pos \in Places, NEW seq \in Nat, MoveTo(pos, seq)
      PROVE  Live' = Live
  BY <1>1, <1>2, MoveToMoves DEF Live
<1>a. ids' = ids => Live' = Live
  BY DEF Live
<1>b. ASSUME NEW rtn, Settled(rtn)
      PROVE  seen' = seen \/ seen' = [seen EXCEPT ![call.id] = 0]
  BY <1>b DEF Settled
<1>3. CASE RefreshStep
  BY <1>0, <1>1, <1>2, <1>3, <1>b, RefreshStepShape, MoveTyped
<1>4. CASE NewestExtrasStep
  BY <1>0, <1>1, <1>4, <1>a, <1>b, NewestStepShape
<1>5. CASE ExtrasStep
  BY <1>0, <1>1, <1>5, <1>a, <1>b, ExtrasStepShape
<1>6. CASE MoveEmptyStep
  BY <1>0, <1>1, <1>2, <1>6, <1>a, <1>b, MoveEmptyStepShape
<1>7. CASE MoveStep
  <2> DEFINE pos == ids[call.id].pos
             seq == ids[call.id].seq
  <2>1. \A r \in {MoveBack(pos, seq), MoveForward(pos, seq)} :
          r.pos \in Places /\ r.seq \in Nat
    BY <1>0, <1>1, MoveTyped
  <2> QED
    BY <1>0, <1>1, <1>2, <1>7, <1>b, <2>1, MoveStepShape
<1>8. CASE ReadEmptyStep
  BY <1>0, <1>1, <1>8, <1>a, ReadEmptyStepShape
<1>9. CASE ReadStep
  <2> DEFINE i == call.id
             s == seen[i]
             r == ReadFrame(ids[i].pos, ids[i].seq, call.buf)
             n == IF r.rtn = "GET_A_NEW_FRAME" THEN r.frame
                  ELSE IF r.rtn = "ERROR" THEN 0 ELSE s
  <2>1. /\ MoveTo(r.pos, r.seq) /\ call.op = "read"
        /\ seen' = [seen EXCEPT ![i] = n]
    BY <1>0, <1>9, ReadStepShape
  <2>2. /\ s \in Nat /\ Past(ids[i].pos, ids[i].seq, s)
    BY <1>1, <2>1 DEF WholeOnly, Live, OrderInv, ReadersPast, Refreshing,
                      PosOf, SeqOf, Moving
  <2>3. /\ Past(r.pos, r.seq, n) /\ r.pos \in Places /\ r.seq \in Nat
        /\ r.rtn = "GET_A_NEW_FRAME" /\ r.frame # Torn
             => r.frame \in Nat \ {0} /\ (s # 0 => r.frame > s)
    BY <1>0, <1>1, <2>2, ReadPast, ReadTyped
  <2>4. r.rtn = "GET_A_NEW_FRAME" => r.frame # Torn
    BY ReadHandsWholeFrames DEF WholeOnly
  <2> HIDE DEF r
  <2>5. Live' = Live
    BY <1>2, <2>1, <2>3
  <2>6. CASE r.rtn = "GET_A_NEW_FRAME"
    <3>1. n \in Nat \ {0} /\ n > s
      BY <2>2, <2>3, <2>4, <2>6
    <3>2. n <= frameNo
      BY <2>3, <2>4, <2>6, <3>1 DEF Past
    <3>3. n \in s + 1 .. frameNo
      BY <1>0, <2>2, <3>1, <3>2 DEF TypeOK
    <3> QED
      BY <1>1, <2>1, <2>5, <3>3
  <2>7. CASE r.rtn = "ERROR"
    BY <1>1, <2>1, <2>5, <2>7
  <2>8. CASE r.rtn \notin {"GET_A_NEW_FRAME", "ERROR"}
    <3>1. seen' = seen
      BY <1>1, <2>1, <2>8
    <3> QED
      BY <1>1, <2>5, <3>1
  <2> QED
    BY <2>6, <2>7, <2>8
<1> QED
  BY <1>3, <1>4, <1>5, <1>6, <1>7, <1>8, <1>9 DEF CallStep

LEMMA StepWholeOnly ==
  ASSUME IInv, NumInv, FewFrames, ApiTyped, OrderInv, WholeOnly, ~Crashes,
         [ApiNext]_vars
  PROVE  WholeOnly'
<1>0. TypeOK /\ seen \in [Ids -> Nat \union {Torn}] /\ 0 # Torn
  BY DEF IInv, ApiTyped, Torn
<1>1. CASE WriterStep
  <2>1. cutAt' = INITIAL /\ seen' = seen
    BY <1>1 DEF WriterStep, WriterNext, InitShm, ShmWrite, DetachWrite,
                WriteFrame, WholeOnly
  <2> QED
    BY <2>1 DEF WholeOnly
<1>2. CASE UNCHANGED vars
  BY <1>2 DEF vars, ringVars, apiVars, WholeOnly
<1>3. CASE ReaderNext
  <2>0. UNCHANGED ringVars /\ cutAt' = INITIAL
    BY <1>3 DEF ReaderNext, ringVars, WholeOnly
  <2>1. CASE CallStep
    <3>1. \A n \in seen[call.id] + 1 .. frameNo : n # Torn
      <4>1. call.id \in Ids
        BY <2>0, <2>1, CallStepInLog DEF Live
      <4>2. seen[call.id] \in Nat
        BY <1>0, <4>1 DEF WholeOnly
      <4> QED
        BY <4>2 DEF Torn
    <3> QED
      BY <1>0, <2>0, <2>1, <3>1, CallStepInLog DEF WholeOnly
  <2>2. ASSUME NEW f, NEW id, NEW s, GivesID(f, id, s), s # Torn
        PROVE  WholeOnly'
    BY <1>0, <2>0, <2>2 DEF GivesID, WholeOnly
  <2>3. CASE InitID
    BY <1>0, <2>2, <2>3, InitIDShape
  <2>4. ASSUME NEW i \in Ids, CopyID(i) PROVE WholeOnly'
    BY <2>2, <2>4, CopyIDShape DEF WholeOnly
  <2>5. ASSUME NEW i \in Ids, RemoveID(i) PROVE WholeOnly'
    BY <1>0, <2>0, <2>5, RemoveIDShape DEF WholeOnly
  <2>6. CASE BeginCall
    BY <1>0, <2>0, <2>6, BeginCallShape DEF Begins, WholeOnly
  <2>7. CASE Answers
    BY <1>0, <2>0, <2>7, AnswersShape DEF WholeOnly
  <2> QED
    BY <1>3, <2>1, <2>3, <2>4, <2>5, <2>6, <2>7 DEF ReaderNext, Answers
<1> QED
  BY <1>1, <1>2, <1>3 DEF ApiNext

(* Every step is one of the log, or none.                                  *)
LEMMA StepsAsLog ==
  ASSUME IInv, NumInv, FewFrames, ApiTyped, OrderInv, WholeOnly, ~Crashes,
         [ApiNext]_vars
  PROVE  [Log!LogNext]_<<frameNo, Live, seen>>
<1>0. TypeOK /\ seen \in [Ids -> Nat \union {Torn}]
  BY DEF IInv, ApiTyped
<1>a. ids' = ids => Live' = Live
  BY DEF Live
<1>1. CASE WriterStep
  <2>1. ids' = ids /\ seen' = seen
    BY <1>1 DEF WriterStep
  <2>2. frameNo' = frameNo \/ frameNo' = frameNo + 1
    BY <1>1 DEF WriterStep, WriterNext, InitShm, ShmWrite, DetachWrite,
                WriteFrame
  <2> QED
    BY <1>a, <2>1, <2>2 DEF Log!LogNext, Log!Write
<1>2. CASE UNCHANGED vars
  BY <1>2, <1>a DEF vars, ringVars, apiVars
<1>3. CASE ReaderNext
  <2>0. UNCHANGED ringVars /\ frameNo' = frameNo
    BY <1>3 DEF ReaderNext, ringVars
  <2>1. CASE CallStep
    <3>1. Live' = Live /\ call.id \in Live /\ call.id \in Ids
      BY <2>0, <2>1, CallStepInLog DEF Live
    <3>2. CASE seen' = [seen EXCEPT ![call.id] = 0]
      BY <2>0, <3>1, <3>2 DEF Log!LogNext, Log!Rewind
    <3>3. CASE \E n \in seen[call.id] + 1 .. frameNo :
                 seen' = [seen EXCEPT ![call.id] = n]
      BY <2>0, <3>1, <3>3 DEF Log!LogNext, Log!Get
    <3> QED
      BY <2>0, <2>1, <3>1, <3>2, <3>3, CallStepInLog
  <2>2. ASSUME NEW f, NEW id, NEW s, GivesID(f, id, s)
        PROVE  /\ f \in Ids /\ f \notin Live /\ Live' = Live \union {f}
               /\ seen' = [seen EXCEPT ![f] = s]
    BY <2>2 DEF GivesID, Live
  <2>3. CASE InitID
    <3>1. /\ FirstFree \in Ids /\ FirstFree \notin Live
          /\ Live' = Live \union {FirstFree}
          /\ seen' = [seen EXCEPT ![FirstFree] = 0]
      BY <2>2, <2>3, InitIDShape
    <3> QED
      BY <2>0, <3>1 DEF Log!LogNext, Log!Open
  <2>4. ASSUME NEW i \in Ids, CopyID(i) PROVE Log!LogNext
    <3>1. /\ FirstFree \in Ids /\ FirstFree \notin Live
          /\ Live' = Live \union {FirstFree}
          /\ seen' = [seen EXCEPT ![FirstFree] = seen[i]]
      BY <2>2, <2>4, CopyIDShape
    <3>2. i \in Live
      BY <2>4 DEF CopyID
    <3> QED
      BY <2>0, <3>1, <3>2 DEF Log!LogNext, Log!Copy
  <2>5. ASSUME NEW i \in Ids, RemoveID(i) PROVE Log!LogNext
    <3>1. /\ i \in Live /\ Live' = Live \ {i}
          /\ seen' = [seen EXCEPT ![i] = 0]
      BY <2>5, RemoveIDShape, FreshTyped DEF Live
    <3> QED
      BY <2>0, <3>1 DEF Log!LogNext, Log!Close
  <2>6. CASE BeginCall
    BY <1>0, <1>a, <2>0, <2>6, BeginCallShape DEF Begins
  <2>7. CASE Answers
    BY <1>0, <1>a, <2>0, <2>7, AnswersShape
  <2> QED
    BY <1>3, <2>1, <2>3, <2>4, <2>5, <2>6, <2>7 DEF ReaderNext, Answers
<1> QED
  BY <1>1, <1>2, <1>3 DEF ApiNext

(* The ring with its ids and calls implements the log of frames.           *)
THEOREM ImplementsLog ==
  ASSUME FewFrames, ~Crashes
  PROVE  ApiSpec => BehavesAsLog
<1>1. ApiInit => WholeOnly /\ Log!LogInit
  BY DEF ApiInit, Init, WholeOnly, Torn, Log!LogInit, Live, Free
<1>2. /\ IInv /\ NumInv /\ ApiTyped /\ OrderInv /\ WholeOnly /\ [ApiNext]_vars
      => WholeOnly'
  BY StepWholeOnly
<1>3. /\ IInv /\ NumInv /\ ApiTyped /\ OrderInv /\ WholeOnly /\ [ApiNext]_vars
      => [Log!LogNext]_<<frameNo, Live, seen>>
  BY StepsAsLog
<1> QED
  BY <1>1, <1>2, <1>3, ApiRingInvariant, ApiNumbers, ApiTypes,
     OrderInvariant, PTL
  DEF ApiSpec, BehavesAsLog, Log!LogSpec, Log!logVars

------------------------------------------------------------------------------
(* Key frames.  What a call that repositions an id hands back.             *)

Repositions == {"back", "forward", "refresh"}

Reports(rtn, pos, seq) ==
  ret'.op \in Repositions =>
    /\ ret'.op = call.op /\ ret'.rtn = rtn /\ ret'.keyed = call.keyed
    /\ ret'.stood = call.stood /\ ret'.asked = call.asked
    /\ ret'.began = call.began /\ ret'.ended = frameNo
    /\ ret'.stands = Standing(pos, seq)
    /\ ret'.key = FrameAt(CheckOverflowed(pos, seq)).key

LEMMA RefreshedReports ==
  ASSUME call.op \in {"read", "refresh"}, NEW rtn, NEW pos, NEW seq,
         Refreshed(rtn, pos, seq)
  PROVE  Reports(rtn, pos, seq)
<1>1. CASE call.op = "refresh"
  BY <1>1 DEF Refreshed, Reposition, Return, Reports
<1>2. CASE call.op = "read" /\ rtn = "ERROR"
  BY <1>2 DEF Refreshed, Return, Reports, Repositions
<1>3. CASE call.op = "read" /\ rtn # "ERROR"
  BY <1>3 DEF Refreshed, Silent, NoReturn, Reports, Repositions
<1> QED
  BY <1>1, <1>2, <1>3

LEMMA MovedReports ==
  ASSUME call \in CallType, call.op # "none", NEW rtn, NEW pos, NEW seq,
         Moved(rtn, pos, seq)
  PROVE  Reports(rtn, pos, seq)
<1>1. CASE call.op \in {"back", "forward"}
  BY <1>1 DEF Moved, Reposition, Return, Reports
<1>2. CASE call.op \notin {"back", "forward"}
  BY <1>2, RefreshedReports DEF Moved, CallType
<1> QED
  BY <1>1, <1>2

(* A call by key frames has key frames left to find.                       *)
KeysLeft ==
  call.keyed /\ call.at \in {"extras", "moveEmpty", "move"} => call.steps > 0

(* The flag that was read is that of the frame the id stands for, if that  *)
(* is still there.                                                         *)
LEMMA FlagOfFrame ==
  ASSUME "key" \in ExtrasSeen,
         Standing(ids[call.id].pos, ids[call.id].seq) # 0
  PROVE  FrameAt(CheckOverflowed(ids[call.id].pos, ids[call.id].seq)).key
<1> DEFINE pos == ids[call.id].pos
           seq == ids[call.id].seq
           f   == FrameAt(CheckOverflowed(pos, seq))
<1>1. CASE f.magic
  <2>1. GetExtras(pos, seq).rtn = "OK" /\ GetExtras(pos, seq).key = f.key
    BY <1>1 DEF GetExtras
  <2> QED
    BY <2>1 DEF ExtrasSeen
<1>2. CASE ~f.magic
  <2>1. CaughtUp(seq)
    BY <1>2 DEF Standing, CaughtUp
  <2>2. /\ GetExtras(pos, seq).rtn = "NEXT_FRAME_OF_NEWEST"
        /\ GetExtras(pos, seq).key = FALSE
    BY <1>2, <2>1 DEF GetExtras
  <2> QED
    BY <2>2 DEF ExtrasSeen
<1> QED
  BY <1>1, <1>2

LEMMA CallStepKeys ==
  ASSUME TypeOK, ApiTyped, KeysLeft, CallStep
  PROVE  /\ KeysLeft'
         /\ /\ ret'.op \in Repositions /\ ret'.keyed /\ ret'.rtn = "OK"
            /\ ret'.stands # 0
            => ret'.key
<1> DEFINE pos == ids[call.id].pos
           seq == ids[call.id].seq
           OnKey == /\ ret'.op \in Repositions /\ ret'.keyed
                    /\ ret'.rtn = "OK" /\ ret'.stands # 0
                    => ret'.key
<1>1. /\ call \in CallType /\ call.op # "none"
      /\ call.at \in {"refresh", "newest"} => call.op \in {"read", "refresh"}
      /\ call.steps \in Int
  BY DEF ApiTyped, CallTyped, CallType, CallStep, RefreshStep,
         NewestExtrasStep, ExtrasStep, MoveEmptyStep, MoveStep, ReadEmptyStep,
         ReadStep
<1>a. NoReturn.op \notin Repositions
  BY DEF NoReturn, Repositions
<1>b. ASSUME NEW rtn, Settled(rtn) PROVE KeysLeft'
  <2>1. call' = NoCall \/ call'.at = "empty"
    BY <1>b DEF Settled, Continues
  <2> QED
    BY <2>1, NoCallTyped DEF KeysLeft
<1>c. ASSUME NEW rtn, NEW p, NEW n, Moved(rtn, p, n),
             rtn = "ERROR" \/ ~call.keyed
      PROVE  OnKey
  <2>1. Reports(rtn, p, n)
    BY <1>1, <1>c, MovedReports
  <2> QED
    BY <1>c, <2>1 DEF Reports
<1>d. ASSUME NEW rtn, Reports(rtn, pos, seq),
             call.keyed => "key" \in ExtrasSeen
      PROVE  OnKey
  <2> SUFFICES ASSUME ret'.op \in Repositions, ret'.keyed, ret'.stands # 0
               PROVE  ret'.key
    OBVIOUS
  <2>1. /\ call.keyed /\ Standing(pos, seq) # 0
        /\ ret'.key = FrameAt(CheckOverflowed(pos, seq)).key
    BY <1>d DEF Reports
  <2>2. FrameAt(CheckOverflowed(pos, seq)).key
    BY <1>d, <2>1, FlagOfFrame
  <2> QED
    BY <2>1, <2>2
<1>3. CASE RefreshStep
  <2>1. CASE call.keyed
    BY <1>1, <1>3, <1>a, <2>1 DEF RefreshStep, Silent, KeysLeft, CallType
  <2>2. CASE ~call.keyed
    <3>1. Refreshed(Refresh.rtn, Refresh.pos, Refresh.seq)
          /\ call.op \in {"read", "refresh"}
      BY <1>1, <1>3, <2>2 DEF RefreshStep
    <3>2. OnKey
      BY <2>2, <3>1, RefreshedReports DEF Reports
    <3>3. Settled(Refresh.rtn)
      BY <1>1, <3>1, RefreshedSettles
    <3> QED
      BY <1>b, <3>2, <3>3
  <2> QED
    BY <2>1, <2>2
<1>4. CASE NewestExtrasStep
  <2>1. PICK extra \in ExtrasSeen :
          IF extra = "key"
          THEN Refreshed(call.rtn, pos, seq)
          ELSE /\ call' = [call EXCEPT !.at = "extras", !.steps = 1,
                                       !.back = TRUE, !.bakPos = pos,
                                       !.bakSeq = seq]
               /\ Silent /\ UNCHANGED seen
    BY <1>4 DEF NewestExtrasStep
  <2>2. CASE extra = "key"
    <3>1. call.op \in {"read", "refresh"}
      BY <1>1, <1>4 DEF NewestExtrasStep
    <3>2. OnKey
      BY <1>d, <2>1, <2>2, <3>1, RefreshedReports
    <3>3. Settled(call.rtn)
      BY <1>1, <2>1, <2>2, <3>1, RefreshedSettles
    <3> QED
      BY <1>b, <3>2, <3>3
  <2>3. CASE extra # "key"
    <3>1. call'.steps = 1
      BY <1>1, <2>1, <2>3 DEF CallType
    <3> QED
      BY <1>a, <2>1, <2>3, <3>1 DEF Silent, KeysLeft
  <2> QED
    BY <2>2, <2>3
<1>5. CASE ExtrasStep
  <2>1. PICK extra \in ExtrasSeen :
          LET left == IF Counts(extra) THEN call.steps - 1 ELSE call.steps
          IN IF left = 0
             THEN Moved("OK", pos, seq)
             ELSE /\ call' = [call EXCEPT !.at = "moveEmpty", !.steps = left,
                                          !.extra = extra]
                  /\ Silent /\ UNCHANGED seen
    BY <1>5 DEF ExtrasStep
  <2> DEFINE left == IF Counts(extra) THEN call.steps - 1 ELSE call.steps
  <2>2. call.at = "extras"
    BY <1>5 DEF ExtrasStep
  <2>3. CASE left = 0
    <3>1. Moved("OK", pos, seq)
      BY <2>1, <2>3
    <3>2. call.keyed => extra = "key"
      BY <1>1, <2>2, <2>3 DEF KeysLeft, Counts
    <3>3. OnKey
      BY <1>1, <1>d, <2>1, <3>1, <3>2, MovedReports
    <3> QED
      BY <1>1, <1>b, <3>1, <3>3, MovedSettles
  <2>4. CASE left # 0
    <3>1. /\ call' = [call EXCEPT !.at = "moveEmpty", !.steps = left,
                                  !.extra = extra]
          /\ Silent
      BY <2>1, <2>4
    <3>2. left \in Int /\ (call.keyed => left > 0)
      BY <1>1, <2>2, <2>4 DEF KeysLeft
    <3> HIDE DEF left
    <3>3. call'.steps = left /\ call'.keyed = call.keyed
      BY <1>1, <3>1 DEF CallType
    <3> QED
      BY <1>a, <3>1, <3>2, <3>3 DEF Silent, KeysLeft
  <2> QED
    BY <2>3, <2>4
<1>6. CASE MoveEmptyStep
  <2>1. CASE IsEmpty
    <3>1. Moved("ERROR", call.bakPos, call.bakSeq)
      BY <1>6, <2>1 DEF MoveEmptyStep, GiveUp
    <3>2. OnKey
      BY <1>1, <1>c, <3>1
    <3> QED
      BY <1>1, <1>b, <3>1, <3>2, MovedSettles
  <2>2. CASE ~IsEmpty
    BY <1>1, <1>6, <1>a, <2>2
    DEF MoveEmptyStep, Silent, KeysLeft, CallType
  <2> QED
    BY <2>1, <2>2
<1>7. CASE MoveStep
  <2> DEFINE r == IF call.back THEN MoveBack(pos, seq)
                  ELSE MoveForward(pos, seq)
             left == IF call.keyed THEN call.steps ELSE call.steps - 1
             at == IF call.keyed THEN "extras" ELSE "moveEmpty"
  <2>1. /\ call.at = "move"
        /\ IF r.rtn # "OK" THEN GiveUp
           ELSE /\ MoveTo(r.pos, r.seq)
                /\ IF left = 0 THEN Moved("OK", r.pos, r.seq)
                   ELSE /\ call' = [call EXCEPT !.at = at, !.steps = left,
                                                !.moved = TRUE]
                        /\ Silent /\ UNCHANGED seen
    BY <1>7 DEF MoveStep
  <2>2. left \in Int /\ (call.keyed => left > 0)
    BY <1>1, <2>1 DEF KeysLeft
  <2> HIDE DEF r, at, left
  <2>3. CASE r.rtn # "OK"
    <3>1. Moved("ERROR", call.bakPos, call.bakSeq)
      BY <2>1, <2>3 DEF GiveUp
    <3>2. OnKey
      BY <1>1, <1>c, <3>1
    <3> QED
      BY <1>1, <1>b, <3>1, <3>2, MovedSettles
  <2>4. CASE r.rtn = "OK" /\ left = 0
    <3>1. Moved("OK", r.pos, r.seq) /\ ~call.keyed
      BY <2>1, <2>2, <2>4
    <3>2. OnKey
      BY <1>1, <1>c, <3>1
    <3> QED
      BY <1>1, <1>b, <3>1, <3>2, MovedSettles
  <2>5. CASE r.rtn = "OK" /\ left # 0
    <3>1. /\ call' = [call EXCEPT !.at = at, !.steps = left, !.moved = TRUE]
          /\ Silent
      BY <2>1, <2>5
    <3>2. call'.steps = left /\ call'.keyed = call.keyed
      BY <1>1, <3>1 DEF CallType
    <3> QED
      BY <1>a, <2>2, <3>1, <3>2 DEF Silent, KeysLeft
  <2> QED
    BY <2>3, <2>4, <2>5
<1>8. CASE ReadEmptyStep
  <2>1. call' = NoCall \/ call'.at = "read"
    BY <1>8, ReadEmptyStepShape DEF Continues
  <2>2. KeysLeft'
    BY <2>1, NoCallTyped DEF KeysLeft
  <2>3. call.op = "read"
    BY <1>8, ReadEmptyStepShape
  <2>4. OnKey
    BY <1>8, <1>a, <2>3 DEF ReadEmptyStep, Return, Silent, Repositions
  <2> QED
    BY <2>2, <2>4
<1>9. CASE ReadStep
  BY <1>9, ReadStepShape, NoCallTyped DEF KeysLeft, Repositions
<1> QED
  BY <1>3, <1>4, <1>5, <1>6, <1>7, <1>8, <1>9 DEF CallStep

(* Every other step leaves no report of a call that moved an id.           *)
LEMMA OtherStepKeys ==
  ASSUME TypeOK, ApiTyped, KeysLeft, ReaderNext, ~CallStep
  PROVE  KeysLeft' /\ ret'.op \notin Repositions
<1>a. NoReturn.op \notin Repositions
  BY DEF NoReturn, Repositions
<1>1. ASSUME NEW f, NEW id, NEW s, GivesID(f, id, s)
      PROVE  KeysLeft' /\ ret'.op \notin Repositions
  BY <1>1, <1>a DEF GivesID, KeysLeft
<1>2. CASE InitID
  BY <1>1, <1>2, InitIDShape
<1>3. ASSUME NEW i \in Ids, CopyID(i)
      PROVE  KeysLeft' /\ ret'.op \notin Repositions
  BY <1>1, <1>3, CopyIDShape
<1>4. ASSUME NEW i \in Ids, RemoveID(i)
      PROVE  KeysLeft' /\ ret'.op \notin Repositions
  BY <1>4, <1>a, RemoveIDShape DEF KeysLeft
<1>5. CASE Answers
  BY <1>5, AnswersShape DEF KeysLeft, Repositions
<1>6. CASE BeginCall
  <2>1. ret'.op \notin Repositions
    BY <1>6, <1>a, BeginCallShape DEF Begins
  <2>2. ASSUME NEW i \in Ids, NEW keyed \in {FALSE, H264}, NEW steps \in Steps,
               NEW op \in {"back", "forward"}, BeginMove(i, op, steps, keyed)
        PROVE  call'.steps > 0
    <3>1. steps > 0 /\ call'.steps = steps
      BY <2>2 DEF BeginMove, Begin, NoCall
    <3> QED
      BY <3>1
  <2>3. ASSUME NEW i \in Ids, NEW buf \in Buffers, BeginRead(i, buf)
        PROVE  call'.at \in {"refresh", "empty"}
    BY <2>3 DEF BeginRead, Begin, NoCall
  <2>4. ASSUME NEW i \in Ids, NEW keyed \in {FALSE, H264},
               BeginRefresh(i, keyed)
        PROVE  call'.at = "refresh"
    BY <2>4 DEF BeginRefresh, Begin, NoCall
  <2> QED
    BY <1>6, <2>1, <2>2, <2>3, <2>4 DEF BeginCall, KeysLeft
<1> QED
  BY <1>2, <1>3, <1>4, <1>5, <1>6 DEF ReaderNext, Answers

LEMMA StepKeys ==
  ASSUME IInv, ApiTyped, KeysLeft, KeyedMovesEndOnKey, [ApiNext]_vars
  PROVE  KeysLeft' /\ KeyedMovesEndOnKey'
<1>0. TypeOK
  BY DEF IInv
<1>1. CASE WriterStep
  BY <1>1 DEF WriterStep, Silent, NoReturn, KeysLeft, KeyedMovesEndOnKey
<1>2. CASE UNCHANGED vars
  BY <1>2 DEF vars, apiVars, ringVars, KeysLeft, KeyedMovesEndOnKey,
              StaysInWindow, Kept
<1>3. CASE ReaderNext /\ CallStep
  <2>1. StaysInWindow(ret.stands)' => ret'.stands # 0
    <3>1. base' \in Nat
      BY <1>0, <1>3 DEF ReaderNext, ringVars, TypeOK
    <3> QED
      BY <3>1 DEF StaysInWindow
  <2> QED
    BY <1>0, <1>3, <2>1, CallStepKeys DEF KeyedMovesEndOnKey, Repositions
<1>4. CASE ReaderNext /\ ~CallStep
  BY <1>0, <1>4, OtherStepKeys DEF KeyedMovesEndOnKey, Repositions
<1> QED
  BY <1>1, <1>2, <1>3, <1>4 DEF ApiNext

(* A call that moves an id by key frames, or to the newest one, and says   *)
(* it has, leaves the id on a key frame, if the frame is still there.      *)
THEOREM KeyCallsEndOnKey == ApiSpec => []KeyedMovesEndOnKey
<1>1. ApiInit => KeysLeft /\ KeyedMovesEndOnKey
  BY DEF ApiInit, NoCall, NoReturn, KeysLeft, KeyedMovesEndOnKey
<1>2. /\ IInv /\ ApiTyped /\ KeysLeft /\ KeyedMovesEndOnKey /\ [ApiNext]_vars
      => KeysLeft' /\ KeyedMovesEndOnKey'
  BY StepKeys
<1> QED
  BY <1>1, <1>2, ApiRingInvariant, ApiTypes, PTL DEF ApiSpec

------------------------------------------------------------------------------
(* Where an id stands, as sequence numbers tell it.                        *)

(* What an id stands for is what its sequence number says, counted from    *)
(* the last format.                                                        *)
LEMMA StandingNumber ==
  ASSUME IInv, NumInv, FewFrames, cutAt = INITIAL,
         NEW pos \in Places, NEW seq \in Nat, Standing(pos, seq) # 0
  PROVE  /\ pos # INITIAL /\ Standing(pos, seq) = base + seq
         /\ seq <= uiNewestFrameSeq + 1
<1> USE RingAssumption
<1> DEFINE p == CheckOverflowed(pos, seq)
           f == FrameAt(p)
<1>1. /\ pos # INITIAL /\ frameNo \in Nat /\ base \in Nat
      /\ uiNewestFrameSeq = frameNo - base /\ uiNewestFrameSeq \in Nat
  BY DEF Standing, IInv, TypeOK, NumInv, Counters
<1>2. CASE f.magic /\ f.seq = seq
  <2>1. p # INITIAL
    BY <1>1 DEF CheckOverflowed, START, INITIAL
  <2>2. p \in Cells
    BY <1>2, <2>1 DEF FrameAt, Zero
  <2>3. f = shm[p] /\ p \in Framed
    BY <1>2, <2>1, <2>2, FrameAtCell DEF Framed
  <2>4. Readable(p) /\ shm[p].frame \in Nat
    BY <2>3, FramedReadable DEF IInv, TypeOK, Cell, Framed
  <2>5. /\ shm[p].seq = shm[p].frame - base /\ shm[p].frame > base
        /\ shm[p].frame <= frameNo
    BY <2>2, <2>4 DEF NumInv, SeqNumbered, CellsNumbered
  <2>6. Standing(pos, seq) = shm[p].frame
    BY <1>1, <1>2, <2>3 DEF Standing
  <2> QED
    BY <1>1, <1>2, <2>3, <2>4, <2>5, <2>6
<1>3. CASE ~(f.magic /\ f.seq = seq)
  <2>1. seq = uiNewestFrameSeq + 1 /\ Standing(pos, seq) = frameNo + 1
    BY <1>1, <1>3 DEF Standing
  <2> QED
    BY <1>1, <2>1
<1> QED
  BY <1>2, <1>3

LEMMA SeqDifference ==
  ASSUME FewFrames, NEW a \in Nat, NEW b \in Nat,
         a <= MaxFrames + 1, b <= MaxFrames + 1
  PROVE  SeqDistance(a, b) = a - b
<1> USE RingAssumption
<1> DEFINE m == MAX_SEQUENCE + 1
           d == (a - b) % m
<1>1. m \in Nat /\ m > 2 * (MaxFrames + 2) + 1
  BY DEF FewFrames
<1>2. MAX_SEQUENCE \div 2 \in Nat /\ 2 * (MAX_SEQUENCE \div 2) <= MAX_SEQUENCE
      /\ MAX_SEQUENCE <= 2 * (MAX_SEQUENCE \div 2) + 1
  OBVIOUS
<1>3. CASE a >= b
  <2>1. d = a - b
    BY <1>1, <1>3
  <2> QED
    BY <1>1, <1>2, <2>1 DEF SeqDistance, FewFrames
<1>4. CASE a < b
  <2>1. d = a - b + m
    BY <1>1, <1>4
  <2> QED
    BY <1>1, <1>2, <1>4, <2>1 DEF SeqDistance, FewFrames
<1> QED
  BY <1>3, <1>4

LEMMA OnlyAnswersAnswer ==
  ASSUME TypeOK, ApiTyped, [ApiNext]_vars, ~Answers, ~UNCHANGED vars
  PROVE  ret'.op \notin {"distance", "compare"}
<1>0. NoReturn.op = "none"
  BY DEF NoReturn
<1>1. CASE WriterStep
  BY <1>0, <1>1 DEF WriterStep, Silent
<1>2. CASE InitID \/ \E i \in Ids : CopyID(i) \/ RemoveID(i)
  BY <1>0, <1>2 DEF InitID, CopyID, RemoveID, Silent
<1>3. CASE BeginCall
  BY <1>0, <1>3, BeginCallShape DEF Begins
<1>4. CASE CallStep
  BY <1>4, CallStepReturns DEF ApiTyped, CallTyped, CallType
<1> QED
  BY <1>1, <1>2, <1>3, <1>4 DEF ApiNext, ReaderNext, Answers

LEMMA CompareCompares ==
  ASSUME IInv, NumInv, FewFrames, ApiTyped, NEW i \in Ids, NEW j \in Ids,
         Compare(i, j), UNCHANGED ringVars
  PROVE  ComparesAsFrames'
<1> SUFFICES ASSUME StandingOf(i) # 0, StandingOf(j) # 0, cutAt = INITIAL
             PROVE  SeqDistance(ids[i].seq, ids[j].seq)
                      = StandingOf(i) - StandingOf(j)
  BY DEF Compare, NoReturn, ComparesAsFrames, ringVars
<1>1. \A k \in {i, j} : ids[k].pos \in Places /\ ids[k].seq \in Nat
  BY DEF ApiTyped, IdType
<1>2. \A k \in {i, j} : /\ StandingOf(k) = base + ids[k].seq
                        /\ ids[k].seq <= uiNewestFrameSeq + 1
  BY <1>1, StandingNumber DEF StandingOf
<1>3. uiNewestFrameSeq <= MaxFrames /\ uiNewestFrameSeq \in Nat
      /\ base \in Nat /\ MaxFrames \in Nat
  BY RingAssumption DEF IInv, TypeOK, NumInv, Counters
<1>4. SeqDistance(ids[i].seq, ids[j].seq) = ids[i].seq - ids[j].seq
  BY <1>1, <1>2, <1>3, SeqDifference
<1> QED
  BY <1>1, <1>2, <1>3, <1>4

(* Comparing two ids compares the frames they stand on, whatever moved,    *)
(* copied or overtook them, until the sequence numbers start over.         *)
THEOREM ComparingIsExact ==
  ASSUME FewFrames
  PROVE  ApiSpec => []ComparesAsFrames
<1>1. ApiInit => ComparesAsFrames
  BY DEF ApiInit, NoReturn, ComparesAsFrames
<1>2. /\ IInv /\ NumInv /\ ApiTyped /\ ComparesAsFrames /\ [ApiNext]_vars
      => ComparesAsFrames'
  <2> SUFFICES ASSUME IInv, NumInv, ApiTyped, ComparesAsFrames,
                      [ApiNext]_vars
               PROVE  ComparesAsFrames'
    OBVIOUS
  <2>1. CASE UNCHANGED vars
    BY <2>1 DEF vars, ringVars, apiVars, ComparesAsFrames
  <2>2. CASE ~Answers /\ ~UNCHANGED vars
    BY <2>2, OnlyAnswersAnswer DEF ComparesAsFrames, IInv
  <2>3. CASE Answers /\ ~UNCHANGED vars
    <3>1. CASE ret'.op # "compare"
      BY <3>1 DEF ComparesAsFrames
    <3>2. CASE ret'.op = "compare"
      <4>1. PICK i \in Ids, j \in Ids : Compare(i, j)
        BY <2>3, <3>2 DEF Answers, Distance, FrameExtras, NoReturn
      <4>2. UNCHANGED ringVars
        <5>1. ~WriterStep
          BY <3>2 DEF WriterStep, Silent, NoReturn
        <5> QED
          BY <2>3, <5>1 DEF ApiNext, ReaderNext
      <4> QED
        BY <4>1, <4>2, CompareCompares
    <3> QED
      BY <3>1, <3>2
  <2> QED
    BY <2>1, <2>2, <2>3
<1> QED
  BY <1>1, <1>2, ApiRingInvariant, ApiNumbers, ApiTypes, PTL DEF ApiSpec

(* An id without a place among the frames carries a number that is no      *)
(* frame's of the moment; a call that moves an id finds a ring once        *)
(* written to.                                                             *)
Unplaced(pos, seq) == pos \notin Cells => seq \in {0, FarSequence + 1}

PlacesInv ==
  /\ \A i \in Ids : Unplaced(ids[i].pos, ids[i].seq)
  /\ call.at \in {"extras", "moveEmpty", "move"} =>
       Unplaced(call.bakPos, call.bakSeq)
  /\ call.at = "move" => frameNo # 0

LEMMA OffTheCells ==
  ASSUME NEW pos \in Places, NEW seq, CheckOverflowed(pos, seq) \notin Cells
  PROVE  /\ CheckOverflowed(pos, seq) = pos
         /\ FrameAt(pos).magic => /\ pos = INITIAL /\ FrameAt(pos).size = iShmSize
                                  /\ FrameAt(pos).seq = FarSequence
<1>1. START \in Cells
  BY RingAssumption DEF Cells, START
<1>2. CheckOverflowed(pos, seq) = pos
  BY <1>1 DEF CheckOverflowed
<1>3. CASE pos = INITIAL
  BY <1>2, <1>3 DEF FrameAt
<1>4. CASE pos # INITIAL
  BY <1>2, <1>4 DEF FrameAt, Zero
<1> QED
  BY <1>2, <1>3, <1>4

LEMMA ReadUnplaced ==
  ASSUME IInv, NumInv, NEW pos \in Places, NEW seq \in Nat, NEW buf,
         Unplaced(pos, seq)
  PROVE  LET r == ReadFrame(pos, seq, buf)
         IN  Unplaced(r.pos, r.seq)
<1> USE RingAssumption
<1> DEFINE p == CheckOverflowed(pos, seq)
           f == FrameAt(p)
           r == ReadFrame(pos, seq, buf)
<1>1. \/ r = Lost
      \/ r = Outcome("NO_NEW_FRAME", pos, seq, 0)
      \/ f.magic /\ r = Outcome("FRAME_TOO_LARGE", f.next, Following(f), 0)
      \/ r = Outcome("FRAME_TOO_LARGE", p, seq, 0)
      \/ /\ f.magic /\ ~(f.size > iMaxFrameSize)
         /\ r = Outcome("GET_A_NEW_FRAME", f.next, Following(f), Handed(p))
  BY DEF ReadFrame, NotFound, KeepLarge
<1>2. CASE p \in Cells
  <2>1. f.magic => f.next \in Cells
    BY <1>2, FrameAtCell DEF NumInv, HeadsFilled
  <2> QED
    BY <1>1, <1>2, <2>1 DEF Lost, Outcome, Unplaced, INITIAL
<1>3. CASE p \notin Cells
  <2>1. p = pos /\ (f.magic => f.seq = FarSequence)
    BY <1>3, OffTheCells
  <2>2. f.magic => Following(f) \in {0, FarSequence + 1}
    BY <2>1 DEF Following
  <2> QED
    BY <1>1, <2>1, <2>2 DEF Lost, Outcome, Unplaced, INITIAL
<1> QED
  BY <1>2, <1>3

LEMMA MoveUnplaced ==
  ASSUME IInv, NumInv, NEW pos \in Places, NEW seq \in Nat,
         Unplaced(pos, seq)
  PROVE  /\ Unplaced(MoveForward(pos, seq).pos, MoveForward(pos, seq).seq)
         /\ frameNo # 0 =>
              Unplaced(MoveBack(pos, seq).pos, MoveBack(pos, seq).seq)
         /\ Unplaced(Refresh.pos, Refresh.seq)
<1> USE RingAssumption
<1>0. frameNo # 0 => uiNewestFramePos \in Cells
  BY DEF NumInv, Counters
<1>1. Unplaced(MoveForward(pos, seq).pos, MoveForward(pos, seq).seq)
  <2> DEFINE r == ReadFrame(pos, seq, iMaxFrameSize)
  <2>1. Unplaced(r.pos, r.seq)
    BY ReadUnplaced
  <2>2. DOMAIN r = {"rtn", "pos", "seq", "frame"}
    BY DEF ReadFrame, Outcome, Lost, NotFound, KeepLarge
  <2> HIDE DEF r
  <2>3. MoveForward(pos, seq) =
          [r EXCEPT !.rtn = IF @ = "GET_A_NEW_FRAME" THEN "OK" ELSE "ERROR"]
    BY DEF MoveForward, r
  <2> QED
    BY <2>1, <2>2, <2>3
<1>2. ASSUME frameNo # 0
      PROVE  Unplaced(MoveBack(pos, seq).pos, MoveBack(pos, seq).seq)
  <2> DEFINE p == CheckOverflowed(pos, seq)
             f == FrameAt(p)
  <2>1. pos # INITIAL /\ f.magic => f.prev \in Cells
    <3>1. CASE p \in Cells
      BY <3>1, FrameAtCell DEF NumInv, HeadsFilled
    <3>2. CASE p \notin Cells
      BY <3>2, OffTheCells
    <3> QED
      BY <3>1, <3>2
  <2> HIDE DEF f
  <2>2. \/ MoveBack(pos, seq) = Outcome("OK", uiNewestFramePos,
                                         FrameAt(uiNewestFramePos).seq, 0)
        \/ MoveBack(pos, seq) = Outcome("OK", uiNewestFramePos,
                                         uiNewestFrameSeq, 0)
        \/ /\ pos # INITIAL /\ f.magic
           /\ MoveBack(pos, seq) = Outcome("OK", f.prev, FrameAt(f.prev).seq, 0)
        \/ MoveBack(pos, seq) = Lost
    BY DEF MoveBack, f
  <2> QED
    BY <1>0, <1>2, <2>1, <2>2 DEF Outcome, Lost, Unplaced, INITIAL
<1>3. Unplaced(Refresh.pos, Refresh.seq)
  <2>1. frameNo = 0 => uiNewestFrameSeq = 0
    BY DEF NumInv, Counters, IInv, TypeOK
  <2> QED
    BY <1>0, <2>1 DEF Refresh, Outcome, Unplaced
<1> QED
  BY <1>1, <1>2, <1>3

(* Where a step of a call may leave its id, and what it keeps to put back. *)
Loop == {"extras", "moveEmpty", "move"}

GoesTo(pos, seq) ==
  /\ call.id \in Ids /\ \A j \in Ids : j # call.id => ids'[j] = ids[j]
  /\ ids'[call.id].pos = pos /\ ids'[call.id].seq = seq

Moves(pos, seq) == {MoveBack(pos, seq), MoveForward(pos, seq)}

KeepsBak ==
  call'.at \in Loop =>
    \/ /\ call.at \in Loop
       /\ call'.bakPos = call.bakPos /\ call'.bakSeq = call.bakSeq
    \/ /\ call.at = "newest"
       /\ call'.bakPos = ids[call.id].pos /\ call'.bakSeq = ids[call.id].seq

LEMMA CallStepPlaces ==
  ASSUME TypeOK, ApiTyped, CallStep
  PROVE  LET pos == ids[call.id].pos
             seq == ids[call.id].seq
         IN  /\ \/ GoesTo(pos, seq)
                \/ call.at = "refresh" /\ GoesTo(Refresh.pos, Refresh.seq)
                \/ call.at \in Loop /\ GoesTo(call.bakPos, call.bakSeq)
                \/ /\ call.at = "move"
                   /\ \E r \in Moves(pos, seq) :
                        r.rtn = "OK" /\ GoesTo(r.pos, r.seq)
                \/ LET r == ReadFrame(pos, seq, call.buf)
                   IN  GoesTo(r.pos, r.seq)
             /\ KeepsBak
             /\ call'.at = "move" => ~IsEmpty
<1> DEFINE pos == ids[call.id].pos
           seq == ids[call.id].seq
<1>1. /\ call \in CallType /\ call.op # "none" /\ call.id \in Ids
      /\ ids \in [Ids -> IdType] /\ pos \in Places /\ seq \in Nat
      /\ call.bakPos \in Places /\ call.bakSeq \in Nat
  <2>1. call.op # "none"
    BY DEF ApiTyped, CallTyped, CallStep, RefreshStep, NewestExtrasStep,
           ExtrasStep, MoveEmptyStep, MoveStep, ReadEmptyStep, ReadStep
  <2>2. call \in CallType /\ ids \in [Ids -> IdType] /\ call.id \in Ids
    BY <2>1 DEF ApiTyped, CallTyped
  <2> QED
    BY <2>1, <2>2 DEF ApiTyped, CallTyped, CallType, IdType
<1>2. \A p \in Places, n \in Nat : MoveTo(p, n) => GoesTo(p, n)
  BY <1>1, MoveToMoves DEF GoesTo
<1>a. ids' = ids => GoesTo(pos, seq)
  BY <1>1 DEF GoesTo
<1>b. ASSUME NEW rtn, Settled(rtn)
      PROVE  KeepsBak /\ call'.at # "move"
  <2>1. call' = NoCall \/ call'.at = "empty"
    BY <1>b DEF Settled, Continues
  <2> QED
    BY <2>1, NoCallTyped DEF KeepsBak, Loop
<1>3. CASE RefreshStep
  <2>1. call.at = "refresh" /\ GoesTo(Refresh.pos, Refresh.seq)
    BY <1>1, <1>2, <1>3, RefreshStepShape, MoveTyped DEF RefreshStep
  <2>2. Continues("newest") => KeepsBak /\ call'.at # "move"
    BY DEF Continues, KeepsBak, Loop
  <2> QED
    BY <1>3, <1>b, <2>1, <2>2, RefreshStepShape
<1>4. CASE NewestExtrasStep
  <2>1. call.at = "newest" /\ GoesTo(pos, seq)
    BY <1>4, <1>a, NewestStepShape DEF NewestExtrasStep
  <2>2. CASE Continues("extras") /\ call'.bakPos = pos /\ call'.bakSeq = seq
    BY <2>1, <2>2 DEF Continues, KeepsBak
  <2> QED
    BY <1>4, <1>b, <2>1, <2>2, NewestStepShape
<1>5. CASE ExtrasStep
  <2>1. call.at = "extras" /\ GoesTo(pos, seq)
    BY <1>5, <1>a, ExtrasStepShape DEF ExtrasStep
  <2>2. CASE /\ Continues("moveEmpty")
             /\ call'.bakPos = call.bakPos /\ call'.bakSeq = call.bakSeq
    BY <2>1, <2>2 DEF Continues, KeepsBak, Loop
  <2> QED
    BY <1>5, <1>b, <2>1, <2>2, ExtrasStepShape
<1>6. CASE MoveEmptyStep
  <2>1. call.at = "moveEmpty"
    BY <1>6 DEF MoveEmptyStep
  <2>2. CASE MoveTo(call.bakPos, call.bakSeq) /\ Settled("ERROR")
    BY <1>1, <1>2, <1>b, <2>1, <2>2 DEF Loop
  <2>3. CASE /\ ~IsEmpty /\ ids' = ids /\ Continues("move")
             /\ call'.bakPos = call.bakPos /\ call'.bakSeq = call.bakSeq
    BY <1>a, <2>1, <2>3 DEF Continues, KeepsBak, Loop
  <2> QED
    BY <1>6, <2>2, <2>3, MoveEmptyStepShape
<1>7. CASE MoveStep
  <2>1. call.at = "move"
    BY <1>7 DEF MoveStep
  <2>2. CASE MoveTo(call.bakPos, call.bakSeq) /\ Settled("ERROR")
    BY <1>1, <1>2, <1>b, <2>1, <2>2 DEF Loop
  <2>3. CASE \E r \in {MoveBack(pos, seq), MoveForward(pos, seq)} :
               /\ r.rtn = "OK" /\ MoveTo(r.pos, r.seq)
               /\ \/ Settled("OK")
                  \/ /\ Continues("extras") \/ Continues("moveEmpty")
                     /\ call'.bakPos = call.bakPos
                     /\ call'.bakSeq = call.bakSeq
    <3>1. PICK r \in Moves(pos, seq) :
               /\ r.rtn = "OK" /\ MoveTo(r.pos, r.seq)
               /\ \/ Settled("OK")
                  \/ /\ Continues("extras") \/ Continues("moveEmpty")
                     /\ call'.bakPos = call.bakPos
                     /\ call'.bakSeq = call.bakSeq
      BY <2>3 DEF Moves
    <3>2. r.pos \in Places /\ r.seq \in Nat
      BY <1>1, MoveTyped DEF Moves
    <3>3. GoesTo(r.pos, r.seq)
      BY <1>2, <3>1, <3>2
    <3>4. KeepsBak /\ call'.at # "move"
      <4>1. CASE Settled("OK")
        BY <1>b, <4>1
      <4>2. CASE ~Settled("OK")
        BY <2>1, <3>1, <4>2 DEF Continues, KeepsBak, Loop
      <4> QED
        BY <4>1, <4>2
    <3> QED
      BY <2>1, <3>1, <3>3, <3>4
  <2> QED
    BY <1>7, <2>2, <2>3, MoveStepShape
<1>8. CASE ReadEmptyStep
  <2>1. call' = NoCall \/ call'.at = "read"
    BY <1>8, ReadEmptyStepShape DEF Continues
  <2> QED
    BY <1>8, <1>a, <2>1, ReadEmptyStepShape, NoCallTyped DEF KeepsBak, Loop
<1>9. CASE ReadStep
  <2> DEFINE r == ReadFrame(pos, seq, call.buf)
  <2>1. MoveTo(r.pos, r.seq) /\ call' = NoCall
    BY <1>9, ReadStepShape
  <2>2. GoesTo(r.pos, r.seq)
    BY <1>1, <1>2, <2>1, ReadTyped
  <2> QED
    BY <2>1, <2>2, NoCallTyped DEF KeepsBak, Loop
<1> QED
  BY <1>3, <1>4, <1>5, <1>6, <1>7, <1>8, <1>9 DEF CallStep

LEMMA CallStepPlaced ==
  ASSUME IInv, NumInv, ApiTyped, PlacesInv, CallStep, UNCHANGED ringVars
  PROVE  PlacesInv'
<1> DEFINE i   == call.id
           pos == ids[call.id].pos
           seq == ids[call.id].seq
<1>0. TypeOK /\ UNCHANGED <<uiNewestFrameSeq, frameNo>>
  BY DEF IInv, ringVars
<1>1. i \in Ids
  <2>1. call.op # "none"
    BY DEF ApiTyped, CallTyped, CallStep, RefreshStep, NewestExtrasStep,
           ExtrasStep, MoveEmptyStep, MoveStep, ReadEmptyStep, ReadStep
  <2> QED
    BY <2>1 DEF ApiTyped, CallTyped
<1>2. pos \in Places /\ seq \in Nat /\ Unplaced(pos, seq)
  BY <1>1 DEF ApiTyped, IdType, PlacesInv
<1>3. PICK q \in Places, n \in Nat : GoesTo(q, n) /\ Unplaced(q, n)
  <2> DEFINE rr == ReadFrame(pos, seq, call.buf)
  <2>1. CASE GoesTo(pos, seq)
    BY <1>2, <2>1
  <2>2. CASE call.at = "refresh" /\ GoesTo(Refresh.pos, Refresh.seq)
    BY <1>0, <1>2, <2>2, MoveTyped, MoveUnplaced
  <2>3. CASE call.at \in Loop /\ GoesTo(call.bakPos, call.bakSeq)
    BY <2>3 DEF Loop, PlacesInv, ApiTyped, CallTyped, CallType
  <2>4. CASE /\ call.at = "move"
             /\ \E r \in Moves(pos, seq) : r.rtn = "OK" /\ GoesTo(r.pos, r.seq)
    <3>1. frameNo # 0
      BY <2>4 DEF PlacesInv
    <3> QED
      BY <1>0, <1>2, <2>4, <3>1, MoveTyped, MoveUnplaced DEF Moves
  <2>5. CASE GoesTo(rr.pos, rr.seq)
    BY <1>0, <1>2, <2>5, ReadTyped, ReadUnplaced
  <2> QED
    BY <1>0, <2>1, <2>2, <2>3, <2>4, <2>5, CallStepPlaces
<1>4. \A j \in Ids : Unplaced(ids'[j].pos, ids'[j].seq)
  BY <1>3 DEF GoesTo, PlacesInv
<1>5. KeepsBak /\ (call'.at = "move" => ~IsEmpty)
  BY <1>0, CallStepPlaces
<1>6. call'.at \in Loop => Unplaced(call'.bakPos, call'.bakSeq)
  BY <1>2, <1>5 DEF KeepsBak, PlacesInv, Loop
<1>7. ~IsEmpty => frameNo # 0
  BY <1>0 DEF IsEmpty, INITIAL, NumInv, Counters, IInv, TypeOK, BaseBehind
<1> QED
  BY <1>0, <1>4, <1>5, <1>6, <1>7 DEF PlacesInv, Loop, Unplaced, Cells,
                                      FarSequence

LEMMA StepPlaced ==
  ASSUME IInv, NumInv, ApiTyped, PlacesInv, [ApiNext]_vars
  PROVE  PlacesInv'
<1>a. /\ Unplaced(Free.pos, Free.seq) /\ Unplaced(Fresh.pos, Fresh.seq)
  BY DEF Free, Fresh, Unplaced, INITIAL
<1>b. ASSUME ids' = ids, call' = call, frameNo # 0 => frameNo' # 0
      PROVE  PlacesInv'
  BY <1>b DEF PlacesInv, Unplaced, Cells, FarSequence
<1>c. ASSUME NEW f, NEW id, NEW s, GivesID(f, id, s),
             Unplaced(id.pos, id.seq), frameNo' = frameNo
      PROVE  PlacesInv'
  BY <1>c DEF PlacesInv, GivesID, Unplaced, Cells, FarSequence
<1>1. CASE WriterStep
  <2>1. frameNo' \in {frameNo, frameNo + 1} /\ frameNo \in Nat
    BY <1>1 DEF WriterStep, WriterNext, CrashNext, InitShm, ShmWrite,
                DetachWrite, WriteFrame, CrashInWriteFrame, IInv, TypeOK
  <2> QED
    BY <1>1, <1>b, <2>1 DEF WriterStep
<1>2. CASE UNCHANGED vars
  BY <1>2, <1>b DEF vars, apiVars, ringVars
<1>3. CASE ReaderNext
  <2>0. UNCHANGED ringVars /\ frameNo' = frameNo
    BY <1>3 DEF ReaderNext, ringVars
  <2>1. CASE InitID
    BY <1>a, <1>c, <2>0, <2>1, InitIDShape
  <2>2. ASSUME NEW i \in Ids, CopyID(i) PROVE PlacesInv'
    BY <1>c, <2>0, <2>2, CopyIDShape DEF PlacesInv
  <2>3. ASSUME NEW i \in Ids, RemoveID(i) PROVE PlacesInv'
    BY <1>a, <2>0, <2>3, RemoveIDShape DEF PlacesInv, Unplaced, Cells,
                                           FarSequence
  <2>4. CASE Answers
    BY <1>b, <2>0, <2>4, AnswersShape DEF IInv
  <2>5. CASE BeginCall
    <3>1. PICK i \in Ids : Begins(i)
      BY <2>5, BeginCallShape DEF IInv
    <3> QED
      BY <2>0, <3>1 DEF Begins, PlacesInv, Unplaced, Cells, FarSequence
  <2>6. CASE CallStep
    BY <2>0, <2>6, CallStepPlaced
  <2> QED
    BY <1>3, <2>1, <2>2, <2>3, <2>4, <2>5, <2>6 DEF ReaderNext, Answers
<1> QED
  BY <1>1, <1>2, <1>3 DEF ApiNext

THEOREM PlacesInvariant ==
  ASSUME FewFrames
  PROVE  ApiSpec => []PlacesInv
<1>1. ApiInit => PlacesInv
  BY DEF ApiInit, PlacesInv, Free, NoCall, Unplaced, INITIAL
<1>2. IInv /\ NumInv /\ ApiTyped /\ PlacesInv /\ [ApiNext]_vars => PlacesInv'
  BY StepPlaced
<1> QED
  BY <1>1, <1>2, ApiRingInvariant, ApiNumbers, ApiTypes, PTL DEF ApiSpec

(* What Distance2Newest says of an id with or without a place.             *)
LEMMA DistanceFound ==
  ASSUME IInv, NumInv, FewFrames, cutAt = INITIAL,
         NEW pos \in Places, NEW seq \in Nat, Unplaced(pos, seq)
  PROVE  LET got == Distance2Newest(pos, seq)
         IN  \/ got = -1 /\ Standing(pos, seq) = frameNo + 1
             \/ got = -2 /\ Standing(pos, seq) = 0
             \/ got >= 0 /\ got = frameNo - Standing(pos, seq)
<1> USE RingAssumption
<1> DEFINE p == CheckOverflowed(pos, seq)
           f == FrameAt(p)
<1>1. /\ frameNo \in Nat /\ base \in Nat /\ frameNo <= MaxFrames
      /\ uiNewestFrameSeq = frameNo - base /\ uiNewestFrameSeq \in Nat
  BY DEF IInv, TypeOK, NumInv, Counters
<1>2. FarSequence \in Nat /\ FarSequence > MaxFrames + 1
  BY DEF FewFrames, FarSequence
<1>3. ASSUME SameFrame(f, seq)
      PROVE  /\ pos # INITIAL /\ f.frame \in Nat
             /\ seq = f.frame - base /\ f.frame <= frameNo
  <2>1. f.magic /\ f.seq = seq
    BY <1>3 DEF SameFrame
  <2>2. p \in Cells
    <3>1. CASE p \notin Cells
      <4>1. pos = INITIAL /\ seq = FarSequence
        BY <2>1, <3>1, OffTheCells
      <4>2. pos \notin Cells
        BY <4>1 DEF Cells, START, INITIAL
      <4> QED
        BY <1>2, <4>1, <4>2 DEF Unplaced
    <3> QED
      BY <3>1
  <2>3. pos # INITIAL
    <3>1. pos = INITIAL => p = INITIAL
      BY DEF CheckOverflowed
    <3> QED
      BY <2>2, <3>1 DEF Cells, START, INITIAL
  <2>4. f = shm[p] /\ p \in Framed
    BY <1>1, <2>1, <2>2, FrameAtCell DEF Framed, Cells, START, INITIAL
  <2>5. Readable(p) /\ shm[p].frame \in Nat
    BY <2>2, <2>4, FramedReadable DEF IInv, TypeOK, Cell
  <2> QED
    BY <2>1, <2>2, <2>3, <2>4, <2>5 DEF NumInv, SeqNumbered, CellsNumbered
<1>4. CASE CaughtUp(seq)
  <2>1. seq = uiNewestFrameSeq + 1
    BY <1>4 DEF CaughtUp
  <2>2. pos # INITIAL
    <3>1. pos = INITIAL => seq \in {0, FarSequence + 1}
      BY DEF Unplaced, Cells, START, INITIAL
    <3> QED
      BY <1>1, <1>2, <2>1, <3>1
  <2>3. ~SameFrame(f, seq)
    BY <1>1, <1>3, <2>1
  <2>4. Standing(pos, seq) = frameNo + 1
    BY <2>1, <2>2, <2>3 DEF Standing, SameFrame
  <2> QED
    BY <1>4, <2>4 DEF Distance2Newest
<1>5. CASE ~CaughtUp(seq) /\ SameFrame(f, seq)
  <2>1. Standing(pos, seq) = f.frame
    BY <1>3, <1>5 DEF Standing, SameFrame
  <2>2. SeqDistance(uiNewestFrameSeq, seq) = uiNewestFrameSeq - seq
    BY <1>1, <1>3, <1>5, SeqDifference
  <2>3. Distance2Newest(pos, seq) = uiNewestFrameSeq - seq
    BY <1>5, <2>2 DEF Distance2Newest
  <2> QED
    BY <1>1, <1>3, <1>5, <2>1, <2>3
<1>6. CASE ~CaughtUp(seq) /\ ~SameFrame(f, seq)
  <2>1. Standing(pos, seq) = 0
    BY <1>6 DEF Standing, SameFrame, CaughtUp
  <2>2. Distance2Newest(pos, seq) = -2
    BY <1>6 DEF Distance2Newest
  <2> QED
    BY <2>1, <2>2
<1> QED
  BY <1>4, <1>5, <1>6

LEMMA DistanceAnswers ==
  ASSUME IInv, NumInv, FewFrames, ApiTyped, PlacesInv, NEW i \in Ids,
         Distance(i), UNCHANGED ringVars
  PROVE  DistanceIsExact'
<1> SUFFICES ASSUME cutAt' = INITIAL
             PROVE  CASE ret'.got >= 0  -> ret'.got = frameNo' - ret'.stood
                      [] ret'.got = -1  -> ret'.stood = frameNo' + 1
                      [] ret'.got = -2  -> ret'.stood = 0
  BY DEF DistanceIsExact
<1> DEFINE got == Distance2Newest(ids[i].pos, ids[i].seq)
<1>1. ret'.got = got /\ ret'.stood = StandingOf(i)
  BY DEF Distance, NoReturn
<1>2. cutAt = INITIAL /\ frameNo' = frameNo
  BY DEF ringVars
<1>3. \/ got = -1 /\ StandingOf(i) = frameNo + 1
      \/ got = -2 /\ StandingOf(i) = 0
      \/ got >= 0 /\ got = frameNo - StandingOf(i)
  BY <1>2, DistanceFound DEF ApiTyped, IdType, PlacesInv, StandingOf
<1> HIDE DEF got
<1>4. CASE got = -1 /\ StandingOf(i) = frameNo + 1
  <2>1. ret'.got = -1 /\ ret'.stood = frameNo' + 1 /\ ~(ret'.got >= 0)
        /\ ret'.got # -2
    BY <1>1, <1>2, <1>4
  <2> QED
    BY <2>1
<1>5. CASE got = -2 /\ StandingOf(i) = 0
  <2>1. ret'.got = -2 /\ ret'.stood = 0 /\ ~(ret'.got >= 0) /\ ret'.got # -1
    BY <1>1, <1>5
  <2> QED
    BY <2>1
<1>6. CASE got >= 0 /\ got = frameNo - StandingOf(i)
  <2>1. /\ ret'.got >= 0 /\ ret'.got = frameNo' - ret'.stood
        /\ ret'.got # -1 /\ ret'.got # -2
    BY <1>1, <1>2, <1>6
  <2> QED
    BY <2>1
<1> QED
  BY <1>3, <1>4, <1>5, <1>6

(* The distance a reader is told is the number of frames written after     *)
(* its own, -1 means it has caught up and -2 that its frame is gone, until *)
(* the sequence numbers start over.                                        *)
THEOREM DistancesExact ==
  ASSUME FewFrames
  PROVE  ApiSpec => []DistanceIsExact
<1>1. ApiInit => DistanceIsExact
  BY DEF ApiInit, NoReturn, DistanceIsExact
<1>2. /\ IInv /\ NumInv /\ ApiTyped /\ PlacesInv /\ DistanceIsExact
      /\ [ApiNext]_vars
      => DistanceIsExact'
  <2> SUFFICES ASSUME IInv, NumInv, ApiTyped, PlacesInv, DistanceIsExact,
                      [ApiNext]_vars
               PROVE  DistanceIsExact'
    OBVIOUS
  <2>1. CASE UNCHANGED vars
    BY <2>1 DEF vars, ringVars, apiVars, DistanceIsExact
  <2>2. CASE ~Answers /\ ~UNCHANGED vars
    BY <2>2, OnlyAnswersAnswer DEF DistanceIsExact, IInv
  <2>3. CASE Answers /\ ~UNCHANGED vars
    <3>1. CASE ret'.op # "distance"
      BY <3>1 DEF DistanceIsExact
    <3>2. CASE ret'.op = "distance"
      <4>1. PICK i \in Ids : Distance(i)
        BY <2>3, <3>2 DEF Answers, Compare, FrameExtras, NoReturn
      <4>2. UNCHANGED ringVars
        <5>1. ~WriterStep
          BY <3>2 DEF WriterStep, Silent, NoReturn
        <5> QED
          BY <2>3, <5>1 DEF ApiNext, ReaderNext
      <4> QED
        BY <4>1, <4>2, DistanceAnswers
    <3> QED
      BY <3>1, <3>2
  <2> QED
    BY <2>1, <2>2, <2>3
<1> QED
  BY <1>1, <1>2, ApiRingInvariant, ApiNumbers, ApiTypes, PlacesInvariant, PTL
  DEF ApiSpec

------------------------------------------------------------------------------
(* No frame is missed.  An id that has read frame s, and is not too far    *)
(* behind, stands where frame s + 1 is or is going to be; or frame s + 1   *)
(* did not fit there and went to START, and no head is left at the place.  *)

THEOREM ApiKept == ApiSpec => [](KeptNear /\ NewestKept)
<1>1. ApiInit => KeptNear
  BY DEF ApiInit, Init, KeptNear
<1>2. IInv /\ KeptNear /\ [ApiNext]_vars => KeptNear'
  BY RingOnly, StepKeepsNear
<1>3. KeptNear => NewestKept
  BY DEF KeptNear, NewestKept
<1> QED
  BY <1>1, <1>2, <1>3, ApiRingInvariant, PTL DEF ApiSpec

WithinReach(s) == cutAt = INITIAL /\ s > base /\ s + 1 > frameNo - Kept

LeftForStart(pos) ==
  pos \in Cells /\ ~shm[pos].magic /\ pos >= iShmSize - Room

Waits(pos, s) ==
  /\ s = frameNo /\ writer = "ready" => pos = uiFramePos
  /\ \A q \in Framed : shm[q].frame = s + 1 =>
       pos = q \/ (q = START /\ LeftForStart(pos))

Awaits(pos, s) == WithinReach(s) => Waits(pos, s)

(* Frame s + 1 has just been written.                                      *)
LEMMA NextIsWritten ==
  ASSUME IInv, NEW len \in Lengths, NEW key \in Keys, WriteFrame(len, key),
         Accepted(len),
         NEW q \in Framed', shm'[q].frame = frameNo + 1
  PROVE  \/ uiFramePos = q
         \/ /\ q = START /\ uiFramePos \in Cells /\ ~shm'[uiFramePos].magic
            /\ uiFramePos >= iShmSize - Room
<1> USE RingAssumption
<1>1. q = At(len)
  <2>1. q \in Cells /\ shm'[q].magic
    BY DEF Framed, Cells
  <2>2. q # At(len) => q \in Framed /\ shm'[q].frame = shm[q].frame
    BY <2>1, FrameWritten DEF KeepsFrames
  <2>3. \A p \in Framed : shm[p].frame \in Nat /\ shm[p].frame <= frameNo
    BY DEF IInv, FramesNumbered, TypeOK, Framed, Cell
  <2>4. frameNo \in Nat
    BY DEF IInv, TypeOK
  <2> QED
    BY <2>2, <2>3, <2>4
<1>2. CASE ~Wraps(len)
  BY <1>1, <1>2 DEF At
<1>3. CASE Wraps(len)
  <2>1. /\ q = START /\ uiFramePos \in Cells /\ len \in Int
        /\ len <= iMaxFrameSize /\ writer = "ready"
        /\ uiFramePos + HEAD + len >= iShmSize
    BY <1>1, <1>3, FrameWritten DEF At, Wraps
  <2>2. uiFramePos >= iShmSize - Room
    BY <2>1 DEF Room, Cells
  <2>3. shm'[uiFramePos].magic /\ uiFramePos # START => uiFramePos \in Framed
    BY <1>1, <2>1, FrameWritten
  <2>4. uiFramePos \notin Framed
    <3>1. shm[uiFramePos] = Zero
      BY <2>1 DEF IInv, NextHeadClear, Cells
    <3> QED
      BY <3>1 DEF Framed, Zero
  <2> QED
    BY <2>1, <2>2, <2>3, <2>4
<1> QED
  BY <1>2, <1>3

(* A frame kept at START keeps the writer from the end of the ring.        *)
LEMMA StartKept ==
  ASSUME IInv, KeptNear, writer = "ready",
         NEW n \in Nat, cutAt = INITIAL, n > base, n <= frameNo,
         n > frameNo - Kept,
         START \in Framed, shm[START].frame = n
  PROVE  START < uiFramePos /\ uiFramePos + HEAD + Room <= iShmSize
<1> USE RingAssumption
<1> DEFINE d == frameNo - n
           x == (d + 1) * Room
           y == (Kept - 1 - d) * Room
<1>1. /\ frameNo \in Nat /\ base \in Nat /\ Kept \in Int /\ Room \in Int
      /\ Room >= HEAD + 1 /\ uiFramePos \in Nat /\ (Kept + 1) * Room \in Int
      /\ (Kept + 1) * Room <= iShmSize - START - HEAD
  BY KeptFits DEF IInv, TypeOK, Positions
<1>2. d \in Int /\ d < Kept
  BY <1>1
<1>3. Near(START, d)
  <2>1. n \in base + 1 .. frameNo
    BY <1>1
  <2>2. PICK p \in Framed : shm[p].frame = n /\ Near(p, d)
    BY <2>1 DEF KeptNear
  <2>3. p = START
    BY <2>2 DEF IInv, FramesUnique
  <2> QED
    BY <2>2, <2>3
<1>4. x \in Int /\ y \in Int /\ (Kept + 1) * Room = x + y + Room
  BY <1>2, RoomsAddUp
<1>5. y >= 0
  <2>1. \A e \in Nat : e * Room >= 0
    BY <1>1
  <2>2. Kept - 1 - d \in Nat
    BY <1>1, <1>2
  <2> QED
    BY <2>1, <2>2
<1>6. \/ START < uiFramePos /\ uiFramePos - START <= x
      \/ START >= uiFramePos + HEAD + y
  BY <1>3 DEF Near
<1> HIDE DEF x, y, d
<1>7. uiFramePos >= START
  BY <1>1 DEF IInv, WriterPlaced, HeadPlace, START
<1> QED
  BY <1>1, <1>4, <1>5, <1>6, <1>7 DEF START

LEMMA WriteKeepsWaiting ==
  ASSUME IInv, KeptNear, NEW len \in Lengths, NEW key \in Keys,
         WriteFrame(len, key), Accepted(len),
         NEW pos \in Places, NEW s \in Nat, base <= s, s <= frameNo,
         s + 1 > frameNo + 1 - Kept, Waits(pos, s)
  PROVE  Waits(pos, s)'
<1> USE RingAssumption
<1>1. /\ writer = "ready" /\ cutAt = INITIAL /\ uiFramePos \in Cells
      /\ frameNo \in Nat /\ base \in Nat /\ frameNo' = frameNo + 1
      /\ base' = base /\ Kept' = Kept /\ Room' = Room /\ Kept \in Int
      /\ cutAt' = cutAt
  BY FrameWritten, KeptFits DEF IInv, TypeOK, WriteFrame, Kept, Room
<1> SUFFICES ASSUME NEW q \in Framed', shm'[q].frame = s + 1
             PROVE  \/ pos = q
                    \/ /\ q = START /\ pos \in Cells /\ ~shm'[pos].magic
                       /\ pos >= iShmSize - Room
  <2>1. s # frameNo'
    BY <1>1
  <2> QED
    BY <1>1, <2>1 DEF Waits, LeftForStart, Cells
<1>3. CASE s = frameNo
  <2>1. pos = uiFramePos
    BY <1>1, <1>3 DEF Waits
  <2> QED
    BY <1>3, <2>1, NextIsWritten
<1>4. CASE s # frameNo
  <2>1. q # At(len)
    <3>1. shm'[At(len)] = FrameHead(len, key)
      BY FrameWritten
    <3>2. shm'[At(len)].frame = frameNo + 1
      BY <3>1 DEF FrameHead
    <3> QED
      BY <1>1, <1>4, <3>2
  <2>2. q \in Framed /\ shm[q].frame = s + 1
    BY <2>1, FrameWritten DEF KeepsFrames, Framed, Cells
  <2>3. pos = q \/ (q = START /\ LeftForStart(pos))
    BY <2>2 DEF Waits
  <2>4. ASSUME pos # q PROVE ~shm'[pos].magic
    <3>1. q = START /\ pos \in Cells /\ ~shm[pos].magic /\ pos >= iShmSize - Room
      BY <2>3, <2>4 DEF LeftForStart
    <3>2. pos \notin Framed
      BY <3>1 DEF Framed
    <3>3. pos # At(len)
      <4>1. uiFramePos + HEAD + Room <= iShmSize
        BY <1>1, <1>4, <2>2, <3>1, StartKept
      <4>2. Room \in Int
        BY KeptFits
      <4>3. pos # uiFramePos
        BY <1>1, <3>1, <4>1, <4>2 DEF Cells
      <4> QED
        BY <2>4, <3>1, <4>3 DEF At
    <3> QED
      BY <3>1, <3>2, <3>3, FrameWritten
  <2> QED
    BY <2>3, <2>4 DEF LeftForStart
<1> QED
  BY <1>3, <1>4

LEMMA WriteKeepsAwaiting ==
  ASSUME IInv, KeptNear, NEW len \in Lengths, NEW key \in Keys,
         WriteFrame(len, key), Accepted(len),
         NEW pos \in Places, NEW s \in Nat, s <= frameNo, Awaits(pos, s)
  PROVE  Awaits(pos, s)'
<1>1. /\ frameNo' = frameNo + 1 /\ base' = base /\ cutAt' = cutAt
      /\ Kept' = Kept /\ Kept \in Int /\ frameNo \in Nat /\ base \in Nat
  BY KeptFits DEF IInv, TypeOK, WriteFrame, Kept
<1>2. WithinReach(s)' =>
        WithinReach(s) /\ base <= s /\ s + 1 > frameNo + 1 - Kept
  BY <1>1 DEF WithinReach
<1> QED
  BY <1>2, WriteKeepsWaiting DEF Awaits

(* The writer does not lose a waiting reader within its reach.             *)
LEMMA AwaitsStays ==
  ASSUME IInv, NumInv, KeptNear, [Next]_ringVars,
         NEW pos \in Places, NEW s \in Nat \union {Torn}, NEW seq,
         Past(pos, seq, s), Awaits(pos, s)
  PROVE  Awaits(pos, s)'
<1>0. Kept' = Kept /\ Room' = Room
  BY DEF Kept, Room
<1>1. CASE s \notin Nat \/ s = 0
  <2>1. base' \in Nat
    BY NextKeeps DEF IInv, TypeOK
  <2> QED
    BY <1>1, <2>1 DEF Awaits, WithinReach, Torn
<1>2. CASE s \in Nat /\ s # 0
  <2>1. s <= frameNo /\ s # Torn
    BY <1>2 DEF Past, Torn
  <2>2. CASE InitShm \/ DetachWrite \/ UNCHANGED ringVars
    <3>1. /\ UNCHANGED <<shm, uiFramePos, frameNo, base, cutAt>>
          /\ writer' = "ready" => writer = "ready"
      BY <2>2 DEF InitShm, DetachWrite, ringVars
    <3> QED
      BY <1>0, <3>1 DEF Awaits, Waits, WithinReach, Framed, LeftForStart, Cells
  <2>3. CASE ShmWrite
    <3>1. base' = frameNo /\ frameNo \in Nat
      BY <2>3 DEF ShmWrite, IInv, TypeOK
    <3> QED
      BY <1>2, <2>1, <3>1 DEF Awaits, WithinReach
  <2>4. ASSUME NEW len \in Lengths, NEW key \in Keys, WriteFrame(len, key)
        PROVE  Awaits(pos, s)'
    <3>1. CASE Accepted(len)
      BY <1>2, <2>1, <2>4, <3>1, WriteKeepsAwaiting
    <3>2. CASE ~Accepted(len)
      <4>1. UNCHANGED <<shm, uiFramePos, frameNo, base, cutAt, writer>>
        BY <2>4, <3>2 DEF WriteFrame
      <4> QED
        BY <1>0, <4>1 DEF Awaits, Waits, WithinReach, Framed, LeftForStart, Cells
    <3> QED
      BY <3>1, <3>2
  <2>5. ASSUME NEW len \in Lengths, NEW key \in Keys,
               CrashInWriteFrame(len, key)
        PROVE  Awaits(pos, s)'
    <3>1. At(len) \in Cells
      BY <2>5, Placement, RingAssumption
      DEF CrashInWriteFrame, IInv, WriterPlaced, TypeOK, Positions, Accepted
    <3>2. cutAt' # INITIAL
      BY <2>5, <3>1 DEF CrashInWriteFrame, Cells, START, INITIAL
    <3> QED
      BY <3>2 DEF Awaits, WithinReach
  <2> QED
    BY <2>2, <2>3, <2>4, <2>5 DEF Next, WriterNext, CrashNext
<1> QED
  BY <1>1, <1>2 DEF Torn

(* Within reach frame s + 1 is there, and a read that may find it does.    *)
LEMMA AwaitedFound ==
  ASSUME IInv, NumInv, FewFrames, NewestKept, NEW pos \in Places,
         NEW seq \in Nat, NEW s \in Nat, Past(pos, seq, s), Awaits(pos, s),
         WithinReach(s), ~(uiNewestFrameSeq < seq)
  PROVE  LET p == CheckOverflowed(pos, seq)
         IN  /\ s < frameNo /\ p \in Framed /\ FrameAt(p) = shm[p]
             /\ shm[p].frame = s + 1 /\ Handed(p) = s + 1
             /\ shm[p].size <= iMaxFrameSize
<1> DEFINE p == CheckOverflowed(pos, seq)
<1>1. /\ frameNo \in Nat /\ base \in Nat /\ Kept \in Int /\ cutAt = INITIAL
      /\ s > base /\ s + 1 > frameNo - Kept
  BY KeptFits DEF WithinReach, IInv, TypeOK
<1>2. /\ pos \in Cells /\ s <= frameNo /\ seq = s - base + 1
      /\ uiNewestFrameSeq = frameNo - base
  BY <1>1 DEF Past, Torn, NumInv, Counters
<1>3. s < frameNo
  BY <1>1, <1>2
<1>4. PICK q \in Framed : shm[q].frame = s + 1
  <2>1. s + 1 \in base + 1 .. frameNo
    BY <1>1, <1>3
  <2> QED
    BY <1>1, <2>1 DEF NewestKept
<1>5. q \in Cells /\ shm[q].magic /\ Readable(q) /\ shm[q].seq = seq
  BY <1>1, <1>2, <1>4, FramedReadable DEF Framed, NumInv, SeqNumbered
<1>6. p = q
  <2>1. CASE pos = q
    BY <1>5, <2>1, FrameAtCell DEF CheckOverflowed
  <2>2. CASE q = START /\ LeftForStart(pos)
    <3>1. ~FrameAt(pos).magic /\ pos # INITIAL
      BY <2>2, FrameAtCell DEF LeftForStart, Cells, START, INITIAL
    <3> QED
      BY <1>5, <2>2, <3>1 DEF CheckOverflowed
  <2> QED
    BY <1>4, <2>1, <2>2 DEF Awaits, Waits
<1> HIDE DEF p
<1>7. Handed(q) = s + 1 /\ shm[q].size <= iMaxFrameSize
  BY <1>4, <1>5 DEF Handed, Readable, Whole, NumInv, HeadsFilled
<1> QED
  BY <1>3, <1>4, <1>5, <1>6, <1>7, FrameAtCell DEF p

LEMMA ReadAwaits ==
  ASSUME IInv, NumInv, FewFrames, NewestKept, NEW pos \in Places,
         NEW seq \in Nat, NEW s \in Nat \union {Torn}, NEW buf,
         Past(pos, seq, s), Awaits(pos, s)
  PROVE  LET r == ReadFrame(pos, seq, buf)
             n == IF r.rtn = "GET_A_NEW_FRAME" THEN r.frame
                  ELSE IF r.rtn = "ERROR" THEN 0 ELSE s
         IN  Awaits(r.pos, n)
<1> USE RingAssumption
<1> DEFINE p == CheckOverflowed(pos, seq)
           f == FrameAt(p)
           r == ReadFrame(pos, seq, buf)
           n == IF r.rtn = "GET_A_NEW_FRAME" THEN r.frame
                ELSE IF r.rtn = "ERROR" THEN 0 ELSE s
<1>0. base \in Nat /\ frameNo \in Nat /\ f.magic \in BOOLEAN /\ f.size \in Nat
  BY FrameAtTyped DEF IInv, TypeOK
<1>a. \A q : Awaits(q, 0) /\ Awaits(q, Torn)
  BY <1>0 DEF Awaits, WithinReach, Torn
<1>1. CASE n = s /\ r.pos = pos
  BY <1>1
<1>2. CASE r = Lost
  BY <1>2, <1>a DEF Lost, Outcome
<1>3. CASE /\ ~(uiNewestFrameSeq < seq) /\ f.magic
           /\ r = Outcome("FRAME_TOO_LARGE", p, seq, 0)
  <2>1. n = s /\ r.pos = p
    BY <1>3 DEF Outcome
  <2>2. CASE ~WithinReach(s)
    BY <2>1, <2>2 DEF Awaits
  <2>3. CASE WithinReach(s)
    <3>1. s \in Nat
      BY <1>0, <2>3 DEF WithinReach, Torn
    <3>2. s < frameNo /\ p \in Framed /\ shm[p].frame = s + 1
      BY <1>3, <2>3, <3>1, AwaitedFound
    <3>3. \A q \in Framed : shm[q].frame = s + 1 => p = q
      BY <2>3, <3>2 DEF IInv, FramesUnique, WithinReach
    <3> QED
      BY <1>0, <2>1, <3>1, <3>2, <3>3 DEF Awaits, Waits
  <2> QED
    BY <2>2, <2>3
<1>4. CASE /\ f.magic /\ ~(f.size > iMaxFrameSize)
           /\ r = Outcome("GET_A_NEW_FRAME", f.next, Following(f), Handed(p))
  <2>1. n = Handed(p) /\ r.pos = f.next
    BY <1>4 DEF Outcome
  <2>2. CASE n = Torn
    BY <2>2, <1>a
  <2>3. CASE n # Torn /\ ~WithinReach(n)
    BY <2>3 DEF Awaits
  <2>4. CASE n # Torn /\ WithinReach(n)
    <3>1. p \in Cells
      <4>1. CASE p \notin Cells /\ p = INITIAL
        BY <1>4, <4>1 DEF FrameAt, START
      <4>2. CASE p \notin Cells /\ p # INITIAL
        BY <1>4, <4>2 DEF FrameAt, Zero
      <4> QED
        BY <4>1, <4>2
    <3>2. f = shm[p] /\ cutAt = INITIAL /\ p \in Framed
      BY <1>4, <2>4, <3>1, FrameAtCell
      DEF WithinReach, Framed, Cells, START, INITIAL
    <3>3. n = shm[p].frame /\ n \in Nat
      BY <2>1, <2>4, <3>1 DEF Handed, IInv, TypeOK, Cell
    <3>4. n = frameNo /\ writer = "ready" => f.next = uiFramePos
      BY <1>0, <2>4, <3>2, <3>3
      DEF WithinReach, IInv, NewestValid, FramesUnique
    <3>5. \A q \in Framed : shm[q].frame = n + 1 => f.next = q
      BY <3>2, <3>3 DEF IInv, NeighboursLinked
    <3> QED
      BY <2>1, <3>4, <3>5 DEF Awaits, Waits
  <2> QED
    BY <2>2, <2>3, <2>4
<1>5. CASE p \notin Cells /\ f.magic /\ r.rtn \notin {"GET_A_NEW_FRAME", "ERROR"}
  <2>1. pos \notin Cells
    BY <1>5, OffTheCells
  <2>2. s = 0
    BY <2>1 DEF Past
  <2> QED
    BY <1>5, <1>a, <2>2
<1>6. CASE f.magic /\ f.size > iMaxFrameSize
           /\ r = Outcome("FRAME_TOO_LARGE", f.next, Following(f), 0)
  <2>1. p \notin Cells
    <3>1. p \in Cells => f = shm[p]
      BY FrameAtCell
    <3> QED
      BY <1>0, <1>6, <3>1 DEF NumInv, HeadsFilled
  <2> QED
    BY <1>5, <1>6, <2>1 DEF Outcome
<1>7. \/ r = Lost
      \/ r = Outcome("NO_NEW_FRAME", pos, seq, 0)
      \/ /\ f.magic /\ f.size > iMaxFrameSize
         /\ r = Outcome("FRAME_TOO_LARGE", f.next, Following(f), 0)
      \/ /\ ~(uiNewestFrameSeq < seq) /\ f.magic
         /\ r = Outcome("FRAME_TOO_LARGE", p, seq, 0)
      \/ /\ f.magic /\ ~(f.size > iMaxFrameSize)
         /\ r = Outcome("GET_A_NEW_FRAME", f.next, Following(f), Handed(p))
  BY DEF ReadFrame, NotFound, KeepLarge
<1>8. r = Outcome("NO_NEW_FRAME", pos, seq, 0) => n = s /\ r.pos = pos
  BY DEF Outcome
<1> QED
  BY <1>1, <1>2, <1>3, <1>4, <1>6, <1>7, <1>8

ReadersAwait ==
  \A i \in Ids : ~Refreshing(i) => Awaits(PosOf(i), seen[i])

LEMMA SameAwaits ==
  ASSUME UNCHANGED ringVars, NEW i, NEW pos, NEW s, Awaits(pos, s),
         PosOf(i)' = pos, seen'[i] = s
  PROVE  Awaits(PosOf(i), seen[i])'
<1>1. Kept' = Kept /\ Room' = Room /\ Cells' = Cells
  BY DEF Kept, Room, Cells
<1> QED
  BY <1>1 DEF Awaits, Waits, WithinReach, LeftForStart, Framed, ringVars

LEMMA ReaderKeepsAwaiting ==
  ASSUME IInv, NumInv, FewFrames, NewestKept, ApiTyped, OrderInv,
         ReadersAwait, ReaderNext
  PROVE  ReadersAwait'
<1>0. /\ UNCHANGED ringVars /\ RunsGoOn
      /\ \A q : Awaits(q, 0)'
  <2>1. base' \in Nat
    BY DEF ReaderNext, ringVars, IInv, TypeOK
  <2> QED
    BY <2>1, ReaderRuns DEF ReaderNext, Awaits, WithinReach, IInv
<1> SUFFICES ASSUME NEW i \in Ids, ~Refreshing(i)'
             PROVE  Awaits(PosOf(i), seen[i])'
  BY DEF ReadersAwait
<1>1. CASE seen'[i] = 0
  <2>1. PICK q : q = PosOf(i)'
    OBVIOUS
  <2>2. Awaits(q, 0)'
    BY <1>0
  <2> QED
    BY <1>1, <2>1, <2>2
<1>2. ASSUME NEW j \in Ids, RunOf(i, j)
      PROVE  Awaits(PosOf(i), seen[i])'
  <2>1. Awaits(PosOf(j), seen[j])
    BY <1>2 DEF ReadersAwait, RunOf
  <2> QED
    BY <1>0, <1>2, <2>1, SameAwaits DEF RunOf
<1>3. CASE Reads(i)
  <2> DEFINE r == ReadFrame(ids[i].pos, ids[i].seq, call.buf)
             n == IF r.rtn = "GET_A_NEW_FRAME" THEN r.frame
                  ELSE IF r.rtn = "ERROR" THEN 0 ELSE seen[i]
  <2>1. /\ ids[i].pos \in Places /\ ids[i].seq \in Nat
        /\ seen[i] \in Nat \union {Torn}
    BY DEF ApiTyped, IdType
  <2>2. ~Refreshing(i) /\ PosOf(i) = ids[i].pos /\ SeqOf(i) = ids[i].seq
    BY <1>3 DEF Reads, Refreshing, PosOf, SeqOf, Moving
  <2>3. Past(ids[i].pos, ids[i].seq, seen[i]) /\ Awaits(ids[i].pos, seen[i])
    BY <2>2 DEF OrderInv, ReadersPast, ReadersAwait
  <2>4. Awaits(r.pos, n)
    BY <2>1, <2>3, ReadAwaits
  <2>5. PosOf(i)' = r.pos /\ seen'[i] = n
    BY <1>3 DEF Reads
  <2> HIDE DEF r, n
  <2> QED
    BY <1>0, <2>4, <2>5, SameAwaits
<1> QED
  BY <1>0, <1>1, <1>2, <1>3 DEF RunsGoOn, GoesOn

LEMMA StepAwaits ==
  ASSUME IInv, NumInv, FewFrames, KeptNear, NewestKept, ApiTyped, OrderInv,
         ReadersAwait, [ApiNext]_vars
  PROVE  ReadersAwait'
<1>1. CASE ReaderNext
  BY <1>1, ReaderKeepsAwaiting
<1>2. CASE WriterStep \/ UNCHANGED vars
  <2>1. ids' = ids /\ call' = call /\ seen' = seen /\ [Next]_ringVars
    BY <1>2 DEF WriterStep, Next, vars, apiVars
  <2> SUFFICES ASSUME NEW i \in Ids, ~Refreshing(i)'
               PROVE  Awaits(PosOf(i), seen[i])'
    BY DEF ReadersAwait
  <2>2. /\ Past(PosOf(i), SeqOf(i), seen[i]) /\ Awaits(PosOf(i), seen[i])
    BY <2>1 DEF OrderInv, ReadersPast, ReadersAwait, Refreshing
  <2>3. PICK pos, seq, s : pos = PosOf(i) /\ seq = SeqOf(i) /\ s = seen[i]
    OBVIOUS
  <2>4. pos \in Places /\ s \in Nat \union {Torn}
    BY <2>3 DEF PosOf, Moving, ApiTyped, CallTyped, CallType, IdType
  <2>5. Awaits(pos, s)'
    BY <2>1, <2>2, <2>3, <2>4, AwaitsStays
  <2>6. PosOf(i)' = pos /\ seen'[i] = s
    BY <2>1, <2>3 DEF PosOf, Moving
  <2> QED
    BY <2>5, <2>6
<1> QED
  BY <1>1, <1>2 DEF ApiNext

THEOREM AwaitInvariant ==
  ASSUME FewFrames
  PROVE  ApiSpec => []ReadersAwait
<1>1. ApiInit => ReadersAwait
  BY DEF ApiInit, Init, ReadersAwait, Awaits, WithinReach
<1>2. /\ IInv /\ NumInv /\ KeptNear /\ NewestKept /\ ApiTyped /\ OrderInv
      /\ ReadersAwait /\ [ApiNext]_vars
      => ReadersAwait'
  BY StepAwaits
<1> QED
  BY <1>1, <1>2, ApiRingInvariant, ApiNumbers, ApiKept, ApiTypes,
     OrderInvariant, PTL DEF ApiSpec

(* What a call that ends says of the read it was.                          *)
LEMMA ReadReturns ==
  ASSUME TypeOK, ApiTyped, OrderInv, ReaderNext, ret'.op = "read"
  PROVE  /\ call.op = "read" /\ call.id \in Ids /\ ret'.ended = frameNo
         /\ ret'.last = seen[call.id]
         /\ \/ ret'.last = 0
            \/ IsEmpty
            \/ LET r == ReadFrame(ids[call.id].pos, ids[call.id].seq, call.buf)
               IN  ret'.rtn = r.rtn /\ ret'.got = r.frame
<1>0. NoReturn.op = "none"
  BY DEF NoReturn
<1>1. CallStep
  <2>1. CASE InitID \/ \E i \in Ids : CopyID(i) \/ RemoveID(i)
    BY <1>0, <2>1 DEF InitID, CopyID, RemoveID, Silent
  <2>2. CASE BeginCall
    BY <1>0, <2>2, BeginCallShape DEF Begins
  <2>3. CASE Answers
    BY <2>3, AnswersShape
  <2> QED
    BY <2>1, <2>2, <2>3 DEF ReaderNext, Answers
<1>2. call.op = "read" /\ call.id \in Ids /\ call.last = seen[call.id]
  <2>1. call.op = "read"
    BY <1>1, CallStepReturns
  <2> QED
    BY <2>1 DEF ApiTyped, CallTyped, OrderInv, ReadRuns
<1>3. ~Silent
  BY <1>0 DEF Silent
<1>4. ASSUME NEW rtn, NEW pos, NEW seq, NEW got, NEW key,
             Return(rtn, pos, seq, got, key)
      PROVE  ret'.ended = frameNo /\ ret'.last = seen[call.id]
             /\ ret'.rtn = rtn /\ ret'.got = got
  BY <1>2, <1>4 DEF Return
<1>5. ASSUME NEW rtn, NEW pos, NEW seq,
             Refreshed(rtn, pos, seq) \/ Moved(rtn, pos, seq)
      PROVE  ret'.ended = frameNo /\ ret'.last = seen[call.id]
  <2>1. Return("NO_FRAME", pos, seq, 0, FALSE)
    BY <1>2, <1>3, <1>5 DEF Moved, Refreshed
  <2> QED
    BY <1>4, <2>1
<1>6. call.at \notin {"empty", "read"} => ret'.last = 0 \/ ret'.last # seen[call.id]
  BY <1>2 DEF OrderInv, ReadRuns
<1>7. CASE RefreshStep \/ NewestExtrasStep
  BY <1>2, <1>3, <1>5, <1>6, <1>7 DEF RefreshStep, NewestExtrasStep
<1>8. CASE ExtrasStep
  BY <1>2, <1>3, <1>5, <1>6, <1>8 DEF ExtrasStep
<1>9. CASE MoveEmptyStep \/ MoveStep
  BY <1>2, <1>3, <1>5, <1>6, <1>9 DEF MoveEmptyStep, MoveStep, GiveUp
<1>10. CASE ReadEmptyStep
  BY <1>2, <1>3, <1>4, <1>10 DEF ReadEmptyStep
<1>11. CASE ReadStep
  BY <1>2, <1>4, <1>11 DEF ReadStep
<1> QED
  BY <1>1, <1>7, <1>8, <1>9, <1>10, <1>11 DEF CallStep

LEMMA StepReadsEvery ==
  ASSUME IInv, NumInv, FewFrames, NewestKept, ApiTyped, OrderInv,
         ReadersAwait, ReaderNext, ret'.op = "read"
  PROVE  ReadsEveryFrame'
<1> DEFINE i == call.id
           s == seen[i]
           r == ReadFrame(ids[i].pos, ids[i].seq, call.buf)
<1>1. /\ call.op = "read" /\ i \in Ids /\ ret'.ended = frameNo /\ ret'.last = s
      /\ s = 0 \/ IsEmpty \/ (ret'.rtn = r.rtn /\ ret'.got = r.frame)
  BY ReadReturns DEF IInv
<1>2. base' = base /\ cutAt' = cutAt /\ Kept' = Kept
  BY DEF ReaderNext, ringVars, Kept
<1> SUFFICES ASSUME WithinReach(s)
             PROVE  \/ ret'.rtn = "GET_A_NEW_FRAME" /\ ret'.got = s + 1
                    \/ ret'.rtn = "NO_NEW_FRAME" /\ s = frameNo
                    \/ ret'.rtn = "FRAME_TOO_LARGE" /\ s < frameNo
  BY <1>1, <1>2 DEF ReadsEveryFrame, InWindow, Got, WithinReach
<1>3. /\ ids[i].pos \in Places /\ ids[i].seq \in Nat
      /\ frameNo \in Nat /\ base \in Nat /\ s \in Nat /\ s > base
  BY <1>1 DEF ApiTyped, IdType, IInv, TypeOK, WithinReach, Torn
<1>4. Past(ids[i].pos, ids[i].seq, s) /\ Awaits(ids[i].pos, s)
  BY <1>1 DEF OrderInv, ReadersPast, ReadersAwait, Refreshing, PosOf, SeqOf,
              Moving
<1>5. /\ s <= frameNo /\ ids[i].seq = s - base + 1 /\ cutAt = INITIAL
      /\ uiNewestFrameSeq = frameNo - base
  BY <1>3, <1>4 DEF Past, Torn, WithinReach, NumInv, Counters
<1>6. ret'.rtn = r.rtn /\ ret'.got = r.frame
  BY <1>1, <1>3, <1>5 DEF IsEmpty, INITIAL
<1>7. CASE uiNewestFrameSeq < ids[i].seq
  <2>1. s = frameNo /\ uiNewestFrameSeq = ids[i].seq - 1
    BY <1>3, <1>5, <1>7
  <2>2. r = Outcome("NO_NEW_FRAME", ids[i].pos, ids[i].seq, 0)
    BY <1>7, <2>1 DEF ReadFrame
  <2> QED
    BY <1>6, <2>1, <2>2 DEF Outcome
<1>8. CASE ~(uiNewestFrameSeq < ids[i].seq)
  <2> DEFINE p == CheckOverflowed(ids[i].pos, ids[i].seq)
  <2>1. /\ s < frameNo /\ p \in Framed /\ FrameAt(p) = shm[p]
        /\ shm[p].frame = s + 1 /\ Handed(p) = s + 1
        /\ shm[p].size <= iMaxFrameSize
    BY <1>3, <1>4, <1>8, AwaitedFound
  <2>2. shm[p].magic /\ shm[p].size \in Nat
    BY <2>1 DEF Framed, IInv, TypeOK, Cell
  <2>3. \/ r.rtn = "GET_A_NEW_FRAME" /\ r.frame = Handed(p)
        \/ r.rtn = "FRAME_TOO_LARGE"
    BY <1>8, <2>1, <2>2, RingAssumption DEF ReadFrame, KeepLarge, Outcome
  <2> QED
    BY <1>6, <2>1, <2>3
<1> QED
  BY <1>7, <1>8

(* A reader at most Kept frames behind loses no frame: through wraps,      *)
(* overflows, moves that failed and copies of ids its next read hands over *)
(* the next frame, or says truly why not.                                  *)
THEOREM NoFrameMissed ==
  ASSUME FewFrames
  PROVE  ApiSpec => []ReadsEveryFrame
<1>1. ApiInit => ReadsEveryFrame
  BY DEF ApiInit, NoReturn, ReadsEveryFrame
<1>2. /\ IInv /\ NumInv /\ NewestKept /\ ApiTyped /\ OrderInv
      /\ ReadersAwait /\ ReadsEveryFrame /\ [ApiNext]_vars
      => ReadsEveryFrame'
  <2> SUFFICES ASSUME IInv, NumInv, NewestKept, ApiTyped, OrderInv,
                      ReadersAwait, ReadsEveryFrame, [ApiNext]_vars
               PROVE  ReadsEveryFrame'
    OBVIOUS
  <2>1. CASE UNCHANGED vars
    BY <2>1 DEF vars, ringVars, apiVars, ReadsEveryFrame, InWindow, Got, Kept
  <2>2. CASE WriterStep
    BY <2>2 DEF WriterStep, Silent, NoReturn, ReadsEveryFrame
  <2>3. CASE ReaderNext /\ ret'.op # "read"
    BY <2>3 DEF ReadsEveryFrame
  <2>4. CASE ReaderNext /\ ret'.op = "read"
    BY <2>4, StepReadsEvery
  <2> QED
    BY <2>1, <2>2, <2>3, <2>4 DEF ApiNext
<1> QED
  BY <1>1, <1>2, ApiRingInvariant, ApiNumbers, ApiKept, ApiTypes,
     OrderInvariant, AwaitInvariant, PTL DEF ApiSpec

------------------------------------------------------------------------------
(* The first read.  While nothing is written, an id that goes back for the *)
(* newest key frame has passed over no key frame.                          *)

THEOREM ApiLinks == ApiSpec => [](BackLinks /\ NewestStands)
<1>1. ApiInit => BackLinks /\ NewestStands
  BY InitLinks DEF ApiInit
<1>2. /\ IInv /\ BackLinks /\ NewestStands /\ [ApiNext]_vars
      => BackLinks' /\ NewestStands'
  BY RingOnly, StepKeepsLinks
<1> QED
  BY <1>1, <1>2, ApiRingInvariant, PTL DEF ApiSpec

NoKeyAfter(pos, seq) ==
  /\ pos \in Framed /\ seq = shm[pos].seq
  /\ \A q \in Framed : shm[q].key => shm[q].frame <= shm[pos].frame

Quiet ==
  /\ call.op = "read" /\ call.fresh /\ H264
  /\ call.began = frameNo /\ frameNo > base /\ cutAt = INITIAL

(* Where a call at the given place of its loop has its id.                 *)
GoingBack(c, pos, seq) ==
  /\ c.keyed
  /\ c.at # "refresh" => NoKeyAfter(pos, seq)
  /\ c.at \in Loop => c.back /\ c.steps = 1
  /\ c.at = "extras" /\ ~c.moved => ~shm[pos].key
  /\ c.at \in {"moveEmpty", "move"} => ~shm[pos].key
  /\ c.at \in {"empty", "read"} => shm[pos].key

StartInv ==
  /\ call.began <= frameNo
  /\ Quiet => GoingBack(call, ids[call.id].pos, ids[call.id].seq)

(* What an id that stands on a frame finds.                                *)
LEMMA StandsOnFrame ==
  ASSUME IInv, NumInv, cutAt = INITIAL, NEW pos \in Framed
  PROVE  /\ CheckOverflowed(pos, shm[pos].seq) = pos /\ pos # INITIAL
         /\ FrameAt(pos) = shm[pos] /\ shm[pos].magic
         /\ GetExtras(pos, shm[pos].seq) = [rtn |-> "OK", key |-> shm[pos].key]
         /\ ~CaughtUp(shm[pos].seq) /\ shm[pos].frame \in Nat
<1>1. /\ pos \in Cells /\ shm[pos].magic /\ pos # INITIAL
      /\ shm[pos].frame \in Nat /\ base \in Nat /\ frameNo \in Nat
  BY DEF Framed, Cells, START, INITIAL, IInv, TypeOK, Cell
<1>2. FrameAt(pos) = shm[pos]
  BY <1>1, FrameAtCell
<1>3. CheckOverflowed(pos, shm[pos].seq) = pos
  BY <1>1, <1>2 DEF CheckOverflowed
<1>4. ~CaughtUp(shm[pos].seq)
  <2>1. Readable(pos)
    BY FramedReadable
  <2>2. shm[pos].seq = shm[pos].frame - base /\ shm[pos].frame <= frameNo
        /\ uiNewestFrameSeq = frameNo - base
    BY <1>1, <2>1 DEF NumInv, SeqNumbered, CellsNumbered, Counters
  <2> QED
    BY <1>1, <2>2 DEF CaughtUp
<1> QED
  BY <1>1, <1>2, <1>3, <1>4 DEF GetExtras

(* Going back from a frame that is no key frame passes over none.          *)
LEMMA BackKeepsKeys ==
  ASSUME IInv, NumInv, BackLinks, cutAt = INITIAL,
         NEW pos, NEW seq, NoKeyAfter(pos, seq), ~shm[pos].key,
         MoveBack(pos, seq).rtn = "OK"
  PROVE  NoKeyAfter(MoveBack(pos, seq).pos, MoveBack(pos, seq).seq)
<1> DEFINE q == shm[pos].prev
<1>1. /\ pos \in Framed /\ seq = shm[pos].seq
      /\ CheckOverflowed(pos, seq) = pos /\ pos # INITIAL
      /\ FrameAt(pos) = shm[pos] /\ shm[pos].magic /\ ~CaughtUp(seq)
      /\ shm[pos].frame \in Nat
  BY StandsOnFrame DEF NoKeyAfter
<1>2. q \in Cells
  BY <1>1 DEF Framed, NumInv, HeadsFilled
<1>3. /\ FrameAt(q).magic
      /\ MoveBack(pos, seq) = Outcome("OK", q, FrameAt(q).seq, 0)
  BY <1>1 DEF MoveBack, Lost, Outcome
<1>4. FrameAt(q) = shm[q] /\ q \in Framed
  BY <1>2, <1>3, FrameAtCell DEF Framed, Cells, START, INITIAL
<1>5. shm[q].frame >= shm[pos].frame - 1 /\ shm[q].frame \in Nat
  BY <1>1, <1>2, <1>4 DEF BackLinks, IInv, TypeOK, Cell
<1>6. ASSUME NEW k \in Framed, shm[k].key
      PROVE  shm[k].frame <= shm[q].frame
  <2>1. shm[k].frame <= shm[pos].frame /\ shm[k].frame \in Nat
    BY <1>6 DEF NoKeyAfter, IInv, TypeOK, Cell, Framed
  <2>2. shm[k].frame # shm[pos].frame
    BY <1>1, <1>6 DEF IInv, FramesUnique
  <2> QED
    BY <1>1, <1>5, <2>1, <2>2
<1> HIDE DEF q
<1> QED
  BY <1>3, <1>4, <1>6 DEF NoKeyAfter, Outcome

(* The newest frame, once the id has been sent there.                      *)
LEMMA NewestHasNoneAfter ==
  ASSUME IInv, NumInv, NewestStands, frameNo > base, cutAt = INITIAL
  PROVE  NoKeyAfter(Refresh.pos, Refresh.seq)
  BY DEF NoKeyAfter, Refresh, Outcome, NewestStands, IInv, FramesNumbered

(* A writer's step, and those that are no steps of the call.               *)
LEMMA StartStays ==
  ASSUME IInv, StartInv, [Next]_ringVars, ApiTyped, frameNo' >= frameNo,
         call' = call,
         call.op # "none" => ids'[call.id] = ids[call.id]
  PROVE  StartInv'
<1>1. call.began \in Nat /\ frameNo \in Nat /\ frameNo' \in Nat
  BY NextKeeps DEF ApiTyped, CallTyped, CallType, IInv, TypeOK
<1>2. call'.began <= frameNo'
  BY <1>1 DEF StartInv
<1>3. ASSUME Quiet'
      PROVE  GoingBack(call, ids[call.id].pos, ids[call.id].seq)'
  <2>1. frameNo' = frameNo
    BY <1>1, <1>3 DEF Quiet, StartInv
  <2>2. UNCHANGED <<shm, uiNewestFramePos, uiNewestFrameSeq, frameNo, base,
                    cutAt>>
    BY <1>3, <2>1, QuietRing DEF Quiet
  <2>3. Quiet
    BY <1>3, <2>2 DEF Quiet
  <2>4. GoingBack(call, ids[call.id].pos, ids[call.id].seq)
    BY <2>3 DEF StartInv
  <2>5. ids'[call.id] = ids[call.id]
    BY <2>3 DEF Quiet
  <2> QED
    BY <2>2, <2>4, <2>5 DEF GoingBack, NoKeyAfter, Framed, Cells, Loop
<1> QED
  BY <1>2, <1>3 DEF StartInv

(* What a call never forgets.                                              *)
SameCall ==
  /\ call'.op = call.op /\ call'.id = call.id /\ call'.keyed = call.keyed
  /\ call'.fresh = call.fresh /\ call'.began = call.began

LEMMA CallKeeps ==
  ASSUME ApiTyped, CallStep
  PROVE  call' = NoCall \/ SameCall
<1>1. call \in CallType
  BY DEF ApiTyped, CallTyped
<1>2. ASSUME NEW rtn, NEW pos, NEW seq, Refreshed(rtn, pos, seq)
      PROVE  call' = NoCall \/ SameCall
  BY <1>1, <1>2 DEF Refreshed, Reposition, Return, SameCall, CallType
<1>3. ASSUME NEW rtn, NEW pos, NEW seq, Moved(rtn, pos, seq)
      PROVE  call' = NoCall \/ SameCall
  BY <1>2, <1>3 DEF Moved, Reposition, Return
<1>4. CASE RefreshStep
  BY <1>1, <1>2, <1>4 DEF RefreshStep, SameCall, CallType
<1>5. CASE NewestExtrasStep
  BY <1>1, <1>2, <1>5 DEF NewestExtrasStep, SameCall, CallType
<1>6. CASE ExtrasStep
  BY <1>1, <1>3, <1>6 DEF ExtrasStep, SameCall, CallType
<1>7. CASE MoveEmptyStep
  BY <1>1, <1>3, <1>7 DEF MoveEmptyStep, GiveUp, SameCall, CallType
<1>8. CASE MoveStep
  BY <1>1, <1>3, <1>8 DEF MoveStep, GiveUp, SameCall, CallType
<1>9. CASE ReadEmptyStep
  BY <1>1, <1>9 DEF ReadEmptyStep, Return, SameCall, CallType
<1>10. CASE ReadStep
  BY <1>10 DEF ReadStep, Return
<1> QED
  BY <1>4, <1>5, <1>6, <1>7, <1>8, <1>9, <1>10 DEF CallStep

(* The steps of the first read, each from where the one before left it.    *)
LEMMA RefreshStarts ==
  ASSUME IInv, NumInv, NewestStands, ApiTyped, Quiet, StartInv, RefreshStep
  PROVE  call' = NoCall \/ GoingBack(call', Refresh.pos, Refresh.seq)
<1>1. call \in CallType /\ call.keyed
  BY DEF ApiTyped, CallTyped, StartInv, GoingBack
<1>2. call' = [call EXCEPT !.at = "newest", !.rtn = Refresh.rtn]
  BY <1>1 DEF RefreshStep
<1>3. call'.keyed /\ call'.at = "newest"
  BY <1>1, <1>2 DEF CallType
<1>4. NoKeyAfter(Refresh.pos, Refresh.seq)
  BY NewestHasNoneAfter DEF Quiet
<1> QED
  BY <1>3, <1>4 DEF GoingBack, Loop

LEMMA ReadOnStarts ==
  ASSUME Quiet, call \in CallType, call.keyed, NEW rtn, NEW q, NEW n,
         NEW pos, NEW seq, Refreshed(rtn, q, n),
         NoKeyAfter(pos, seq), shm[pos].key
  PROVE  call' = NoCall \/ GoingBack(call', pos, seq)
<1>1. CASE rtn = "ERROR"
  BY <1>1 DEF Quiet, Refreshed, Return
<1>2. CASE rtn # "ERROR"
  <2>1. call' = [call EXCEPT !.at = "empty"]
    BY <1>2 DEF Quiet, Refreshed
  <2>2. call'.keyed /\ call'.at = "empty"
    BY <2>1 DEF CallType
  <2> QED
    BY <2>2 DEF GoingBack, Loop
<1> QED
  BY <1>1, <1>2

LEMMA ExtrasStarts ==
  ASSUME IInv, NumInv, ApiTyped, Quiet, StartInv,
         NewestExtrasStep \/ ExtrasStep
  PROVE  call' = NoCall
           \/ GoingBack(call', ids[call.id].pos, ids[call.id].seq)
<1> DEFINE pos == ids[call.id].pos
           seq == ids[call.id].seq
           extra == IF shm[pos].key THEN "key" ELSE "normal"
<1>1. /\ call \in CallType /\ call.keyed /\ call.at \in {"newest", "extras"}
      /\ GoingBack(call, pos, seq) /\ NoKeyAfter(pos, seq)
  BY DEF ApiTyped, CallTyped, StartInv, GoingBack, NewestExtrasStep,
         ExtrasStep
<1>2. GetExtras(pos, seq) = [rtn |-> "OK", key |-> shm[pos].key]
  BY <1>1, StandsOnFrame DEF NoKeyAfter, Quiet
<1>3. ExtrasSeen = {extra}
  BY <1>2 DEF ExtrasSeen
<1>4. shm[pos].key \in BOOLEAN
  BY <1>1 DEF NoKeyAfter, Framed, IInv, TypeOK, Cell
<1>5. CASE NewestExtrasStep /\ shm[pos].key
  <2>1. extra = "key"
    BY <1>5
  <2>2. Refreshed(call.rtn, pos, seq)
    BY <1>3, <1>5, <2>1 DEF NewestExtrasStep
  <2> QED
    BY <1>1, <1>5, <2>2, ReadOnStarts
<1>6. CASE NewestExtrasStep /\ ~shm[pos].key
  <2>1. extra = "normal"
    BY <1>6
  <2>2. call' = [call EXCEPT !.at = "extras", !.steps = 1, !.back = TRUE,
                             !.bakPos = ids[call.id].pos,
                             !.bakSeq = ids[call.id].seq]
    BY <1>3, <1>6, <2>1 DEF NewestExtrasStep
  <2>3. call'.keyed /\ call'.at = "extras" /\ call'.back /\ call'.steps = 1
    BY <1>1, <2>2 DEF CallType
  <2> HIDE DEF pos, seq
  <2>4. GoingBack(call', pos, seq)
    BY <1>1, <1>6, <2>3 DEF GoingBack, Loop
  <2> QED
    BY <2>4 DEF pos, seq
<1>7. CASE ExtrasStep /\ shm[pos].key
  <2>1. extra = "key" /\ call.at = "extras"
    BY <1>7 DEF ExtrasStep
  <2>2. call.steps = 1 /\ call.moved
    BY <1>1, <1>7, <2>1 DEF GoingBack, Loop, CallType
  <2>3. Moved("OK", pos, seq)
    BY <1>3, <1>7, <2>1, <2>2 DEF ExtrasStep, Counts
  <2>4. Refreshed("OK", pos, seq)
    BY <2>3 DEF Moved, Quiet
  <2> QED
    BY <1>1, <1>7, <2>4, ReadOnStarts
<1>8. CASE ExtrasStep /\ ~shm[pos].key
  <2>1. extra = "normal" /\ call.at = "extras"
    BY <1>8 DEF ExtrasStep
  <2>2. call.steps = 1 /\ call.back
    BY <1>1, <2>1 DEF GoingBack, Loop
  <2>3. call' = [call EXCEPT !.at = "moveEmpty", !.steps = call.steps,
                             !.extra = extra]
    BY <1>3, <1>8, <2>1, <2>2 DEF ExtrasStep, Counts
  <2>4. /\ call'.keyed /\ call'.at = "moveEmpty" /\ call'.back
        /\ call'.steps = call.steps
    BY <1>1, <2>2, <2>3 DEF CallType
  <2> HIDE DEF pos, seq
  <2>5. GoingBack(call', pos, seq)
    BY <1>1, <1>8, <2>2, <2>4 DEF GoingBack, Loop
  <2> QED
    BY <2>5 DEF pos, seq
<1> QED
  BY <1>4, <1>5, <1>6, <1>7, <1>8

LEMMA MoveStarts ==
  ASSUME IInv, NumInv, BackLinks, ApiTyped, Quiet, StartInv,
         MoveEmptyStep \/ MoveStep
  PROVE  \/ call' = NoCall
         \/ /\ MoveEmptyStep /\ ids' = ids
            /\ GoingBack(call', ids[call.id].pos, ids[call.id].seq)
         \/ LET r == MoveBack(ids[call.id].pos, ids[call.id].seq)
            IN  MoveTo(r.pos, r.seq) /\ GoingBack(call', r.pos, r.seq)
<1> DEFINE pos == ids[call.id].pos
           seq == ids[call.id].seq
           r   == MoveBack(pos, seq)
<1>1. /\ call \in CallType /\ call.keyed /\ call.at \in {"moveEmpty", "move"}
      /\ call.back /\ call.steps = 1 /\ ~shm[pos].key /\ NoKeyAfter(pos, seq)
  BY DEF ApiTyped, CallTyped, StartInv, GoingBack, MoveEmptyStep, MoveStep,
         Loop
<1>2. ASSUME GiveUp PROVE call' = NoCall
  BY <1>2 DEF GiveUp, Moved, Refreshed, Return, Quiet
<1>3. CASE MoveEmptyStep /\ ~GiveUp
  <2>1. call' = [call EXCEPT !.at = "move"] /\ ids' = ids
    BY <1>3 DEF MoveEmptyStep
  <2>2. /\ call'.keyed /\ call'.at = "move" /\ call'.back /\ call'.steps = 1
    BY <1>1, <2>1 DEF CallType
  <2> HIDE DEF pos, seq, r
  <2>3. GoingBack(call', pos, seq)
    BY <1>1, <2>2 DEF GoingBack, Loop
  <2> QED
    BY <1>3, <2>1, <2>3 DEF pos, seq
<1>4. CASE MoveStep /\ ~GiveUp
  <2>1. /\ r.rtn = "OK" /\ MoveTo(r.pos, r.seq)
        /\ call' = [call EXCEPT !.at = "extras", !.steps = call.steps,
                                !.moved = TRUE]
    BY <1>1, <1>4 DEF MoveStep
  <2>2. /\ call'.keyed /\ call'.at = "extras" /\ call'.back /\ call'.moved
        /\ call'.steps = call.steps
    BY <1>1, <2>1 DEF CallType
  <2>3. NoKeyAfter(r.pos, r.seq)
    BY <1>1, <2>1, BackKeepsKeys DEF Quiet
  <2> HIDE DEF r
  <2>4. GoingBack(call', r.pos, r.seq)
    BY <1>1, <2>2, <2>3 DEF GoingBack, Loop
  <2> QED
    BY <2>1, <2>4 DEF r
<1> QED
  BY <1>2, <1>3, <1>4

LEMMA CallStepStarts ==
  ASSUME IInv, NumInv, BackLinks, NewestStands, ApiTyped, StartInv, CallStep,
         UNCHANGED ringVars
  PROVE  StartInv'
<1> DEFINE i   == call.id
           pos == ids[call.id].pos
           seq == ids[call.id].seq
<1>0. /\ shm' = shm /\ frameNo' = frameNo /\ base' = base /\ cutAt' = cutAt
      /\ frameNo \in Nat /\ TypeOK
  BY DEF ringVars, IInv, TypeOK
<1>1. CASE call' = NoCall
  <2>1. call'.began = 0 /\ call'.op = "none"
    BY <1>1 DEF NoCall
  <2> QED
    BY <1>0, <2>1 DEF StartInv, Quiet
<1>2. CASE call' # NoCall /\ ~Quiet
  BY <1>0, <1>2, CallKeeps DEF SameCall, StartInv, Quiet
<1>3. CASE call' # NoCall /\ Quiet
  <2>1. SameCall /\ call.op = "read" /\ i \in Ids
    BY <1>3, CallKeeps DEF Quiet, ApiTyped, CallTyped
  <2>2. ids \in [Ids -> IdType] /\ pos \in Places /\ seq \in Nat
    BY <2>1 DEF ApiTyped, IdType
  <2>3. SUFFICES ASSUME TRUE
                 PROVE  GoingBack(call', ids'[i].pos, ids'[i].seq)
    <3>1. GoingBack(call', ids'[i].pos, ids'[i].seq)
            => GoingBack(call, ids[call.id].pos, ids[call.id].seq)'
      BY <1>0, <2>1 DEF SameCall, GoingBack, NoKeyAfter, Framed, Cells, Loop
    <3> QED
      BY <1>0, <2>1, <3>1 DEF SameCall, StartInv
  <2>4. CASE RefreshStep
    <3>1. MoveTo(Refresh.pos, Refresh.seq)
      BY <2>4 DEF RefreshStep
    <3>2. ids'[i].pos = Refresh.pos /\ ids'[i].seq = Refresh.seq
      BY <1>0, <2>1, <2>2, <3>1, MoveToMoves, MoveTyped
    <3> QED
      BY <1>3, <2>4, <3>2, RefreshStarts
  <2>5. CASE NewestExtrasStep \/ ExtrasStep
    <3>1. ids' = ids
      BY <2>5 DEF NewestExtrasStep, ExtrasStep
    <3> QED
      BY <1>3, <2>5, <3>1, ExtrasStarts
  <2>6. CASE MoveEmptyStep \/ MoveStep
    <3>1. ASSUME NEW q \in Places, NEW n \in Nat, MoveTo(q, n)
          PROVE  ids'[i].pos = q /\ ids'[i].seq = n
      BY <2>1, <2>2, <3>1, MoveToMoves
    <3> DEFINE r == MoveBack(pos, seq)
    <3>2. r.pos \in Places /\ r.seq \in Nat
      BY <1>0, <2>2, MoveTyped
    <3>3. CASE ids' = ids /\ GoingBack(call', pos, seq)
      BY <3>3
    <3>4. CASE MoveTo(r.pos, r.seq) /\ GoingBack(call', r.pos, r.seq)
      <4>1. ids'[i].pos = r.pos /\ ids'[i].seq = r.seq
        BY <3>1, <3>2, <3>4
      <4> HIDE DEF r
      <4> QED
        BY <3>4, <4>1
    <3> QED
      BY <1>3, <2>6, <3>3, <3>4, MoveStarts
  <2>7. CASE ReadEmptyStep
    <3>1. call' = [call EXCEPT !.at = "read"] /\ ids' = ids
          /\ call.at = "empty" /\ call \in CallType
      BY <1>3, <2>7 DEF ReadEmptyStep, Return, ApiTyped, CallTyped
    <3>2. call'.at = "read" /\ call'.keyed = call.keyed
      BY <3>1 DEF CallType
    <3>3. GoingBack(call, pos, seq)
      BY <1>3 DEF StartInv
    <3> QED
      BY <3>1, <3>2, <3>3 DEF GoingBack, Loop
  <2>8. CASE ReadStep
    BY <1>3, <2>8 DEF ReadStep, Return
  <2> QED
    BY <2>4, <2>5, <2>6, <2>7, <2>8 DEF CallStep
<1> QED
  BY <1>1, <1>2, <1>3

LEMMA BeginCallStarts ==
  ASSUME IInv, ApiTyped, BeginCall, UNCHANGED ringVars
  PROVE  StartInv'
<1>0. frameNo' = frameNo /\ frameNo \in Nat
  BY DEF ringVars, IInv, TypeOK
<1>1. ASSUME NEW i \in Ids, NEW op, NEW at, NEW c,
             Begin(i, op, at, [NoCall EXCEPT !.keyed = c.keyed, !.buf = c.buf])
      PROVE  /\ call'.began = frameNo /\ call'.op = op /\ call'.at = at
             /\ call'.keyed = c.keyed /\ (call'.fresh <=> ids[i].pos = INITIAL)
  BY <1>1 DEF Begin, NoCall
<1>2. ASSUME NEW i \in Ids, NEW buf \in Buffers, BeginRead(i, buf)
      PROVE  StartInv'
  <2> DEFINE at == IF ids[i].pos = INITIAL THEN "refresh" ELSE "empty"
  <2>1. /\ call'.began = frameNo /\ call'.at = at
        /\ call'.keyed = H264 /\ (call'.fresh <=> ids[i].pos = INITIAL)
    BY <1>2 DEF BeginRead, Begin, NoCall
  <2>2. call'.fresh => call'.at = "refresh"
    BY <2>1
  <2> QED
    BY <1>0, <2>1, <2>2 DEF StartInv, Quiet, GoingBack, Loop
<1>3. ASSUME NEW i \in Ids, NEW keyed \in {FALSE, H264},
             BeginRefresh(i, keyed)
      PROVE  call'.began = frameNo /\ call'.op # "read"
  BY <1>3 DEF BeginRefresh, Begin, NoCall
<1>4. ASSUME NEW i \in Ids, NEW keyed \in {FALSE, H264}, NEW steps \in Steps,
             NEW op \in {"back", "forward"}, BeginMove(i, op, steps, keyed)
      PROVE  call'.began = frameNo /\ call'.op # "read"
  BY <1>4 DEF BeginMove, Begin, NoCall
<1>5. call'.began = frameNo /\ call'.op # "read" => StartInv'
  BY <1>0 DEF StartInv, Quiet
<1> QED
  BY <1>2, <1>3, <1>4, <1>5 DEF BeginCall

LEMMA StepStarts ==
  ASSUME IInv, NumInv, BackLinks, NewestStands, ApiTyped, StartInv,
         [ApiNext]_vars
  PROVE  StartInv'
<1>0. [Next]_ringVars /\ frameNo \in Nat
  BY RingOnly DEF IInv, TypeOK
<1>1. CASE WriterStep
  <2>1. frameNo' >= frameNo
    BY <1>0, <1>1 DEF WriterStep, WriterNext, CrashNext, InitShm, ShmWrite,
                      DetachWrite, WriteFrame, CrashInWriteFrame
  <2> QED
    BY <1>0, <1>1, <2>1, StartStays DEF WriterStep
<1>2. CASE UNCHANGED vars
  BY <1>0, <1>2, StartStays DEF vars, apiVars, ringVars
<1>3. CASE ReaderNext
  <2>0. UNCHANGED ringVars /\ frameNo' >= frameNo
    BY <1>0, <1>3 DEF ReaderNext, ringVars
  <2>1. CASE InitID \/ \E i \in Ids : CopyID(i) \/ RemoveID(i)
    BY <1>0, <2>0, <2>1, StartStays DEF InitID, CopyID, RemoveID, Unlocked
  <2>2. CASE Answers
    BY <1>0, <2>0, <2>2, AnswersShape, StartStays DEF IInv
  <2>3. CASE BeginCall
    BY <2>0, <2>3, BeginCallStarts
  <2>4. CASE CallStep
    BY <2>0, <2>4, CallStepStarts
  <2> QED
    BY <1>3, <2>1, <2>2, <2>3, <2>4 DEF ReaderNext, Answers
<1> QED
  BY <1>1, <1>2, <1>3 DEF ApiNext

THEOREM StartInvariant ==
  ASSUME FewFrames
  PROVE  ApiSpec => []StartInv
<1>1. ApiInit => StartInv
  BY DEF ApiInit, Init, NoCall, StartInv, Quiet
<1>2. /\ IInv /\ NumInv /\ BackLinks /\ NewestStands /\ ApiTyped /\ StartInv
      /\ [ApiNext]_vars
      => StartInv'
  BY StepStarts
<1> QED
  BY <1>1, <1>2, ApiRingInvariant, ApiNumbers, ApiLinks, ApiTypes, PTL
  DEF ApiSpec

LEMMA ReadsNewestKey ==
  ASSUME IInv, NumInv, ApiTyped, StartInv, ReadStep, UNCHANGED ringVars
  PROVE  StartsAtNewestKey'
<1> DEFINE pos == ids[call.id].pos
           seq == ids[call.id].seq
           r   == ReadFrame(pos, seq, call.buf)
           f   == FrameAt(CheckOverflowed(pos, seq))
<1>1. /\ shm' = shm /\ frameNo' = frameNo /\ base' = base /\ cutAt' = cutAt
      /\ base \in Nat /\ frameNo \in Nat /\ Framed' = Framed
  BY DEF ringVars, IInv, TypeOK, Framed, Cells
<1>2. /\ ret'.op = "read" /\ ret'.rtn = r.rtn /\ ret'.got = r.frame
      /\ ret'.fresh = call.fresh /\ ret'.began = call.began
      /\ ret'.key = (r.rtn = "GET_A_NEW_FRAME" /\ f.key)
      /\ call.op = "read" /\ call.at = "read"
  BY DEF ReadStep, Return, ApiTyped, CallTyped
<1> SUFFICES ASSUME H264, r.rtn = "GET_A_NEW_FRAME", call.fresh,
                    call.began = frameNo, cutAt = INITIAL
             PROVE  /\ f.key
                    /\ \A p \in Framed : shm[p].key => shm[p].frame <= r.frame
  BY <1>1, <1>2 DEF StartsAtNewestKey, Got
<1>3. r.frame = Handed(CheckOverflowed(pos, seq)) /\ f.magic
      /\ ~(f.size > iMaxFrameSize)
  BY DEF ReadFrame, Lost, NotFound, KeepLarge, Outcome
<1>4. CASE frameNo > base
  <2>1. NoKeyAfter(pos, seq) /\ shm[pos].key
    BY <1>2, <1>4 DEF Quiet, StartInv, GoingBack
  <2>2. CheckOverflowed(pos, seq) = pos /\ f = shm[pos]
    BY <2>1, StandsOnFrame DEF NoKeyAfter
  <2>3. r.frame = shm[pos].frame
    <3>1. Readable(pos)
      BY <2>1, FramedReadable DEF NoKeyAfter
    <3> QED
      BY <1>3, <2>2, <3>1 DEF Handed, Readable, Whole
  <2> QED
    BY <2>1, <2>2, <2>3 DEF NoKeyAfter
<1>5. CASE ~(frameNo > base)
  <2>1. \A p \in Framed : FALSE
    BY <1>1, <1>5 DEF IInv, FramesNumbered, TypeOK, Framed, Cell
  <2> DEFINE p == CheckOverflowed(pos, seq)
  <2>2. p \in Cells
    <3>1. CASE p \notin Cells /\ p = INITIAL
      BY <1>3, <3>1, RingAssumption DEF FrameAt, START
    <3>2. CASE p \notin Cells /\ p # INITIAL
      BY <1>3, <3>2 DEF FrameAt, Zero
    <3> QED
      BY <3>1, <3>2
  <2>3. p \in Framed
    BY <1>3, <2>2, FrameAtCell DEF Framed, Cells, START, INITIAL
  <2> QED
    BY <2>1, <2>3
<1> QED
  BY <1>1, <1>4, <1>5

(* The first read of an id on a video ring hands over the newest key frame *)
(* of the ring, if none is written meanwhile: whatever the steps of the    *)
(* call find, and whatever other threads do between them.                  *)
THEOREM FirstReadIsNewestKey ==
  ASSUME FewFrames
  PROVE  ApiSpec => []StartsAtNewestKey
<1>1. ApiInit => StartsAtNewestKey
  BY DEF ApiInit, NoReturn, StartsAtNewestKey, Got
<1>2. /\ IInv /\ NumInv /\ ApiTyped /\ StartInv /\ StartsAtNewestKey
      /\ [ApiNext]_vars
      => StartsAtNewestKey'
  <2> SUFFICES ASSUME IInv, NumInv, ApiTyped, StartInv, StartsAtNewestKey,
                      [ApiNext]_vars
               PROVE  StartsAtNewestKey'
    OBVIOUS
  <2>1. CASE UNCHANGED vars
    BY <2>1 DEF vars, ringVars, apiVars, StartsAtNewestKey, Got, Framed, Cells
  <2>2. CASE WriterStep
    BY <2>2 DEF WriterStep, Silent, NoReturn, StartsAtNewestKey, Got
  <2>3. CASE ReaderNext /\ ~ReadStep
    BY <2>3, OnlyReadsGet DEF StartsAtNewestKey, IInv
  <2>4. CASE ReaderNext /\ ReadStep
    BY <2>4, ReadsNewestKey DEF ReaderNext
  <2> QED
    BY <2>1, <2>2, <2>3, <2>4 DEF ApiNext
<1> QED
  BY <1>1, <1>2, ApiRingInvariant, ApiNumbers, ApiTypes, StartInvariant, PTL
  DEF ApiSpec

------------------------------------------------------------------------------
(* Moves.  On a ring that is started once an id with sequence number n     *)
(* stands where frame n is or is going to be, whatever moved it there, as  *)
(* long as that frame is certain to be kept.                               *)

OneStart ==
  /\ base = 0
  /\ frameNo # 0 \/ writer = "ready" => starts >= 1
  /\ writer = "attached" => starts < MaxStarts
  /\ frameNo = 0 => cutAt = INITIAL

LEMMA StepOneStart ==
  ASSUME MaxStarts <= 1, IInv, OneStart, [Next]_ringVars
  PROVE  /\ OneStart' /\ base' = base
         /\ frameNo' >= frameNo
         /\ cutAt' = INITIAL => cutAt = INITIAL
<1> USE RingAssumption
<1>1. /\ frameNo \in Nat /\ starts \in Nat /\ base \in Nat
  BY DEF IInv, TypeOK
<1>2. CASE InitShm \/ DetachWrite \/ UNCHANGED ringVars
  BY <1>1, <1>2 DEF InitShm, DetachWrite, ringVars, OneStart
<1>3. CASE ShmWrite
  <2>1. starts = 0 /\ frameNo = 0 /\ cutAt = INITIAL
    BY <1>1, <1>3 DEF ShmWrite, OneStart
  <2> QED
    BY <1>1, <1>3, <2>1 DEF ShmWrite, OneStart
<1>4. ASSUME NEW len \in Lengths, NEW key \in Keys, WriteFrame(len, key)
      PROVE  /\ OneStart' /\ base' = base
             /\ frameNo' >= frameNo /\ cutAt' = cutAt
  <2>1. /\ UNCHANGED <<writer, base, starts, cutAt>> /\ writer = "ready"
        /\ frameNo' \in {frameNo, frameNo + 1}
    BY <1>4 DEF WriteFrame
  <2> QED
    BY <1>1, <2>1 DEF OneStart
<1>5. ASSUME NEW len \in Lengths, NEW key \in Keys, CrashInWriteFrame(len, key)
      PROVE  /\ OneStart' /\ base' = base
             /\ frameNo' >= frameNo /\ cutAt' # INITIAL
  <2>1. At(len) \in Cells
    BY <1>5, Placement
    DEF CrashInWriteFrame, IInv, WriterPlaced, TypeOK, Positions, Accepted
  <2>2. /\ writer = "ready" /\ writer' = "none" /\ frameNo' = frameNo + 1
        /\ cutAt' = At(len) /\ UNCHANGED <<base, starts>>
    BY <1>5 DEF CrashInWriteFrame
  <2>3. cutAt' # INITIAL
    BY <2>1, <2>2 DEF Cells, START, INITIAL
  <2> QED
    BY <1>1, <2>2, <2>3 DEF OneStart
<1> QED
  BY <1>2, <1>3, <1>4, <1>5 DEF Next, WriterNext, CrashNext

THEOREM ApiOneStart ==
  ASSUME MaxStarts <= 1
  PROVE  ApiSpec => []OneStart
<1>1. ApiInit => OneStart
  BY DEF ApiInit, Init, OneStart
<1>2. IInv /\ OneStart /\ [ApiNext]_vars => OneStart'
  BY RingOnly, StepOneStart
<1> QED
  BY <1>1, <1>2, ApiRingInvariant, PTL DEF ApiSpec

Placed(pos, seq) ==
  cutAt = INITIAL /\ pos \in Cells /\ seq # 0 =>
    /\ frameNo # 0 /\ seq <= frameNo + 1
    /\ seq > frameNo - Kept => Waits(pos, seq - 1)

(* What carries a number is found under it.                                *)
LEMMA NumberOfFrame ==
  ASSUME IInv, NumInv, OneStart, NEW p \in Framed
  PROVE  /\ shm[p].seq = shm[p].frame /\ shm[p].frame \in Nat
         /\ shm[p].frame > 0 /\ shm[p].frame <= frameNo /\ p \in Cells
<1>1. Readable(p) /\ p \in Cells
  BY FramedReadable DEF Framed
<1>2. shm[p].frame \in Nat /\ shm[p].frame > base /\ shm[p].frame <= frameNo
      /\ shm[p].seq = shm[p].frame - base
  BY <1>1 DEF IInv, TypeOK, Cell, NumInv, SeqNumbered, CellsNumbered
<1> QED
  BY <1>1, <1>2 DEF OneStart

LEMMA FramePlaced ==
  ASSUME IInv, NumInv, OneStart, NEW p \in Framed
  PROVE  Placed(p, shm[p].seq)
<1> DEFINE n == shm[p].frame
<1>1. /\ shm[p].seq = n /\ n \in Nat /\ n > 0 /\ n <= frameNo
      /\ frameNo \in Nat
  BY NumberOfFrame DEF IInv, TypeOK
<1>2. ASSUME cutAt = INITIAL PROVE Waits(p, n - 1)
  <2>1. n - 1 # frameNo /\ n - 1 + 1 = n
    BY <1>1
  <2>2. \A q \in Framed : shm[q].frame = n => p = q
    BY <1>2 DEF IInv, FramesUnique
  <2> QED
    BY <2>1, <2>2 DEF Waits
<1> HIDE DEF n
<1> QED
  BY <1>1, <1>2 DEF Placed

(* A link leads to where the next frame is or is going to be.              *)
LEMMA LinkPlaced ==
  ASSUME IInv, NumInv, OneStart, NEW p \in Framed
  PROVE  Placed(shm[p].next, shm[p].seq + 1)
<1> DEFINE n == shm[p].frame
           q == shm[p].next
<1>1. /\ shm[p].seq = n /\ n \in Nat /\ n > 0 /\ n <= frameNo
      /\ frameNo \in Nat /\ n > base
  BY NumberOfFrame DEF IInv, TypeOK, OneStart
<1>2. ASSUME cutAt = INITIAL PROVE Waits(q, n)
  <2>1. n = frameNo /\ writer = "ready" => q = uiFramePos
    BY <1>1, <1>2 DEF IInv, NewestValid, FramesUnique
  <2>2. \A k \in Framed : shm[k].frame = n + 1 => q = k
    BY <1>2 DEF IInv, NeighboursLinked
  <2> QED
    BY <2>1, <2>2 DEF Waits
<1>3. n + 1 - 1 = n /\ frameNo # 0 /\ n + 1 <= frameNo + 1
  BY <1>1
<1> HIDE DEF n, q
<1> QED
  BY <1>1, <1>2, <1>3 DEF Placed, n, q

LEMMA NewestPlaced ==
  ASSUME IInv, NumInv, NewestStands, OneStart, cutAt = INITIAL, frameNo # 0
  PROVE  /\ uiNewestFramePos \in Framed
         /\ uiNewestFrameSeq = frameNo
         /\ FrameAt(uiNewestFramePos).seq = uiNewestFrameSeq
         /\ Placed(uiNewestFramePos, uiNewestFrameSeq)
<1>1. frameNo \in Nat /\ base = 0
  BY DEF IInv, TypeOK, OneStart
<1>2. /\ uiNewestFramePos \in Framed
      /\ shm[uiNewestFramePos].seq = uiNewestFrameSeq
      /\ uiNewestFrameSeq = frameNo
  BY <1>1 DEF NewestStands, NumInv, Counters
<1>3. FrameAt(uiNewestFramePos) = shm[uiNewestFramePos]
  BY <1>2, FrameAtCell DEF Framed
<1> QED
  BY <1>2, <1>3, FramePlaced

LEMMA ReadPlaced ==
  ASSUME IInv, NumInv, OneStart, FewFrames, NEW pos \in Places,
         NEW seq \in Nat, NEW buf, Placed(pos, seq)
  PROVE  LET r == ReadFrame(pos, seq, buf)
         IN  Placed(r.pos, r.seq)
<1> USE RingAssumption
<1> DEFINE p == CheckOverflowed(pos, seq)
           f == FrameAt(p)
           r == ReadFrame(pos, seq, buf)
<1>0. f.magic \in BOOLEAN /\ f.size \in Nat /\ f.next \in Places
  BY FrameAtTyped DEF IInv
<1>1. \/ r = Lost
      \/ r = Outcome("NO_NEW_FRAME", pos, seq, 0)
      \/ /\ f.magic /\ f.size > iMaxFrameSize
         /\ r = Outcome("FRAME_TOO_LARGE", f.next, Following(f), 0)
      \/ f.magic /\ r = Outcome("FRAME_TOO_LARGE", p, seq, 0)
      \/ /\ f.magic /\ ~(f.size > iMaxFrameSize)
         /\ r = Outcome("GET_A_NEW_FRAME", f.next, Following(f), Handed(p))
  BY DEF ReadFrame, NotFound, KeepLarge
<1>2. CASE r = Lost
  <2>1. r.pos \notin Cells
    BY <1>2 DEF Lost, Outcome, Cells, START, INITIAL
  <2> QED
    BY <2>1 DEF Placed
<1>3. CASE r = Outcome("NO_NEW_FRAME", pos, seq, 0)
  BY <1>3 DEF Outcome
<1>4. CASE /\ f.magic /\ f.size > iMaxFrameSize
           /\ r = Outcome("FRAME_TOO_LARGE", f.next, Following(f), 0)
  <2>1. p \notin Cells
    <3>1. p \in Cells => f = shm[p]
      BY FrameAtCell
    <3> QED
      BY <1>0, <1>4, <3>1 DEF NumInv, HeadsFilled
  <2>2. p = INITIAL
    BY <1>4, <2>1, OffTheCells
  <2>3. f.next \notin Cells
    BY <2>2 DEF FrameAt, Cells, START, INITIAL, Inside
  <2>4. r.pos = f.next
    BY <1>4 DEF Outcome
  <2> QED
    BY <2>3, <2>4 DEF Placed
<1>5. CASE f.magic /\ r = Outcome("FRAME_TOO_LARGE", p, seq, 0)
  <2>1. r.pos = p /\ r.seq = seq
    BY <1>5 DEF Outcome
  <2>2. CASE p = pos
    BY <2>1, <2>2
  <2>3. ASSUME p # pos, cutAt = INITIAL
        PROVE  Placed(p, seq)
    <3>1. p = START /\ shm[START].seq = seq /\ START \in Cells
      BY <2>3 DEF CheckOverflowed, Cells, START
    <3>2. p \in Framed
      BY <1>5, <2>3, <3>1, FrameAtCell DEF Framed, START, INITIAL
    <3> QED
      BY <3>1, <3>2, FramePlaced
  <2> QED
    BY <2>1, <2>2, <2>3 DEF Placed
<1>6. CASE /\ f.magic /\ ~(f.size > iMaxFrameSize)
           /\ r = Outcome("GET_A_NEW_FRAME", f.next, Following(f), Handed(p))
  <2>1. r.pos = f.next /\ r.seq = Following(f)
    BY <1>6 DEF Outcome
  <2>2. p \in Cells
    <3>1. p \notin Cells => f.size = iShmSize
      BY <1>6, OffTheCells
    <3> QED
      BY <1>6, <3>1 DEF START
  <2>3. ASSUME cutAt = INITIAL PROVE Placed(f.next, Following(f))
    <3>1. f = shm[p] /\ p \in Framed
      BY <1>6, <2>2, <2>3, FrameAtCell DEF Framed, Cells, START, INITIAL
    <3>2. f.seq \in Nat /\ f.seq <= MaxFrames
      BY <3>1, NumberOfFrame DEF NumInv, Counters, IInv, TypeOK
    <3>3. Following(f) = f.seq + 1
      BY <3>2 DEF Following, FewFrames
    <3> QED
      BY <3>1, <3>3, LinkPlaced
  <2> QED
    BY <2>1, <2>3 DEF Placed
<1> QED
  BY <1>1, <1>2, <1>3, <1>4, <1>5, <1>6

LEMMA MovePlaced ==
  ASSUME IInv, NumInv, NewestStands, OneStart, FewFrames, NEW pos \in Places,
         NEW seq \in Nat, Placed(pos, seq)
  PROVE  /\ Placed(MoveForward(pos, seq).pos, MoveForward(pos, seq).seq)
         /\ frameNo # 0 =>
              Placed(MoveBack(pos, seq).pos, MoveBack(pos, seq).seq)
         /\ Placed(Refresh.pos, Refresh.seq)
<1> USE RingAssumption
<1>1. Placed(MoveForward(pos, seq).pos, MoveForward(pos, seq).seq)
  <2> DEFINE r == ReadFrame(pos, seq, iMaxFrameSize)
  <2>1. Placed(r.pos, r.seq)
    BY ReadPlaced
  <2>2. DOMAIN r = {"rtn", "pos", "seq", "frame"}
    BY DEF ReadFrame, Outcome, Lost, NotFound, KeepLarge
  <2> HIDE DEF r
  <2>3. MoveForward(pos, seq) =
          [r EXCEPT !.rtn = IF @ = "GET_A_NEW_FRAME" THEN "OK" ELSE "ERROR"]
    BY DEF MoveForward, r
  <2>4. MoveForward(pos, seq).pos = r.pos /\ MoveForward(pos, seq).seq = r.seq
    BY <2>2, <2>3
  <2> QED
    BY <2>1, <2>4
<1>2. ASSUME frameNo # 0
      PROVE  Placed(MoveBack(pos, seq).pos, MoveBack(pos, seq).seq)
  <2> DEFINE f == FrameAt(CheckOverflowed(pos, seq))
             r == MoveBack(pos, seq)
  <2>1. ASSUME FrameAt(f.prev).magic
        PROVE  Placed(f.prev, FrameAt(f.prev).seq)
    <3>1. ASSUME cutAt = INITIAL, f.prev \in Cells
          PROVE  Placed(f.prev, FrameAt(f.prev).seq)
      <4>1. FrameAt(f.prev) = shm[f.prev] /\ f.prev \in Framed
        BY <2>1, <3>1, FrameAtCell DEF Framed, Cells, START, INITIAL
      <4> QED
        BY <4>1, FramePlaced
    <3> QED
      BY <3>1 DEF Placed
  <2>2. /\ Placed(uiNewestFramePos, uiNewestFrameSeq)
        /\ Placed(uiNewestFramePos, FrameAt(uiNewestFramePos).seq)
    <3>1. CASE cutAt = INITIAL
      BY <1>2, <3>1, NewestPlaced
    <3>2. CASE cutAt # INITIAL
      BY <3>2 DEF Placed
    <3> QED
      BY <3>1, <3>2
  <2>3. \/ r = Outcome("OK", uiNewestFramePos, FrameAt(uiNewestFramePos).seq, 0)
        \/ r = Outcome("OK", uiNewestFramePos, uiNewestFrameSeq, 0)
        \/ /\ FrameAt(f.prev).magic
           /\ r = Outcome("OK", f.prev, FrameAt(f.prev).seq, 0)
        \/ r = Lost
    BY DEF MoveBack
  <2> HIDE DEF f, r
  <2>4. CASE r = Lost
    <3>1. r.pos \notin Cells
      BY <2>4 DEF Lost, Outcome, Cells, START, INITIAL
    <3> QED
      BY <3>1 DEF Placed, r
  <2>5. CASE r # Lost
    <3>1. Placed(r.pos, r.seq)
      BY <2>1, <2>2, <2>3, <2>5 DEF Outcome
    <3> QED
      BY <3>1 DEF r
  <2> QED
    BY <2>4, <2>5
<1>3. Placed(Refresh.pos, Refresh.seq)
  <2>1. Refresh.pos = uiNewestFramePos /\ Refresh.seq = uiNewestFrameSeq
    BY DEF Refresh, Outcome
  <2>2. frameNo = 0 /\ cutAt = INITIAL => uiNewestFrameSeq = 0
    BY DEF NumInv, Counters, OneStart
  <2>3. Placed(uiNewestFramePos, uiNewestFrameSeq)
    BY <2>2, NewestPlaced DEF Placed
  <2> QED
    BY <2>1, <2>3
<1> QED
  BY <1>1, <1>2, <1>3

LEMMA SamePlaced ==
  ASSUME UNCHANGED <<shm, uiFramePos, frameNo, cutAt>>,
         writer' = "ready" => writer = "ready",
         NEW pos, NEW seq, Placed(pos, seq)
  PROVE  Placed(pos, seq)'
<1>1. Kept' = Kept /\ Room' = Room /\ Cells' = Cells
  BY DEF Kept, Room, Cells
<1> QED
  BY <1>1 DEF Placed, Waits, Framed, LeftForStart

(* The writer leaves a place that is certain to be kept as it is.          *)
LEMMA PlacedStays ==
  ASSUME IInv, KeptNear, OneStart, MaxStarts <= 1, [Next]_ringVars,
         NEW pos \in Places, NEW seq \in Nat, Placed(pos, seq)
  PROVE  Placed(pos, seq)'
<1> USE RingAssumption
<1>0. frameNo \in Nat /\ base = 0 /\ Kept' = Kept /\ Kept \in Int
      /\ Cells' = Cells
  BY KeptFits DEF IInv, TypeOK, OneStart, Kept, Cells
<1>1. CASE InitShm \/ DetachWrite \/ UNCHANGED ringVars
  <2>1. /\ UNCHANGED <<shm, uiFramePos, frameNo, cutAt>>
        /\ writer' = "ready" => writer = "ready"
    BY <1>1 DEF InitShm, DetachWrite, ringVars
  <2> QED
    BY <2>1, SamePlaced
<1>2. CASE ShmWrite
  <2>1. starts = 0 /\ frameNo = 0 /\ cutAt = INITIAL
    BY <1>2 DEF ShmWrite, OneStart, IInv, TypeOK
  <2>2. seq = 0 \/ pos \notin Cells
    BY <2>1 DEF Placed
  <2> QED
    BY <1>0, <2>2 DEF Placed
<1>3. ASSUME NEW len \in Lengths, NEW key \in Keys, WriteFrame(len, key)
      PROVE  Placed(pos, seq)'
  <2>1. CASE ~Accepted(len)
    <3>1. UNCHANGED <<shm, uiFramePos, frameNo, cutAt, writer>>
      BY <1>3, <2>1 DEF WriteFrame
    <3> QED
      BY <3>1, SamePlaced
  <2>2. CASE Accepted(len)
    <3>1. frameNo' = frameNo + 1 /\ cutAt' = cutAt
      BY <1>3, <2>2 DEF WriteFrame
    <3>2. CASE cutAt = INITIAL /\ pos \in Cells /\ seq # 0
      <4>1. /\ frameNo # 0 /\ seq <= frameNo + 1
            /\ seq > frameNo - Kept => Waits(pos, seq - 1)
        BY <3>2 DEF Placed
      <4>2. PICK s \in Nat : s = seq - 1 /\ s + 1 = seq /\ s <= frameNo
        BY <1>0, <3>2, <4>1
      <4>3. ASSUME seq > frameNo + 1 - Kept PROVE Waits(pos, s)'
        BY <1>0, <1>3, <2>2, <4>1, <4>2, <4>3, WriteKeepsWaiting
      <4>4. seq > frameNo' - Kept' => Waits(pos, s)'
        BY <1>0, <3>1, <4>3
      <4>5. frameNo' # 0 /\ seq <= frameNo' + 1
        BY <1>0, <3>1, <4>1
      <4> QED
        BY <4>2, <4>4, <4>5 DEF Placed
    <3> QED
      BY <1>0, <3>1, <3>2 DEF Placed
  <2> QED
    BY <2>1, <2>2
<1>4. ASSUME NEW len \in Lengths, NEW key \in Keys, CrashInWriteFrame(len, key)
      PROVE  Placed(pos, seq)'
  <2>1. At(len) \in Cells
    BY <1>4, Placement
    DEF CrashInWriteFrame, IInv, WriterPlaced, TypeOK, Positions, Accepted
  <2>2. cutAt' # INITIAL
    BY <1>4, <2>1 DEF CrashInWriteFrame, Cells, START, INITIAL
  <2> QED
    BY <2>2 DEF Placed
<1> QED
  BY <1>1, <1>2, <1>3, <1>4 DEF Next, WriterNext, CrashNext

(* Every id stands at a place, and so does what a call that moves one will *)
(* put back.                                                               *)
Placing ==
  /\ \A i \in Ids : Placed(ids[i].pos, ids[i].seq)
  /\ call.at \in Loop => Placed(call.bakPos, call.bakSeq)

LEMMA CallStepKeepsPlacing ==
  ASSUME IInv, NumInv, NewestStands, OneStart, FewFrames, ApiTyped,
         PlacesInv, Placing, CallStep, UNCHANGED ringVars
  PROVE  Placing'
<1> DEFINE i   == call.id
           pos == ids[call.id].pos
           seq == ids[call.id].seq
<1>0. TypeOK /\ UNCHANGED <<shm, uiFramePos, frameNo, cutAt, writer>>
  BY DEF IInv, ringVars
<1>1. i \in Ids
  <2>1. call.op # "none"
    BY DEF ApiTyped, CallTyped, CallStep, RefreshStep, NewestExtrasStep,
           ExtrasStep, MoveEmptyStep, MoveStep, ReadEmptyStep, ReadStep
  <2> QED
    BY <2>1 DEF ApiTyped, CallTyped
<1>2. pos \in Places /\ seq \in Nat /\ Placed(pos, seq)
  BY <1>1 DEF ApiTyped, IdType, Placing
<1>3. PICK q \in Places, n \in Nat : GoesTo(q, n) /\ Placed(q, n)
  <2> DEFINE rr == ReadFrame(pos, seq, call.buf)
  <2>1. CASE GoesTo(pos, seq)
    BY <1>2, <2>1
  <2>2. CASE call.at = "refresh" /\ GoesTo(Refresh.pos, Refresh.seq)
    BY <1>0, <1>2, <2>2, MoveTyped, MovePlaced
  <2>3. CASE call.at \in Loop /\ GoesTo(call.bakPos, call.bakSeq)
    BY <2>3 DEF Loop, Placing, ApiTyped, CallTyped, CallType
  <2>4. CASE /\ call.at = "move"
             /\ \E r \in Moves(pos, seq) : r.rtn = "OK" /\ GoesTo(r.pos, r.seq)
    <3>1. frameNo # 0
      BY <2>4 DEF PlacesInv
    <3> QED
      BY <1>0, <1>2, <2>4, <3>1, MoveTyped, MovePlaced DEF Moves
  <2>5. CASE GoesTo(rr.pos, rr.seq)
    BY <1>0, <1>2, <2>5, ReadTyped, ReadPlaced
  <2> QED
    BY <1>0, <2>1, <2>2, <2>3, <2>4, <2>5, CallStepPlaces
<1>4. ASSUME NEW j \in Ids PROVE Placed(ids[j].pos, ids[j].seq)'
  <2>1. PICK k, m : k = ids'[j].pos /\ m = ids'[j].seq
    OBVIOUS
  <2>2. Placed(k, m)
    BY <1>3, <2>1 DEF GoesTo, Placing
  <2>3. Placed(k, m)'
    BY <1>0, <2>2, SamePlaced
  <2> QED
    BY <2>1, <2>3
<1>5. ASSUME call'.at \in Loop PROVE Placed(call.bakPos, call.bakSeq)'
  <2>1. PICK k, m : k = call'.bakPos /\ m = call'.bakSeq
    OBVIOUS
  <2>2. Placed(k, m)
    BY <1>0, <1>2, <1>5, <2>1, CallStepPlaces DEF KeepsBak, Placing, Loop
  <2>3. Placed(k, m)'
    BY <1>0, <2>2, SamePlaced
  <2> QED
    BY <2>1, <2>3
<1> QED
  BY <1>4, <1>5 DEF Placing, Loop

LEMMA StepPlacing ==
  ASSUME IInv, NumInv, KeptNear, NewestStands, OneStart, MaxStarts <= 1,
         FewFrames, ApiTyped, PlacesInv, Placing, [ApiNext]_vars
  PROVE  Placing'
<1>a. /\ Placed(Free.pos, Free.seq)' /\ Placed(Fresh.pos, Fresh.seq)'
  BY DEF Free, Fresh, Placed, INITIAL
<1>b. ASSUME NEW p \in Places, NEW n \in Nat, Placed(p, n)
      PROVE  Placed(p, n)'
  BY <1>b, RingOnly, PlacedStays
<1>c. ASSUME NEW i \in Ids, NEW j \in Ids, ids'[i] = ids[j]
      PROVE  Placed(ids[i].pos, ids[i].seq)'
  <2>1. PICK p, n : p = ids[j].pos /\ n = ids[j].seq
    OBVIOUS
  <2>2. p \in Places /\ n \in Nat /\ Placed(p, n)
    BY <2>1 DEF ApiTyped, IdType, Placing
  <2>3. Placed(p, n)'
    BY <1>b, <2>2
  <2> QED
    BY <1>c, <2>1, <2>3
<1>d. ASSUME NEW i \in Ids, ids'[i] \in {Free, Fresh}
      PROVE  Placed(ids[i].pos, ids[i].seq)'
  <2>1. PICK p, n : p = ids'[i].pos /\ n = ids'[i].seq
    OBVIOUS
  <2>2. Placed(p, n)'
    <3>1. p \notin Cells'
      BY <1>d, <2>1 DEF Free, Fresh, INITIAL, Cells, START
    <3> QED
      BY <3>1 DEF Placed
  <2> QED
    BY <2>1, <2>2
<1>e. ASSUME call' = call
      PROVE  call'.at \in Loop => Placed(call.bakPos, call.bakSeq)'
  <2> SUFFICES ASSUME call.at \in Loop
               PROVE  Placed(call.bakPos, call.bakSeq)'
    BY <1>e
  <2>1. PICK p, n : p = call.bakPos /\ n = call.bakSeq
    OBVIOUS
  <2>2. p \in Places /\ n \in Nat /\ Placed(p, n)
    BY <2>1 DEF ApiTyped, CallTyped, CallType, Placing
  <2>3. Placed(p, n)'
    BY <1>b, <2>2
  <2> QED
    BY <1>e, <2>1, <2>3
<1>f. ASSUME ids' = ids, call' = call
      PROVE  Placing'
  BY <1>c, <1>e, <1>f DEF Placing, Loop
<1>g. ASSUME NEW f, NEW id, NEW s, GivesID(f, id, s),
             id = Fresh \/ \E j \in Ids : id = ids[j]
      PROVE  Placing'
  <2>1. call' = call /\ ids'[f] = id /\ \A i \in Ids : i # f => ids'[i] = ids[i]
    BY <1>g DEF GivesID
  <2>2. ASSUME NEW i \in Ids PROVE Placed(ids[i].pos, ids[i].seq)'
    <3>1. CASE i # f
      BY <1>c, <2>1, <3>1
    <3>2. CASE i = f
      BY <1>c, <1>d, <1>g, <2>1, <3>2
    <3> QED
      BY <3>1, <3>2
  <2> QED
    BY <1>e, <2>1, <2>2 DEF Placing, Loop
<1>1. CASE WriterStep \/ UNCHANGED vars
  BY <1>1, <1>f DEF WriterStep, vars, apiVars
<1>2. CASE ReaderNext
  <2>0. UNCHANGED ringVars /\ ids \in [Ids -> IdType]
    BY <1>2 DEF ReaderNext, ApiTyped
  <2>1. CASE InitID
    BY <1>g, <2>1, InitIDShape
  <2>2. ASSUME NEW i \in Ids, CopyID(i) PROVE Placing'
    BY <1>g, <2>2, CopyIDShape
  <2>3. ASSUME NEW i \in Ids, RemoveID(i) PROVE Placing'
    <3>1. call' = call /\ ids' = [ids EXCEPT ![i] = Free]
      BY <2>3 DEF RemoveID
    <3>2. ASSUME NEW j \in Ids PROVE Placed(ids[j].pos, ids[j].seq)'
      <4>1. ids'[j] = ids[j] \/ ids'[j] = Free
        BY <2>0, <3>1
      <4> QED
        BY <1>c, <1>d, <4>1
    <3> QED
      BY <1>e, <3>1, <3>2 DEF Placing, Loop
  <2>4. CASE Answers
    BY <1>f, <2>4, AnswersShape DEF IInv
  <2>5. CASE BeginCall
    <3>1. PICK i \in Ids : Begins(i)
      BY <2>5, BeginCallShape DEF IInv
    <3>2. ids' = ids /\ call'.bakPos = ids[i].pos /\ call'.bakSeq = ids[i].seq
      BY <3>1 DEF Begins
    <3>3. \A j \in Ids : Placed(ids[j].pos, ids[j].seq)'
      BY <1>c, <3>2
    <3>4. Placed(ids[i].pos, ids[i].seq)'
      BY <3>3
    <3>5. Placed(call.bakPos, call.bakSeq)'
      BY <3>2, <3>4
    <3> QED
      BY <3>3, <3>5 DEF Placing
  <2>6. CASE CallStep
    BY <2>0, <2>6, CallStepKeepsPlacing
  <2> QED
    BY <1>2, <2>1, <2>2, <2>3, <2>4, <2>5, <2>6 DEF ReaderNext, Answers
<1> QED
  BY <1>1, <1>2 DEF ApiNext

(* Wherever an id has been moved, by reads, moves, copies or refreshes,    *)
(* the frame its sequence number names is found at its position, or at     *)
(* START once the writer has wrapped there, while it is kept.              *)
THEOREM PlacingInvariant ==
  ASSUME FewFrames, MaxStarts <= 1
  PROVE  ApiSpec => []Placing
<1>1. ApiInit => Placing
  BY DEF ApiInit, Free, NoCall, Placing, Placed, INITIAL, Loop
<1>2. /\ IInv /\ NumInv /\ KeptNear /\ NewestStands /\ OneStart /\ ApiTyped
      /\ PlacesInv /\ Placing /\ [ApiNext]_vars
      => Placing'
  BY StepPlacing
<1> QED
  BY <1>1, <1>2, ApiRingInvariant, ApiNumbers, ApiKept, ApiLinks, ApiTypes,
     ApiOneStart, PlacesInvariant, PTL DEF ApiSpec

StillKept(n) == n > base /\ n > frameNo - Kept /\ cutAt = INITIAL

(* A frame that is kept is found where its number is placed.               *)
LEMMA PlacedFound ==
  ASSUME IInv, NumInv, OneStart, NewestKept, NEW pos \in Cells,
         NEW n \in Nat, Placed(pos, n), StillKept(n), n <= frameNo
  PROVE  LET p == CheckOverflowed(pos, n)
         IN  /\ p \in Framed /\ FrameAt(p) = shm[p]
             /\ shm[p].frame = n /\ shm[p].seq = n
<1> DEFINE p == CheckOverflowed(pos, n)
<1>1. /\ frameNo \in Nat /\ base = 0 /\ Kept \in Int /\ cutAt = INITIAL
      /\ n > 0 /\ n > frameNo - Kept
  BY KeptFits DEF StillKept, IInv, TypeOK, OneStart
<1>2. Waits(pos, n - 1)
  BY <1>1 DEF Placed
<1>3. PICK q \in Framed : shm[q].frame = n
  <2>1. n \in base + 1 .. frameNo
    BY <1>1
  <2> QED
    BY <1>1, <2>1 DEF NewestKept
<1>4. q \in Cells /\ shm[q].magic /\ shm[q].seq = n
  BY <1>3, NumberOfFrame DEF Framed
<1>5. pos = q \/ (q = START /\ LeftForStart(pos))
  <2>1. n - 1 + 1 = n
    OBVIOUS
  <2> QED
    BY <1>2, <1>3, <2>1 DEF Waits
<1>6. p = q
  <2>1. CASE pos = q
    BY <1>4, <2>1, FrameAtCell DEF CheckOverflowed
  <2>2. CASE q = START /\ LeftForStart(pos)
    <3>1. ~FrameAt(pos).magic /\ pos # INITIAL
      BY <2>2, FrameAtCell DEF LeftForStart, Cells, START, INITIAL
    <3> QED
      BY <1>4, <2>2, <3>1 DEF CheckOverflowed
  <2> QED
    BY <1>5, <2>1, <2>2
<1> HIDE DEF p
<1> QED
  BY <1>3, <1>4, <1>6, FrameAtCell DEF p

(* So an id placed at a number stands for the frame of that number.        *)
LEMMA StandsThere ==
  ASSUME IInv, NumInv, OneStart, NewestKept, NEW pos \in Cells,
         NEW n \in Nat, Placed(pos, n), StillKept(n)
  PROVE  Standing(pos, n) = n
<1> DEFINE p == CheckOverflowed(pos, n)
<1>1. /\ frameNo \in Nat /\ base = 0 /\ cutAt = INITIAL /\ n > 0
      /\ pos # INITIAL /\ uiNewestFrameSeq = frameNo
  BY DEF StillKept, IInv, TypeOK, OneStart, NumInv, Counters, Cells, START,
         INITIAL
<1>2. n <= frameNo + 1
  BY <1>1 DEF Placed
<1>3. CASE n <= frameNo
  <2>1. p \in Framed /\ FrameAt(p) = shm[p] /\ shm[p].frame = n /\ shm[p].seq = n
    BY <1>3, PlacedFound
  <2> QED
    BY <1>1, <2>1 DEF Standing, Framed
<1>4. CASE n = frameNo + 1
  <2>1. p \in Cells
    BY RingAssumption DEF CheckOverflowed, Cells, START
  <2>2. ~(FrameAt(p).magic /\ FrameAt(p).seq = n)
    <3>1. FrameAt(p).magic => p \in Framed /\ FrameAt(p) = shm[p]
      BY <1>1, <2>1, FrameAtCell DEF Framed, Cells, START, INITIAL
    <3>2. p \in Framed => shm[p].seq <= frameNo /\ shm[p].seq \in Nat
      BY NumberOfFrame
    <3> QED
      BY <1>1, <1>4, <3>1, <3>2
  <2> QED
    BY <1>1, <1>4, <2>2 DEF Standing
<1> QED
  BY <1>1, <1>2, <1>3, <1>4

LEMMA BackOne ==
  ASSUME IInv, NumInv, NewestStands, OneStart, NewestKept, NEW pos \in Cells,
         NEW n \in Nat, Placed(pos, n), StillKept(n - 1),
         MoveBack(pos, n).rtn = "OK"
  PROVE  MoveBack(pos, n).pos \in Cells /\ MoveBack(pos, n).seq = n - 1
<1> DEFINE p == CheckOverflowed(pos, n)
           f == FrameAt(p)
           r == MoveBack(pos, n)
<1>1. /\ frameNo \in Nat /\ base = 0 /\ cutAt = INITIAL /\ n > 1
      /\ Kept \in Int /\ n - 1 > frameNo - Kept
      /\ pos # INITIAL /\ uiNewestFrameSeq = frameNo
  BY KeptFits DEF StillKept, IInv, TypeOK, OneStart, NumInv, Counters, Cells,
                  START, INITIAL
<1>2. n <= frameNo + 1 /\ frameNo # 0
  BY <1>1 DEF Placed
<1>3. CASE CaughtUp(n)
  <2>1. n - 1 = frameNo
    BY <1>1, <1>3 DEF CaughtUp
  <2>2. r = Outcome("OK", uiNewestFramePos, uiNewestFrameSeq, 0)
    BY <1>1, <1>3 DEF MoveBack
  <2>3. uiNewestFramePos \in Cells
    BY <1>1, <1>2, NewestPlaced DEF Framed
  <2> QED
    BY <1>1, <2>1, <2>2, <2>3 DEF Outcome
<1>4. CASE ~CaughtUp(n)
  <2>1. n <= frameNo
    BY <1>1, <1>2, <1>4 DEF CaughtUp
  <2>2. StillKept(n)
    BY <1>1 DEF StillKept
  <2>3. p \in Framed /\ f = shm[p] /\ shm[p].frame = n
    BY <2>1, <2>2, PlacedFound
  <2>4. PICK q \in Framed : shm[q].frame = n - 1
    <3>1. n - 1 \in base + 1 .. frameNo
      BY <1>1, <2>1
    <3> QED
      BY <1>1, <3>1 DEF NewestKept
  <2>5. shm[p].prev = q
    <3>1. shm[p].frame = shm[q].frame + 1
      BY <2>3, <2>4
    <3> QED
      BY <1>1, <2>3, <2>4, <3>1 DEF IInv, NeighboursLinked
  <2>6. q \in Cells /\ shm[q].seq = n - 1 /\ FrameAt(q) = shm[q]
    BY <2>4, NumberOfFrame, FrameAtCell
  <2>7. r = Outcome("OK", f.prev, FrameAt(f.prev).seq, 0) \/ r = Lost
    BY <1>1, <1>4 DEF MoveBack
  <2>8. r # Lost
    BY DEF Lost, Outcome
  <2> QED
    BY <2>3, <2>5, <2>6, <2>7, <2>8 DEF Outcome
<1> QED
  BY <1>3, <1>4

LEMMA ForwardOne ==
  ASSUME IInv, NumInv, OneStart, FewFrames, NewestKept, NEW pos \in Cells,
         NEW n \in Nat, Placed(pos, n), StillKept(n),
         MoveForward(pos, n).rtn = "OK"
  PROVE  MoveForward(pos, n).pos \in Cells /\ MoveForward(pos, n).seq = n + 1
<1> USE RingAssumption
<1> DEFINE p == CheckOverflowed(pos, n)
           f == FrameAt(p)
           r == ReadFrame(pos, n, iMaxFrameSize)
<1>1. /\ frameNo \in Nat /\ base = 0 /\ cutAt = INITIAL
      /\ uiNewestFrameSeq = frameNo /\ frameNo <= MaxFrames
  BY DEF StillKept, IInv, TypeOK, OneStart, NumInv, Counters
<1>2. DOMAIN r = {"rtn", "pos", "seq", "frame"}
  BY DEF ReadFrame, Outcome, Lost, NotFound, KeepLarge
<1>3. \/ r = Lost
      \/ r = Outcome("NO_NEW_FRAME", pos, n, 0)
      \/ r = Outcome("FRAME_TOO_LARGE", f.next, Following(f), 0)
      \/ r = Outcome("FRAME_TOO_LARGE", p, n, 0)
      \/ /\ ~(uiNewestFrameSeq < n)
         /\ r = Outcome("GET_A_NEW_FRAME", f.next, Following(f), Handed(p))
  BY DEF ReadFrame, NotFound, KeepLarge
<1> HIDE DEF r
<1>4. MoveForward(pos, n) =
        [r EXCEPT !.rtn = IF @ = "GET_A_NEW_FRAME" THEN "OK" ELSE "ERROR"]
  BY DEF MoveForward, r
<1>5. /\ MoveForward(pos, n).pos = r.pos /\ MoveForward(pos, n).seq = r.seq
      /\ r.rtn = "GET_A_NEW_FRAME"
  BY <1>2, <1>4
<1>6. /\ ~(uiNewestFrameSeq < n) /\ r.pos = f.next /\ r.seq = Following(f)
  BY <1>3, <1>5 DEF Lost, Outcome
<1>7. p \in Framed /\ f = shm[p] /\ shm[p].seq = n
  BY <1>1, <1>6, PlacedFound
<1>8. shm[p].next \in Cells
  BY <1>7 DEF NumInv, HeadsFilled, Framed
<1>9. Following(f) = n + 1
  BY <1>1, <1>6, <1>7 DEF Following, FewFrames
<1> QED
  BY <1>5, <1>6, <1>7, <1>8, <1>9

(* A call that moves an id by frames, asked for c.asked of them, has gone  *)
(* the ones it has not left, if they are kept.                             *)
Plain(c) == c.op \in {"back", "forward"} /\ ~c.keyed

OnTheWay(c, pos, seq) ==
  LET done == c.asked - c.steps
  IN  /\ c.at \in {"moveEmpty", "move"}
      /\ c.op = IF c.back THEN "back" ELSE "forward"
      /\ c.steps >= 1 /\ c.steps <= c.asked
      /\ c.stood # 0 /\ cutAt = INITIAL =>
           /\ c.bakSeq = c.stood /\ c.bakPos \in Cells
           /\ c.back /\ StillKept(c.stood - done) =>
                seq = c.stood - done /\ pos \in Cells
           /\ ~c.back /\ StillKept(c.stood) =>
                seq = c.stood + done /\ pos \in Cells

Steady == Plain(call) => OnTheWay(call, ids[call.id].pos, ids[call.id].seq)

(* One frame further.                                                      *)
LEMMA OneFurther ==
  ASSUME IInv, NumInv, NewestStands, OneStart, FewFrames, NewestKept,
         NEW c \in CallType, NEW pos \in Places, NEW seq \in Nat,
         Placed(pos, seq), OnTheWay(c, pos, seq), c.stood # 0,
         NEW r, r = IF c.back THEN MoveBack(pos, seq)
                    ELSE MoveForward(pos, seq),
         r.rtn = "OK"
  PROVE  LET done == c.asked - c.steps + 1
         IN  /\ c.back /\ StillKept(c.stood - done) =>
                  r.seq = c.stood - done /\ r.pos \in Cells
             /\ ~c.back /\ StillKept(c.stood) =>
                  r.seq = c.stood + done /\ r.pos \in Cells
<1> DEFINE done == c.asked - c.steps
<1>1. /\ c.asked \in Nat /\ c.steps \in Int /\ c.stood \in Nat
      /\ c.steps <= c.asked /\ frameNo \in Nat /\ base \in Nat /\ Kept \in Int
  BY KeptFits DEF CallType, OnTheWay, IInv, TypeOK
<1>2. done \in Nat
  BY <1>1
<1>a. /\ c.back /\ StillKept(c.stood - done) =>
             seq = c.stood - done /\ pos \in Cells
      /\ ~c.back /\ StillKept(c.stood) =>
             seq = c.stood + done /\ pos \in Cells
  BY DEF OnTheWay, StillKept
<1>b. c.asked - c.steps + 1 = done + 1
  OBVIOUS
<1> HIDE DEF done
<1>3. ASSUME c.back, StillKept(c.stood - (done + 1))
      PROVE  r.seq = c.stood - (done + 1) /\ r.pos \in Cells
  <2>1. StillKept(c.stood - done)
    BY <1>1, <1>2, <1>3 DEF StillKept
  <2>2. seq = c.stood - done /\ pos \in Cells /\ r = MoveBack(pos, seq)
    BY <1>3, <1>a, <2>1
  <2>3. StillKept(seq - 1) /\ seq - 1 = c.stood - (done + 1)
    <3>1. seq - 1 = c.stood - (done + 1)
      BY <1>1, <1>2, <2>2
    <3> QED
      BY <1>3, <3>1
  <2> QED
    BY <2>2, <2>3, BackOne
<1>4. ASSUME ~c.back, StillKept(c.stood)
      PROVE  r.seq = c.stood + (done + 1) /\ r.pos \in Cells
  <2>1. seq = c.stood + done /\ pos \in Cells /\ r = MoveForward(pos, seq)
    BY <1>4, <1>a
  <2>2. StillKept(seq)
    BY <1>1, <1>2, <1>4, <2>1 DEF StillKept
  <2>3. r.seq = seq + 1 /\ r.pos \in Cells
    BY <2>1, <2>2, ForwardOne
  <2>4. seq + 1 = c.stood + (done + 1)
    BY <1>1, <1>2, <2>1
  <2> QED
    BY <2>3, <2>4
<1> QED
  BY <1>3, <1>4, <1>b

(* What the call reports, once it gives up or has gone all the way.        *)
LEMMA ErrorIsExact ==
  ASSUME IInv, NumInv, OneStart, NewestKept, ApiTyped, Placing, Steady,
         Plain(call), UNCHANGED ringVars,
         Reports("ERROR", call.bakPos, call.bakSeq)
  PROVE  MovesExactly'
<1> SUFFICES ASSUME ret'.op \in {"back", "forward"}, ret'.stood # 0,
                    StaysInWindow(ret.stood)'
             PROVE  ret'.rtn = "ERROR" /\ ret'.stands = ret'.stood
  BY DEF MovesExactly
<1>1. /\ ret'.rtn = "ERROR" /\ ret'.stood = call.stood /\ ret'.ended = frameNo
      /\ ret'.stands = Standing(call.bakPos, call.bakSeq)
  BY DEF Reports, Repositions
<1>2. StillKept(call.stood)
  <2>1. Kept' = Kept
    BY DEF Kept
  <2> QED
    BY <1>1, <2>1 DEF StaysInWindow, StillKept, ringVars
<1>3. call.bakSeq = call.stood /\ call.bakPos \in Cells /\ call.at \in Loop
  BY <1>1, <1>2 DEF Steady, OnTheWay, StillKept, Loop
<1>4. Placed(call.bakPos, call.bakSeq) /\ call.bakSeq \in Nat
  BY <1>3 DEF Placing, ApiTyped, CallTyped, CallType
<1>5. Standing(call.bakPos, call.bakSeq) = call.stood
  BY <1>2, <1>3, <1>4, StandsThere
<1> QED
  BY <1>1, <1>5

LEMMA ArrivalIsExact ==
  ASSUME IInv, NumInv, NewestStands, OneStart, FewFrames, NewestKept,
         ApiTyped, PlacesInv, Placing, Steady, Plain(call),
         call.id \in Ids, call.at = "move", call.steps = 1,
         UNCHANGED ringVars,
         NEW r, r = IF call.back THEN MoveBack(ids[call.id].pos, ids[call.id].seq)
                    ELSE MoveForward(ids[call.id].pos, ids[call.id].seq),
         r.rtn = "OK", Reports("OK", r.pos, r.seq)
  PROVE  MovesExactly'
<1> DEFINE pos == ids[call.id].pos
           seq == ids[call.id].seq
           target == IF call.back THEN call.stood - call.asked
                     ELSE call.stood + call.asked
<1> SUFFICES ASSUME ret'.op \in {"back", "forward"}, ret'.stood # 0,
                    StaysInWindow(ret.stood)'
             PROVE  /\ ret'.rtn # "ERROR"
                    /\ LET t == IF ret'.op = "back"
                                THEN ret'.stood - ret'.asked
                                ELSE ret'.stood + ret'.asked
                       IN  t > base' /\ t > ret'.ended - Kept' /\ cutAt' = INITIAL
                             => ret'.stands = t
  BY DEF MovesExactly, StaysInWindow
<1>1. /\ ret'.rtn = "OK" /\ ret'.stood = call.stood /\ ret'.ended = frameNo
      /\ ret'.op = call.op /\ ret'.asked = call.asked
      /\ ret'.stands = Standing(r.pos, r.seq)
  BY DEF Reports, Repositions
<1>2. /\ call \in CallType /\ pos \in Places /\ seq \in Nat
      /\ Placed(pos, seq) /\ OnTheWay(call, pos, seq)
      /\ call.asked \in Nat /\ call.stood \in Nat
  BY DEF ApiTyped, CallTyped, CallType, IdType, Placing, Steady
<1>3. (IF ret'.op = "back" THEN ret'.stood - ret'.asked
       ELSE ret'.stood + ret'.asked) = target
  BY <1>1, <1>2 DEF OnTheWay
<1>4. ASSUME NEW t, t > base', t > ret'.ended - Kept', cutAt' = INITIAL
      PROVE  StillKept(t)
  <2>1. Kept' = Kept
    BY DEF Kept
  <2> QED
    BY <1>1, <1>4, <2>1 DEF StillKept, ringVars
<1>5. StillKept(call.stood)
  BY <1>1, <1>4 DEF StaysInWindow
<1>6. call.asked - call.steps + 1 = call.asked
  BY <1>2
<1> SUFFICES ASSUME target > base', target > ret'.ended - Kept',
                    cutAt' = INITIAL
             PROVE  Standing(r.pos, r.seq) = target
  BY <1>1, <1>3
<1>7. StillKept(target)
  BY <1>4
<1>8. r.seq = target /\ r.pos \in Cells
  <2>1. call.stood # 0
    BY <1>1
  <2> QED
    BY <1>2, <1>5, <1>6, <1>7, <2>1, OneFurther
<1>9. Placed(r.pos, r.seq) /\ r.seq \in Nat
  <2>1. frameNo # 0
    BY DEF PlacesInv
  <2> QED
    BY <1>2, <2>1, MovePlaced, MoveTyped DEF IInv
<1> HIDE DEF target
<1> QED
  BY <1>7, <1>8, <1>9, StandsThere

(* What has been gone stays so while the writer writes on.                 *)
LEMMA OnTheWayStays ==
  ASSUME TypeOK, base' = base, frameNo' \in Nat, frameNo' >= frameNo,
         cutAt' = INITIAL => cutAt = INITIAL,
         NEW c \in CallType, NEW pos, NEW seq, OnTheWay(c, pos, seq)
  PROVE  OnTheWay(c, pos, seq)'
<1>1. /\ Kept' = Kept /\ Kept \in Int /\ frameNo \in Nat /\ Cells' = Cells
      /\ base \in Nat
  BY KeptFits DEF Kept, TypeOK, Cells
<1>2. ASSUME NEW n \in Int, StillKept(n)' PROVE StillKept(n)
  <2>1. n > base' /\ n > frameNo' - Kept' /\ cutAt' = INITIAL
    BY <1>2 DEF StillKept
  <2>2. n > base /\ cutAt = INITIAL
    BY <1>1, <2>1
  <2>3. PICK a \in Nat, b \in Nat, k \in Int :
          a = frameNo' /\ b = frameNo /\ k = Kept
    BY <1>1
  <2>4. a >= b /\ n > a - k
    BY <1>1, <2>1, <2>3
  <2>5. n > b - k
    BY <2>4
  <2> QED
    BY <2>2, <2>3, <2>5 DEF StillKept
<1>3. c.stood \in Int /\ c.stood - (c.asked - c.steps) \in Int
  BY DEF CallType
<1> QED
  BY <1>1, <1>2, <1>3 DEF OnTheWay

LEMMA StillOnTheWay ==
  ASSUME IInv, NumInv, NewestStands, OneStart, FewFrames, NewestKept,
         NEW c \in CallType, NEW pos \in Places, NEW seq \in Nat,
         Placed(pos, seq), OnTheWay(c, pos, seq),
         NEW r, r = IF c.back THEN MoveBack(pos, seq)
                    ELSE MoveForward(pos, seq),
         r.rtn = "OK", c.steps # 1,
         NEW d \in CallType, d.at = "moveEmpty", d.steps = c.steps - 1,
         d.op = c.op, d.back <=> c.back, d.asked = c.asked,
         d.stood = c.stood, d.bakPos = c.bakPos, d.bakSeq = c.bakSeq
  PROVE  OnTheWay(d, r.pos, r.seq)
<1>1. /\ c.asked \in Nat /\ c.steps \in Int
      /\ c.op = IF c.back THEN "back" ELSE "forward"
      /\ c.steps >= 1 /\ c.steps <= c.asked
      /\ c.stood # 0 /\ cutAt = INITIAL => c.bakSeq = c.stood /\ c.bakPos \in Cells
  BY DEF CallType, OnTheWay
<1>2. d.asked - d.steps = c.asked - c.steps + 1 /\ d.steps >= 1
      /\ d.steps <= d.asked
  BY <1>1
<1>3. ASSUME c.stood # 0
      PROVE  /\ c.back /\ StillKept(c.stood - (d.asked - d.steps)) =>
                  r.seq = c.stood - (d.asked - d.steps) /\ r.pos \in Cells
             /\ ~c.back /\ StillKept(c.stood) =>
                  r.seq = c.stood + (d.asked - d.steps) /\ r.pos \in Cells
  BY <1>2, <1>3, OneFurther
<1> QED
  BY <1>1, <1>2, <1>3 DEF OnTheWay

LEMMA CallEnds ==
  ASSUME Plain(call), NEW rtn, NEW pos, NEW seq, Moved(rtn, pos, seq)
  PROVE  Steady'
<1>1. call' = NoCall
  BY DEF Plain, Moved, Reposition, Return
<1> QED
  BY <1>1, NoCallTyped DEF Steady, Plain

LEMMA SilentIsExact ==
  ASSUME Silent
  PROVE  MovesExactly'
  BY DEF Silent, NoReturn, MovesExactly

LEMMA MoveEmptyIsExact ==
  ASSUME IInv, NumInv, OneStart, NewestKept, ApiTyped, Placing, Steady,
         Plain(call), MoveEmptyStep, UNCHANGED ringVars
  PROVE  Steady' /\ MovesExactly'
<1>1. call \in CallType /\ call.op # "none"
  BY DEF ApiTyped, CallTyped, Plain
<1>2. CASE GiveUp
  <2>1. Moved("ERROR", call.bakPos, call.bakSeq)
    BY <1>2 DEF GiveUp
  <2>2. Reports("ERROR", call.bakPos, call.bakSeq)
    BY <1>1, <2>1, MovedReports
  <2> QED
    BY <2>1, <2>2, CallEnds, ErrorIsExact
<1>3. CASE /\ call' = [call EXCEPT !.at = "move"]
           /\ Silent /\ ids' = ids
  <2>1. PICK c, pos, seq : /\ c = [call EXCEPT !.at = "move"]
                           /\ pos = ids[call.id].pos /\ seq = ids[call.id].seq
    OBVIOUS
  <2>2. OnTheWay(call, pos, seq)
    BY <2>1 DEF Steady
  <2>3. /\ c.at = "move" /\ c.op = call.op /\ (c.back <=> call.back)
        /\ c.steps = call.steps /\ c.asked = call.asked
        /\ c.stood = call.stood /\ c.bakPos = call.bakPos
        /\ c.bakSeq = call.bakSeq /\ c.id = call.id
    BY <1>1, <2>1 DEF CallType
  <2>4. OnTheWay(c, pos, seq) /\ c \in CallType
    BY <1>1, <2>1, <2>2, <2>3 DEF OnTheWay, CallType
  <2>5. OnTheWay(c, pos, seq)'
    BY <2>4, OnTheWayStays DEF IInv, TypeOK, ringVars
  <2>6. call' = c /\ ids'[call.id].pos = pos /\ ids'[call.id].seq = seq
    BY <1>3, <2>1
  <2>7. OnTheWay(call, ids[call.id].pos, ids[call.id].seq)'
    BY <2>3, <2>5, <2>6
  <2> QED
    BY <1>3, <2>7, SilentIsExact DEF Steady
<1> QED
  BY <1>2, <1>3 DEF MoveEmptyStep

LEMMA MoveIsExact ==
  ASSUME IInv, NumInv, NewestStands, OneStart, FewFrames, NewestKept,
         ApiTyped, PlacesInv, Placing, Steady, Plain(call), MoveStep,
         UNCHANGED ringVars
  PROVE  Steady' /\ MovesExactly'
<1>1. /\ call \in CallType /\ call.op # "none" /\ call.id \in Ids
      /\ call.steps \in Int /\ ~call.keyed /\ call.at = "move"
      /\ ids \in [Ids -> IdType] /\ TypeOK
  BY DEF ApiTyped, CallTyped, CallType, Plain, MoveStep, IInv
<1>2. PICK i, pos, seq : i = call.id /\ pos = ids[i].pos /\ seq = ids[i].seq
  OBVIOUS
<1>3. /\ pos \in Places /\ seq \in Nat /\ Placed(pos, seq)
      /\ OnTheWay(call, pos, seq)
  BY <1>1, <1>2 DEF IdType, Placing, Steady
<1>4. PICK r : r = IF call.back THEN MoveBack(pos, seq)
                   ELSE MoveForward(pos, seq)
  OBVIOUS
<1>5. IF r.rtn # "OK" THEN GiveUp
      ELSE /\ MoveTo(r.pos, r.seq)
           /\ IF call.steps - 1 = 0 THEN Moved("OK", r.pos, r.seq)
              ELSE /\ call' = [call EXCEPT !.at = "moveEmpty",
                                           !.steps = call.steps - 1,
                                           !.moved = TRUE]
                   /\ Silent
  BY <1>1, <1>2, <1>4 DEF MoveStep
<1>6. CASE r.rtn # "OK"
  <2>1. Moved("ERROR", call.bakPos, call.bakSeq)
    BY <1>5, <1>6 DEF GiveUp
  <2>2. Reports("ERROR", call.bakPos, call.bakSeq)
    BY <1>1, <2>1, MovedReports
  <2> QED
    BY <2>1, <2>2, CallEnds, ErrorIsExact
<1>7. CASE r.rtn = "OK" /\ call.steps = 1
  <2>1. Moved("OK", r.pos, r.seq)
    BY <1>5, <1>7
  <2>2. Reports("OK", r.pos, r.seq)
    BY <1>1, <2>1, MovedReports
  <2> QED
    BY <1>1, <1>2, <1>4, <1>7, <2>1, <2>2, CallEnds, ArrivalIsExact
<1>8. CASE r.rtn = "OK" /\ call.steps # 1
  <2>1. /\ MoveTo(r.pos, r.seq) /\ Silent
        /\ call' = [call EXCEPT !.at = "moveEmpty", !.steps = call.steps - 1,
                                !.moved = TRUE]
    BY <1>1, <1>5, <1>8
  <2>2. PICK d : d = [call EXCEPT !.at = "moveEmpty", !.steps = call.steps - 1,
                                  !.moved = TRUE]
    OBVIOUS
  <2>a. d \in CallType
    <3>1. PICK left \in Int : left = call.steps - 1
      BY <1>1
    <3>2. PICK e : e = [call EXCEPT !.at = "moveEmpty"]
      OBVIOUS
    <3>3. e \in CallType
      BY <1>1, <3>2 DEF CallType
    <3>4. PICK g : g = [e EXCEPT !.steps = left]
      OBVIOUS
    <3>5. g \in CallType
      BY <3>1, <3>3, <3>4 DEF CallType
    <3>6. d = [g EXCEPT !.moved = TRUE]
      BY <1>1, <2>2, <3>1, <3>2, <3>4 DEF CallType
    <3> QED
      BY <3>5, <3>6 DEF CallType
  <2>b. /\ d.at = "moveEmpty" /\ d.steps = call.steps - 1
        /\ d.op = call.op /\ d.asked = call.asked
        /\ d.stood = call.stood /\ d.bakPos = call.bakPos
        /\ d.bakSeq = call.bakSeq /\ d.id = call.id
    BY <1>1, <2>2 DEF CallType
  <2>c. d.back <=> call.back
    BY <1>1, <2>2 DEF CallType
  <2>3. /\ d \in CallType /\ d.at = "moveEmpty" /\ d.steps = call.steps - 1
        /\ d.op = call.op /\ (d.back <=> call.back) /\ d.asked = call.asked
        /\ d.stood = call.stood /\ d.bakPos = call.bakPos
        /\ d.bakSeq = call.bakSeq /\ d.id = call.id
    BY <2>a, <2>b, <2>c
  <2>4. OnTheWay(d, r.pos, r.seq)
    BY <1>1, <1>3, <1>4, <1>8, <2>3, StillOnTheWay
  <2>5. PICK p, n : p = r.pos /\ n = r.seq
    OBVIOUS
  <2>6. OnTheWay(d, p, n)'
    BY <1>1, <2>3, <2>4, <2>5, OnTheWayStays DEF TypeOK, ringVars
  <2>7. p \in Places /\ n \in Nat
    BY <1>1, <1>3, <1>4, <2>5, MoveTyped
  <2>8. ids'[call.id].pos = p /\ ids'[call.id].seq = n
    BY <1>1, <2>1, <2>5, <2>7, MoveToMoves
  <2>9. OnTheWay(call, ids[call.id].pos, ids[call.id].seq)'
    BY <2>1, <2>2, <2>3, <2>6, <2>8
  <2> QED
    BY <2>1, <2>9, SilentIsExact DEF Steady
<1> QED
  BY <1>6, <1>7, <1>8

(* A call that moves an id sets out from where the id stands.              *)
LEMMA BeginMoveSteady ==
  ASSUME IInv, NumInv, FewFrames, OneStart, ApiTyped, PlacesInv,
         NEW i \in Ids, NEW keyed \in {FALSE, H264}, NEW steps \in Steps,
         NEW op \in {"back", "forward"}, BeginMove(i, op, steps, keyed),
         UNCHANGED ringVars
  PROVE  Steady'
<1> USE ApiAssumption, RingAssumption
<1>1. /\ steps > 0 /\ steps \in Nat /\ ids' = ids
      /\ call'.op = op /\ call'.id = i /\ call'.keyed = keyed
      /\ call'.at = (IF keyed THEN "extras" ELSE "moveEmpty")
      /\ call'.steps = steps /\ call'.asked = steps
      /\ (call'.back <=> op = "back") /\ call'.stood = StandingOf(i)
      /\ call'.bakPos = ids[i].pos /\ call'.bakSeq = ids[i].seq
  BY DEF BeginMove, Begin, NoCall
<1>2. ids[i].pos \in Places /\ ids[i].seq \in Nat
      /\ Unplaced(ids[i].pos, ids[i].seq)
  BY DEF ApiTyped, IdType, PlacesInv
<1>3. ASSUME StandingOf(i) # 0, cutAt = INITIAL
      PROVE  ids[i].seq = StandingOf(i) /\ ids[i].pos \in Cells
  <2>1. /\ StandingOf(i) = base + ids[i].seq
        /\ ids[i].seq <= uiNewestFrameSeq + 1
    BY <1>2, <1>3, StandingNumber DEF StandingOf
  <2>2. /\ base = 0 /\ uiNewestFrameSeq <= MaxFrames /\ uiNewestFrameSeq \in Nat
    BY <1>3 DEF OneStart, NumInv, Counters, IInv, TypeOK
  <2>3. ids[i].seq = StandingOf(i)
    BY <1>2, <2>1, <2>2
  <2>4. ids[i].seq # FarSequence + 1
    BY <1>2, <2>1, <2>2 DEF FarSequence, FewFrames
  <2> QED
    BY <1>2, <1>3, <2>3, <2>4 DEF Unplaced
<1>4. PICK c, pos, seq : c = call' /\ pos = ids[i].pos /\ seq = ids[i].seq
  OBVIOUS
<1>5. ASSUME ~keyed PROVE OnTheWay(c, pos, seq)'
  <2>1. /\ c.at = "moveEmpty" /\ c.op = (IF c.back THEN "back" ELSE "forward")
        /\ c.steps >= 1 /\ c.steps <= c.asked
    BY <1>1, <1>4, <1>5
  <2>2. c.asked - c.steps = 0
    BY <1>1, <1>4
  <2>3. StandingOf(i) \in Nat
    BY <1>2, StandingTyped DEF StandingOf, IInv
  <2>4. ASSUME c.stood # 0, cutAt' = INITIAL
        PROVE  /\ c.bakSeq = c.stood /\ c.bakPos \in Cells'
               /\ seq = c.stood - 0 /\ seq = c.stood + 0 /\ pos \in Cells'
    <3>1. cutAt = INITIAL /\ Cells' = Cells /\ c.stood = StandingOf(i)
      BY <1>1, <1>4, <2>4 DEF ringVars, Cells
    <3> QED
      BY <1>1, <1>3, <1>4, <2>3, <2>4, <3>1
  <2> QED
    BY <2>1, <2>2, <2>4 DEF OnTheWay
<1>6. call' = c /\ ids'[i].pos = pos /\ ids'[i].seq = seq
  BY <1>1, <1>4
<1>7. ~keyed => OnTheWay(call, ids[call.id].pos, ids[call.id].seq)'
  BY <1>1, <1>5, <1>6
<1> QED
  BY <1>1, <1>7 DEF Steady, Plain

(* The other calls stay what they are and report none of these moves.      *)
LEMMA OtherCallStep ==
  ASSUME ApiTyped, ~Plain(call), CallStep
  PROVE  Steady' /\ MovesExactly'
<1>1. call \in CallType
  BY DEF ApiTyped, CallTyped
<1>2. ~Plain(call')
  BY CallKeeps, NoCallTyped DEF SameCall, Plain
<1>3. ASSUME ret'.op \in {"back", "forward"} PROVE ret'.keyed
  <2>1. call.op \in {"back", "forward"} /\ call.keyed
    BY <1>3, CallStepReturns DEF Plain
  <2>a. ASSUME NEW rtn, NEW pos, NEW seq, Moved(rtn, pos, seq)
        PROVE  ret'.keyed
    <3>1. Reports(rtn, pos, seq)
      BY <1>1, <2>1, <2>a, MovedReports
    <3> QED
      BY <1>3, <2>1, <3>1 DEF Reports, Repositions
  <2>b. ~Silent
    BY <1>3 DEF Silent, NoReturn
  <2>2. ExtrasStep \/ MoveEmptyStep \/ MoveStep
    BY <2>1 DEF CallStep, RefreshStep, NewestExtrasStep, ReadEmptyStep,
                ReadStep, ApiTyped, CallTyped
  <2>3. CASE ExtrasStep
    BY <2>a, <2>b, <2>3 DEF ExtrasStep
  <2>4. CASE MoveEmptyStep
    BY <2>a, <2>b, <2>4 DEF MoveEmptyStep, GiveUp
  <2>5. CASE MoveStep
    BY <2>a, <2>b, <2>5 DEF MoveStep, GiveUp
  <2> QED
    BY <2>2, <2>3, <2>4, <2>5
<1> QED
  BY <1>2, <1>3 DEF Steady, Plain, MovesExactly

LEMMA StepMoves ==
  ASSUME IInv, NumInv, KeptNear, NewestKept, NewestStands, OneStart,
         MaxStarts <= 1, FewFrames, ApiTyped, PlacesInv, Placing, Steady,
         MovesExactly, [ApiNext]_vars
  PROVE  Steady' /\ MovesExactly'
<1>0. TypeOK /\ NoReturn.op = "none"
  BY NoCallTyped DEF IInv
<1>a. ret'.op \notin {"back", "forward"} => MovesExactly'
  BY DEF MovesExactly
<1>b. ASSUME call'.op = "none" PROVE Steady'
  BY <1>b DEF Steady, Plain
<1>1. CASE WriterStep
  <2>1. ids' = ids /\ call' = call
    BY <1>1 DEF WriterStep
  <2>2. PICK c, pos, seq : /\ c = call /\ pos = ids[call.id].pos
                           /\ seq = ids[call.id].seq
    OBVIOUS
  <2>3. c \in CallType
    BY <2>2 DEF ApiTyped, CallTyped
  <2>4. ASSUME OnTheWay(c, pos, seq) PROVE OnTheWay(c, pos, seq)'
    <3>1. /\ base' = base /\ frameNo' >= frameNo
          /\ cutAt' = INITIAL => cutAt = INITIAL
      BY RingOnly, StepOneStart
    <3>2. frameNo' \in Nat
      BY RingOnly, NextKeeps DEF IInv, TypeOK
    <3> QED
      BY <1>0, <2>3, <2>4, <3>1, <3>2, OnTheWayStays
  <2>5. call' = c /\ ids'[call.id].pos = pos /\ ids'[call.id].seq = seq
    BY <2>1, <2>2
  <2>6. OnTheWay(c, pos, seq)' =>
          OnTheWay(call, ids[call.id].pos, ids[call.id].seq)'
    BY <2>2, <2>5
  <2>7. Steady'
    BY <2>1, <2>2, <2>4, <2>6 DEF Steady, Plain
  <2> QED
    BY <1>1, <2>7, SilentIsExact DEF WriterStep
<1>2. CASE UNCHANGED vars
  BY <1>2 DEF vars, apiVars, ringVars, Steady, Plain, OnTheWay, StillKept,
              MovesExactly, StaysInWindow, Kept, Cells
<1>3. CASE ReaderNext /\ CallStep
  <2>1. UNCHANGED ringVars
    BY <1>3 DEF ReaderNext
  <2>2. CASE ~Plain(call)
    BY <1>3, <2>2, OtherCallStep
  <2>3. CASE Plain(call)
    <3>1. call.at \in {"moveEmpty", "move"}
      BY <2>3 DEF Steady, OnTheWay
    <3>2. MoveEmptyStep \/ MoveStep
      BY <1>3, <3>1 DEF CallStep, RefreshStep, NewestExtrasStep, ExtrasStep,
                        ReadEmptyStep, ReadStep
    <3> QED
      BY <2>1, <2>3, <3>2, MoveEmptyIsExact, MoveIsExact
  <2> QED
    BY <2>2, <2>3
<1>4. CASE ReaderNext /\ ~CallStep
  <2>0. UNCHANGED ringVars
    BY <1>4 DEF ReaderNext
  <2>1. ASSUME NEW f, NEW id, NEW s, GivesID(f, id, s)
        PROVE  Steady' /\ MovesExactly'
    BY <1>0, <1>a, <1>b, <2>1 DEF GivesID, Unlocked
  <2>2. CASE InitID
    BY <2>1, <2>2, InitIDShape
  <2>3. ASSUME NEW i \in Ids, CopyID(i) PROVE Steady' /\ MovesExactly'
    BY <2>1, <2>3, CopyIDShape
  <2>4. ASSUME NEW i \in Ids, RemoveID(i) PROVE Steady' /\ MovesExactly'
    BY <1>0, <1>a, <1>b, <2>4, RemoveIDShape DEF Unlocked
  <2>5. CASE Answers
    <3>1. ids' = ids /\ call' = call
      BY <1>0, <2>5, AnswersShape
    <3>2. Steady'
      BY <2>0, <3>1 DEF Steady, Plain, OnTheWay, StillKept, ringVars, Kept,
                        Cells
    <3> QED
      BY <1>0, <1>a, <2>5, <3>2, AnswersShape
  <2>6. CASE BeginCall
    <3>1. ret' = NoReturn
      BY <1>0, <2>6, BeginCallShape DEF Begins
    <3>2. ASSUME NEW i \in Ids, NEW keyed \in {FALSE, H264},
                 NEW steps \in Steps, NEW op \in {"back", "forward"},
                 BeginMove(i, op, steps, keyed)
          PROVE  Steady'
      BY <2>0, <3>2, BeginMoveSteady
    <3>3. ASSUME NEW i \in Ids, NEW buf \in Buffers, BeginRead(i, buf)
          PROVE  Steady'
      BY <3>3 DEF BeginRead, Begin, NoCall, Steady, Plain
    <3>4. ASSUME NEW i \in Ids, NEW keyed \in {FALSE, H264},
                 BeginRefresh(i, keyed)
          PROVE  Steady'
      BY <3>4 DEF BeginRefresh, Begin, NoCall, Steady, Plain
    <3>5. Steady'
      BY <2>6, <3>2, <3>3, <3>4 DEF BeginCall
    <3> QED
      BY <1>0, <1>a, <3>1, <3>5
  <2> QED
    BY <1>4, <2>2, <2>3, <2>4, <2>5, <2>6 DEF ReaderNext, Answers
<1> QED
  BY <1>1, <1>2, <1>3, <1>4 DEF ApiNext

(* SHM_BackNFrame and SHM_ForwardNFrame move an id by the frames they are  *)
(* asked for, over wraps and while the writer writes between their steps,  *)
(* as long as both ends are certain to be kept, and leave it where it      *)
(* stood when they fail; on a ring that is started once, until the         *)
(* sequence numbers start over.                                            *)
THEOREM MovesAreExact ==
  ASSUME FewFrames, MaxStarts <= 1
  PROVE  ApiSpec => []MovesExactly
<1>1. ApiInit => Steady /\ MovesExactly
  BY DEF ApiInit, NoCall, NoReturn, Steady, Plain, MovesExactly
<1>2. /\ IInv /\ NumInv /\ KeptNear /\ NewestKept /\ NewestStands /\ OneStart
      /\ ApiTyped /\ PlacesInv /\ Placing /\ Steady /\ MovesExactly
      /\ [ApiNext]_vars
      => Steady' /\ MovesExactly'
  BY StepMoves
<1> QED
  BY <1>1, <1>2, ApiRingInvariant, ApiNumbers, ApiKept, ApiLinks, ApiTypes,
     ApiOneStart, PlacesInvariant, PlacingInvariant, PTL DEF ApiSpec
==============================================================================

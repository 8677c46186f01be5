------------------------------- MODULE ShmApi --------------------------------
(***************************************************************************)
(* The C interface of libshmav for readers (shm_read.cpp), over one ring:  *)
(* ids with a position and a sequence number each, one ShmRead object they *)
(* share, and the mutex of the media type that every call but              *)
(* SHM_GetFrameExtras holds from start to end.  The semaphore of the ring  *)
(* is only held inside one ShmRead operation, so a call is a sequence of   *)
(* steps between which the writer goes on writing.                         *)
(***************************************************************************)
EXTENDS ShmRead, FiniteSets

CONSTANTS
  Ids,      \* bound: the ids tried by the search for a free one, 0 .. MAX_IDS-1
  Ops,      \* the calls the clients of a run make
  Steps,    \* the iSteps they pass
  Buffers,  \* the buffer lengths they pass
  H264,     \* a video ring: its header says H264, its clients ask for key frames
  Crashes   \* writers may die inside WriteFrame

ASSUME ApiAssumption ==
  /\ Ids \subseteq Nat /\ Ids # {} /\ Steps \subseteq Nat
  /\ Buffers \subseteq Nat /\ H264 \in BOOLEAN /\ Crashes \in BOOLEAN

VARIABLES
  ids,   \* g_mapShm*Info: what is known of every id
  call,  \* the call that holds the mutex and where it stands
  seen,  \* history: frame an id got last, 0 once it has been repositioned
  ret    \* history: the call that has just returned, if one has

apiVars == <<ids, call, seen, ret>>
vars    == <<ringVars, apiVars>>

Free  == [live |-> FALSE, pos |-> INITIAL, seq |-> INITIAL]
Fresh == [Free EXCEPT !.live = TRUE]

NoCall ==
  [op |-> "none", id |-> 0, at |-> "idle", rtn |-> "OK", steps |-> 0,
   keyed |-> FALSE, back |-> TRUE, moved |-> FALSE, extra |-> "unset",
   bakPos |-> INITIAL, bakSeq |-> INITIAL, buf |-> 0,
   fresh |-> FALSE, began |-> 0, stood |-> 0, asked |-> 0, last |-> 0]

(* stood and stands: the frame the id stands for before and after; last    *)
(* and got: the frame read before in the same run of reads, and in this    *)
(* call; began and ended: frameNo before and after.                        *)
NoReturn ==
  [op |-> "none", rtn |-> "OK", asked |-> 0, keyed |-> FALSE,
   fresh |-> FALSE, began |-> 0, ended |-> 0, stood |-> 0, stands |-> 0,
   last |-> 0, got |-> 0, key |-> FALSE]

Live     == {i \in Ids : ids[i].live}
Unlocked == call.op = "none"

(* The frame a position and sequence number stand for: the one after the   *)
(* newest for a reader that has caught up, 0 for a position that is lost.  *)
Standing(pos, seq) ==
  LET f == FrameAt(CheckOverflowed(pos, seq))
  IN IF pos = INITIAL THEN 0
     ELSE IF f.magic /\ f.seq = seq THEN f.frame
     ELSE IF seq = uiNewestFrameSeq + 1 THEN frameNo + 1
     ELSE 0

StandingOf(i) == Standing(ids[i].pos, ids[i].seq)

(* No call returns with the step.                                          *)
Silent == ret' = NoReturn

------------------------------------------------------------------------------
(* Calls that are one step under the mutex.                                *)

FirstFree == CHOOSE i \in Ids \ Live : \A j \in Ids \ Live : i <= j

(* SHM_InitID: it fails while no writer has created the segment.           *)
InitID ==
  /\ Unlocked /\ "init" \in Ops
  /\ exists /\ Ids # Live
  /\ ids' = [ids EXCEPT ![FirstFree] = Fresh]
  /\ seen' = [seen EXCEPT ![FirstFree] = 0]
  /\ Silent /\ UNCHANGED call

(* SHM_CopyID: the new id stands where the old one does.                   *)
CopyID(i) ==
  /\ Unlocked /\ "copy" \in Ops
  /\ i \in Live /\ Ids # Live
  /\ ids' = [ids EXCEPT ![FirstFree] = ids[i]]
  /\ seen' = [seen EXCEPT ![FirstFree] = seen[i]]
  /\ Silent /\ UNCHANGED call

RemoveID(i) ==
  /\ Unlocked /\ "remove" \in Ops
  /\ i \in Live
  /\ ids' = [ids EXCEPT ![i] = Free]
  /\ seen' = [seen EXCEPT ![i] = 0]
  /\ Silent /\ UNCHANGED call

(* SHM_Distance2Newest: what it returns, with the frame the id stands on.  *)
Distance(i) ==
  /\ Unlocked /\ "distance" \in Ops
  /\ i \in Live
  /\ ret' = [NoReturn EXCEPT
               !.op = "distance", !.stood = StandingOf(i),
               !.began = frameNo, !.ended = frameNo,
               !.got = Distance2Newest(ids[i].pos, ids[i].seq)]
  /\ UNCHANGED <<ids, call, seen>>

(* Mutant: the numbers are subtracted the other way round.                 *)
CompareSwapped(i, j) ==
  /\ Unlocked /\ "compare" \in Ops
  /\ i \in Live /\ j \in Live
  /\ ret' = [NoReturn EXCEPT
               !.op = "compare", !.stood = StandingOf(i),
               !.stands = StandingOf(j), !.began = frameNo, !.ended = frameNo,
               !.got = SeqDistance(ids[j].seq, ids[i].seq)]
  /\ UNCHANGED <<ids, call, seen>>

(* SHM_CompareWithID of two live ids: the difference of their sequence     *)
(* numbers, with the frames they stand on.                                 *)
Compare(i, j) ==
  /\ Unlocked /\ "compare" \in Ops
  /\ i \in Live /\ j \in Live
  /\ ret' = [NoReturn EXCEPT
               !.op = "compare", !.stood = StandingOf(i),
               !.stands = StandingOf(j), !.began = frameNo, !.ended = frameNo,
               !.got = SeqDistance(ids[i].seq, ids[j].seq)]
  /\ UNCHANGED <<ids, call, seen>>

(* SHM_GetFrameExtras takes no mutex: it may run inside another thread's   *)
(* call and then sees the position that call has reached.                  *)
FrameExtras(i) ==
  /\ "extras" \in Ops
  /\ i \in Live
  /\ ret' = [NoReturn EXCEPT
               !.op = "extras", !.stood = StandingOf(i),
               !.began = frameNo, !.ended = frameNo,
               !.rtn = GetExtras(ids[i].pos, ids[i].seq).rtn]
  /\ UNCHANGED <<ids, call, seen>>

------------------------------------------------------------------------------
(* Calls that take the semaphore several times.                            *)

Begin(i, op, at, c) ==
  /\ Unlocked /\ op \in Ops
  /\ i \in Live
  /\ call' = [c EXCEPT !.op = op, !.id = i, !.at = at,
                       !.fresh = ids[i].pos = INITIAL, !.began = frameNo,
                       !.bakPos = ids[i].pos, !.bakSeq = ids[i].seq,
                       !.last = seen[i],
                       !.stood = StandingOf(i)]
  /\ Silent /\ UNCHANGED <<ids, seen>>

(* Mutant: the codec of the ring is not asked for.                         *)
BeginReadAnywhere(i, buf) ==
  Begin(i, "read", IF ids[i].pos = INITIAL THEN "refresh" ELSE "empty",
        [NoCall EXCEPT !.keyed = FALSE, !.buf = buf])

(* SHM_ReadFrameWithExtras: an id in its initial state goes to the newest  *)
(* frame first, the newest key frame on an H264 ring.                      *)
BeginRead(i, buf) ==
  Begin(i, "read", IF ids[i].pos = INITIAL THEN "refresh" ELSE "empty",
        [NoCall EXCEPT !.keyed = H264, !.buf = buf])

(* SHM_Refresh.                                                            *)
BeginRefresh(i, keyed) ==
  Begin(i, "refresh", "refresh", [NoCall EXCEPT !.keyed = keyed])

(* SHM_BackNFrame and SHM_ForwardNFrame.                                   *)
BeginMove(i, op, steps, keyed) ==
  /\ steps > 0
  /\ Begin(i, op, IF keyed THEN "extras" ELSE "moveEmpty",
           [NoCall EXCEPT !.steps = steps, !.asked = steps, !.keyed = keyed,
                          !.back = op = "back"])

(* The call gives up the mutex, its id at the given position; got is the   *)
(* frame it hands over.                                                    *)
Return(rtn, pos, seq, got, key) ==
  /\ call' = NoCall
  /\ ret' = [op |-> call.op, rtn |-> rtn, asked |-> call.asked,
             keyed |-> call.keyed, fresh |-> call.fresh,
             began |-> call.began, ended |-> frameNo,
             stood |-> call.stood, stands |-> Standing(pos, seq),
             last |-> call.last, got |-> got, key |-> key]

MoveTo(pos, seq) ==
  ids' = [ids EXCEPT ![call.id].pos = pos, ![call.id].seq = seq]

(* The call has repositioned the id, unless it failed and put it back; that *)
(* ends the run of frames read one after the other.                        *)
Reposition(rtn, pos, seq) ==
  /\ Return(rtn, pos, seq, 0, FrameAt(CheckOverflowed(pos, seq)).key)
  /\ seen' = IF rtn = "ERROR" /\ call.op # "refresh" THEN seen
             ELSE [seen EXCEPT ![call.id] = 0]

(* SHM_RefreshNolock is done: SHM_ReadFrameWithExtras reads on or gives up. *)
Refreshed(rtn, pos, seq) ==
  IF call.op = "refresh"
  THEN Reposition(rtn, pos, seq)
  ELSE /\ UNCHANGED seen
       /\ IF rtn = "ERROR"
          THEN Return("NO_FRAME", pos, seq, 0, FALSE)
          ELSE call' = [call EXCEPT !.at = "empty"] /\ Silent

(* SHM_BackNFrameNolock is done.                                           *)
Moved(rtn, pos, seq) ==
  IF call.op \in {"back", "forward"}
  THEN Reposition(rtn, pos, seq)
  ELSE Refreshed(rtn, pos, seq)

RefreshStep ==
  /\ call.at = "refresh"
  /\ MoveTo(Refresh.pos, Refresh.seq)
  /\ IF call.keyed
     THEN /\ call' = [call EXCEPT !.at = "newest", !.rtn = Refresh.rtn]
          /\ Silent /\ UNCHANGED seen
     ELSE Refreshed(Refresh.rtn, Refresh.pos, Refresh.seq)

(* What structExtraData may say after GetExtras, whose code nobody checks: *)
(* when nothing is stored it keeps what it said before, which is whatever  *)
(* the stack held if nothing ever was.                                     *)
ExtrasSeen ==
  LET e   == GetExtras(ids[call.id].pos, ids[call.id].seq)
      new == IF e.key THEN "key" ELSE "normal"
  IN IF e.rtn # "ERROR" THEN {new}
     ELSE IF call.extra = "unset" THEN {"key", "normal"}
     ELSE {call.extra}

(* SHM_RefreshNolock looks at the newest frame: if it is no key frame it   *)
(* goes back one key frame.                                                *)
NewestExtrasStep ==
  /\ call.at = "newest"
  /\ \E extra \in ExtrasSeen :
       IF extra = "key"
       THEN Refreshed(call.rtn, ids[call.id].pos, ids[call.id].seq)
       ELSE /\ call' = [call EXCEPT !.at = "extras", !.steps = 1, !.back = TRUE,
                                    !.bakPos = ids[call.id].pos,
                                    !.bakSeq = ids[call.id].seq]
            /\ Silent /\ UNCHANGED seen
  /\ UNCHANGED ids

(* A key frame counts once the id has moved.  Mutant: every frame does.    *)
CountsAny(extra) == call.moved

Counts(extra) == extra = "key" /\ call.moved

(* Head of the key-frame loop.                                             *)
ExtrasStep ==
  /\ call.at = "extras"
  /\ \E extra \in ExtrasSeen :
       LET left == IF Counts(extra)
                   THEN call.steps - 1 ELSE call.steps
       IN IF left = 0
          THEN Moved("OK", ids[call.id].pos, ids[call.id].seq)
          ELSE /\ call' = [call EXCEPT !.at = "moveEmpty", !.steps = left,
                                       !.extra = extra]
               /\ Silent /\ UNCHANGED seen
  /\ UNCHANGED ids

(* The id is put back where SHM_BackNFrameNolock found it.                 *)
GiveUp ==
  /\ MoveTo(call.bakPos, call.bakSeq)
  /\ Moved("ERROR", call.bakPos, call.bakSeq)

MoveEmptyStep ==
  /\ call.at = "moveEmpty"
  /\ IF IsEmpty THEN GiveUp
     ELSE /\ call' = [call EXCEPT !.at = "move"]
          /\ Silent /\ UNCHANGED <<ids, seen>>

MoveStep ==
  LET r == IF call.back THEN MoveBack(ids[call.id].pos, ids[call.id].seq)
           ELSE MoveForward(ids[call.id].pos, ids[call.id].seq)
      left == IF call.keyed THEN call.steps ELSE call.steps - 1
  IN /\ call.at = "move"
     /\ IF r.rtn # "OK" THEN GiveUp
        ELSE /\ MoveTo(r.pos, r.seq)
             /\ IF left = 0
                THEN Moved("OK", r.pos, r.seq)
                ELSE /\ call' = [call EXCEPT
                                   !.at = IF call.keyed THEN "extras"
                                          ELSE "moveEmpty",
                                   !.steps = left, !.moved = TRUE]
                     /\ Silent /\ UNCHANGED seen

ReadEmptyStep ==
  /\ call.at = "empty"
  /\ IF IsEmpty
     THEN Return("EMPTY_SPACE", ids[call.id].pos, ids[call.id].seq, 0, FALSE)
     ELSE call' = [call EXCEPT !.at = "read"] /\ Silent
  /\ UNCHANGED <<ids, seen>>

ReadStep ==
  LET pos == ids[call.id].pos
      seq == ids[call.id].seq
      r   == ReadFrame(pos, seq, call.buf)
      f   == FrameAt(CheckOverflowed(pos, seq))
      got == r.rtn = "GET_A_NEW_FRAME"
  IN /\ call.at = "read"
     /\ MoveTo(r.pos, r.seq)
     /\ Return(r.rtn, r.pos, r.seq, r.frame, got /\ f.key)
     /\ seen' = [seen EXCEPT ![call.id] =
                   IF got THEN r.frame ELSE IF r.rtn = "ERROR" THEN 0 ELSE @]

------------------------------------------------------------------------------
CallStep ==
  \/ RefreshStep \/ NewestExtrasStep \/ ExtrasStep
  \/ MoveEmptyStep \/ MoveStep \/ ReadEmptyStep \/ ReadStep

BeginCall ==
  \E i \in Ids :
    \/ \E buf \in Buffers : BeginRead(i, buf)
    \/ \E keyed \in {FALSE, H264} :
         \/ BeginRefresh(i, keyed)
         \/ \E steps \in Steps, op \in {"back", "forward"} :
              BeginMove(i, op, steps, keyed)

ReaderNext ==
  /\ \/ InitID \/ BeginCall \/ CallStep
     \/ \E i \in Ids : CopyID(i) \/ RemoveID(i) \/ Distance(i) \/ FrameExtras(i)
     \/ \E i, j \in Ids : i # j /\ Compare(i, j)
  /\ UNCHANGED ringVars

WriterStep ==
  /\ WriterNext \/ (Crashes /\ CrashNext)
  /\ Silent /\ UNCHANGED <<ids, call, seen>>

ApiInit ==
  /\ Init
  /\ ids = [i \in Ids |-> Free]
  /\ call = NoCall
  /\ seen = [i \in Ids |-> 0]
  /\ ret = NoReturn

ApiNext == WriterStep \/ ReaderNext

ApiSpec == ApiInit /\ [][ApiNext]_vars

(* A reading thread polls its id for ever (the loops of record.c and       *)
(* testdanavideo.c) and a call that holds the mutex runs on; the writer     *)
(* owes nothing.                                                           *)
Fairness ==
  /\ WF_vars(CallStep /\ UNCHANGED ringVars)
  /\ \A i \in Ids, buf \in Buffers :
       WF_vars(BeginRead(i, buf) /\ UNCHANGED ringVars)

FairApiSpec == ApiSpec /\ Fairness

------------------------------------------------------------------------------
(* Properties.                                                             *)

ApiTypeOK ==
  /\ ids \in [Ids -> [live: BOOLEAN, pos: Positions \union {Inside}, seq: Nat]]
  /\ call.op \in {"none", "read", "refresh", "back", "forward"}
  /\ call.at \in {"idle", "refresh", "newest", "extras", "moveEmpty", "move",
                  "empty", "read"}
  /\ call.bakPos \in Positions \union {Inside} /\ call.id \in Nat
  /\ seen \in [Ids -> Nat \union {Torn}]
  /\ ret.stands \in Nat /\ ret.got \in Int

(* The frames one run of reads hands over.                                 *)
Got == ret.op = "read" /\ ret.rtn = "GET_A_NEW_FRAME"

(* While it lasts, no frame is handed over a second time or after a newer  *)
(* one: ReadFrame trusts whatever head stands at the saved position and    *)
(* compares no sequence numbers, also after the writer lapped the reader   *)
(* or was restarted.                                                       *)
ReadsInOrder == Got /\ ret.last # 0 /\ ret.got # Torn => ret.got > ret.last

(* Only a writer that died inside WriteFrame can make a reader hand over   *)
(* bytes of two frames as one.                                             *)
TornOnlyAfterCrash == Got /\ ret.got = Torn => cutAt # INITIAL

(* A reader no more than the kept window behind loses nothing: the read    *)
(* hands over exactly the next frame, or says that there is none yet, or   *)
(* that the buffer is too small for it; it never fails.                    *)
InWindow == ret.last > base /\ ret.last + 1 > ret.ended - Kept

ReadsEveryFrame ==
  ret.op = "read" /\ InWindow /\ cutAt = INITIAL =>
    \/ Got /\ ret.got = ret.last + 1
    \/ ret.rtn = "NO_NEW_FRAME" /\ ret.last = ret.ended
    \/ ret.rtn = "FRAME_TOO_LARGE" /\ ret.last < ret.ended

(* An id in its initial state on an H264 ring starts with the newest key   *)
(* frame, if nothing is written during the call that resynchronises it.    *)
StartsAtNewestKey ==
  /\ H264 /\ Got /\ ret.fresh
  /\ ret.began = ret.ended /\ ret.ended = frameNo /\ cutAt = INITIAL
  => /\ ret.key
     /\ \A p \in Framed : shm[p].key => shm[p].frame <= ret.got

(* Moving by n frames moves by n frames, over wraps and while the writer   *)
(* writes between the steps, as long as both ends stay in the window; a    *)
(* call that fails leaves the id where it stood.                           *)
StaysInWindow(n) == n > base /\ n > ret.ended - Kept /\ cutAt = INITIAL

MovesExactly ==
  ret.op \in {"back", "forward"} /\ ~ret.keyed /\ ret.stood # 0
  /\ StaysInWindow(ret.stood) =>
    IF ret.rtn = "ERROR" THEN ret.stands = ret.stood
    ELSE LET target == IF ret.op = "back" THEN ret.stood - ret.asked
                       ELSE ret.stood + ret.asked
         IN StaysInWindow(target) => ret.stands = target

(* Moving by key frames ends on a key frame, if what it ends on is still   *)
(* there: GetExtras may fail in the loop and leave the flag of an earlier  *)
(* frame to be taken for this one's.                                       *)
KeyedMovesEndOnKey ==
  ret.op \in {"back", "forward", "refresh"} /\ ret.keyed /\ ret.rtn = "OK"
  /\ StaysInWindow(ret.stands) => ret.key

(* shm_read.cpp:597, SHM_BackNFrame: ">=0 : success back to the frame      *)
(* postion which distant iSteps to current frame", here key frames.  The   *)
(* flag read before is taken for that of a frame that is gone.             *)
KeyedMovesFindAKey ==
  ret.op \in {"back", "forward"} /\ ret.keyed /\ ret.rtn = "OK" => ret.key

(* The distance is the number of frames written after the one the id       *)
(* stands on; -1 says it has caught up, and -2 that its frame is gone.     *)
DistanceIsExact ==
  ret.op = "distance" /\ ret.ended = frameNo /\ cutAt = INITIAL =>
    CASE ret.got >= 0  -> ret.got = frameNo - ret.stood
      [] ret.got = -1  -> ret.stood = frameNo + 1
      [] ret.got = -2  -> ret.stood = 0

(* Two ids compare as the frames they stand on do, the one that has caught  *)
(* up being ahead of all the others; whichever of them was copied, moved   *)
(* or overtaken in between.                                                *)
ComparesAsFrames ==
  ret.op = "compare" /\ ret.stood # 0 /\ ret.stands # 0 /\ cutAt = INITIAL =>
    ret.got = ret.stood - ret.stands

(* The ring, its ids and the calls on them behave as a log of frames,      *)
(* across wraps, overtaken readers and restarts of the writer, as long as  *)
(* no writer dies inside WriteFrame.                                       *)
Log == INSTANCE FrameLog
         WITH Readers <- Ids, written <- frameNo, open <- Live, got <- seen

BehavesAsLog == Log!LogSpec

(* A reader that polls catches up with a writer that has stopped.          *)
CatchesUp ==
  \A i \in Ids : <>[](i \in Live => seen[i] = frameNo)
==============================================================================

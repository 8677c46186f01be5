------------------------------- MODULE AviFile -------------------------------
(***************************************************************************)
(* The AVI file of a recorder (grd_avi_rec_api.c): frames are collected in *)
(* a buffer, their index entries in an array, and every SaveNum frames, or *)
(* when the buffer is full, both are written out: the entries to a         *)
(* temporary file, the frames to the film.  Closing the film appends the   *)
(* temporary file to it as its index, completes the header and gives it    *)
(* its name.  A failed write throws the buffer away and starts the film    *)
(* again at the next key frame.                                            *)
(*                                                                         *)
(* Bytes are left out: a frame takes its size and one unit of chunk and    *)
(* JUNK headers.  Two recorders would share the buffer (RecordControl says *)
(* when there are two); here there is one.                                 *)
(***************************************************************************)
EXTENDS Integers, Sequences, FiniteSets

CONSTANTS
  SaveNum,    \* DATA_SAVE_NUM: frames between two writes
  Capacity,   \* REC_BUF_SIZE: what the buffer holds
  MaxSize,    \* the largest frame
  MaxFrames,  \* bound: frames offered to the recorder
  MaxFiles,   \* bound: files it creates
  MaxFaults   \* bound: writes that fail, cards that go

ASSUME AviFileAssumption ==
  /\ SaveNum \in Nat \ {0} /\ MaxSize \in Nat \ {0}
  /\ Capacity \in Nat /\ Capacity > MaxSize
  /\ MaxFrames \in Nat /\ MaxFiles \in Nat /\ MaxFaults \in Nat

VARIABLES
  phase,      \* none; new: created, its first frame is to be written; open;
              \* finished: it has its name; lost: it never gets one
  unusable,   \* g_sd_tats < 0
  newFlag,    \* new_flag: the film is not opened for frames yet
  file,       \* the handle of the film is open
  idxfile,    \* the handle of the temporary file is open
  buffer,     \* normal_data_array: frames not yet written out
  bufOffset,  \* buf_offset: what they take
  bufIndex,   \* buf_index: frames since the last write
  idxArray,   \* the first pre_index_pos entries of idx_array
  entries,    \* the temporary file
  data,       \* the frames of the film, from its header on
  offset,     \* data_offset: where the next frame will be
  indexCount, \* index_count
  videoCount, \* video_count
  index,      \* the index appended to the film
  header,     \* what the header says at the end
  sent,       \* history: frames offered
  files,      \* history: files created
  faults,     \* history: failed writes, lost cards
  leaked      \* history: handles that were dropped without a close

handles == <<file, idxfile>>
memory == <<newFlag, buffer, bufOffset, bufIndex, idxArray, offset,
            indexCount, videoCount>>
disk == <<entries, data, index, header>>

aviVars ==
  <<phase, unusable, handles, memory, disk, sent, files, faults, leaked>>

HeaderSize == 1

Kinds == {"I", "P", "A"}

Frame == [n : 1 .. MaxFrames, kind : Kinds, size : 1 .. MaxSize]

Entry == [kind : Kinds, at : Nat, size : Nat]

(* What a frame takes in buffer and film.                                  *)
Room(f) == f.size + 1

Init ==
  /\ phase = "none" /\ unusable = FALSE
  /\ file = FALSE /\ idxfile = FALSE
  /\ newFlag = FALSE /\ idxArray = <<>>
  /\ buffer = <<>> /\ bufOffset = 0 /\ bufIndex = 0
  /\ offset = 0 /\ indexCount = 0 /\ videoCount = 0
  /\ entries = <<>> /\ data = <<>> /\ index = <<>>
  /\ header = [frames |-> 0, end |-> 0]
  /\ sent = 0 /\ files = 0 /\ faults = 0 /\ leaked = 0

Fault ==
  faults < MaxFaults /\ faults' = faults + 1

Handles == (IF file THEN 1 ELSE 0) + (IF idxfile THEN 1 ELSE 0)

Emptied == buffer' = <<>> /\ bufOffset' = 0 /\ bufIndex' = 0

------------------------------------------------------------------------------
(* avi_normal_record_open.  What the recorder still had open is forgotten  *)
(* with the handle it clears.                                              *)

Forget == leaked' = leaked + Handles

MayOpen == phase \notin {"new", "open"} /\ files < MaxFiles

(* The header is written and the film closed until its first frame.        *)
Open ==
  /\ MayOpen /\ ~unusable
  /\ Forget
  /\ phase' = "new" /\ files' = files + 1
  /\ file' = FALSE /\ idxfile' = TRUE
  /\ newFlag' = TRUE /\ Emptied /\ idxArray' = <<>>
  /\ offset' = 0 /\ indexCount' = 0 /\ videoCount' = 0
  /\ entries' = <<>> /\ data' = <<>> /\ index' = <<>>
  /\ UNCHANGED <<unusable, header, sent, faults>>

(* No card, no directory or no film; or no temporary file, or no header.   *)
OpenFails ==
  /\ MayOpen
  /\ Forget
  /\ phase' = "lost" /\ files' = files + 1
  /\ \/ file' = FALSE /\ idxfile' = FALSE
        /\ IF unusable THEN UNCHANGED faults ELSE Fault
     \/ ~unusable /\ Fault /\ file' = TRUE /\ idxfile' \in BOOLEAN
  /\ UNCHANGED <<unusable, memory, disk, sent>>

------------------------------------------------------------------------------
(* avi_record_write_extend                                                 *)

(* The recorder hands over a frame, to a new file the key frame it was     *)
(* created for.                                                            *)
Offered(f) ==
  /\ phase \in {"new", "open"}
  /\ f.n = sent + 1 /\ sent < MaxFrames
  /\ phase = "new" => f.kind = "I"
  /\ sent' = sent + 1
  /\ phase' = "open"
  /\ UNCHANGED <<unusable, files>>

(* Mutant: a failed write does not ask for a key frame.                    *)
ResetOnly ==
  /\ UNCHANGED newFlag
  /\ Emptied

(* A write failed.                                                         *)
Reset ==
  /\ newFlag' = TRUE
  /\ Emptied

WriteUnusable(f) ==
  /\ Offered(f) /\ unusable
  /\ Reset
  /\ UNCHANGED <<handles, idxArray, offset, indexCount, videoCount, disk,
                 faults, leaked>>

(* Only a key frame opens the film; the others before it are dropped.      *)
NotKey(f) ==
  /\ Offered(f) /\ ~unusable
  /\ newFlag /\ f.kind # "I"
  /\ UNCHANGED <<handles, memory, disk, faults, leaked>>

ReopenFails(f) ==
  /\ Offered(f) /\ ~unusable
  /\ newFlag /\ f.kind = "I"
  /\ Fault
  /\ Reset
  /\ leaked' = leaked + (IF file THEN 1 ELSE 0) /\ file' = FALSE
  /\ UNCHANGED <<idxfile, idxArray, offset, indexCount, videoCount, disk>>

(* The film is opened over the handle it had, and starts again.            *)
Accepted(f) ==
  /\ Offered(f) /\ ~unusable
  /\ newFlag => f.kind = "I"
  /\ leaked' = leaked + (IF newFlag /\ file THEN 1 ELSE 0)
  /\ file' = TRUE
  /\ UNCHANGED idxfile

Begun == IF newFlag THEN <<>> ELSE data
At == IF newFlag THEN HeaderSize ELSE offset

(* A frame the buffer has no room for is lost; the buffer is written out.  *)
Fits(f) == bufOffset + Room(f) <= Capacity

(* Mutant: one frame more than SaveNum.                                    *)
FlushesLate(f) == ~Fits(f) \/ bufIndex = SaveNum

Flushes(f) == ~Fits(f) \/ bufIndex + 1 = SaveNum

Buffered(f) == IF Fits(f) THEN Append(buffer, f) ELSE buffer

Indexed(f) ==
  IF Fits(f)
  THEN Append(idxArray, [kind |-> f.kind, at |-> At, size |-> f.size])
  ELSE idxArray

(* Mutant: a frame is counted before it is known to fit.                   *)
CountEarly(f) ==
  /\ videoCount' = videoCount + (IF f.kind # "A" THEN 1 ELSE 0)
  /\ IF Fits(f)
     THEN offset' = At + Room(f) /\ indexCount' = indexCount + 1
     ELSE offset' = At /\ UNCHANGED indexCount

Count(f) ==
  IF Fits(f)
  THEN /\ offset' = At + Room(f)
       /\ indexCount' = indexCount + 1
       /\ videoCount' = videoCount + (IF f.kind # "A" THEN 1 ELSE 0)
  ELSE offset' = At /\ UNCHANGED <<indexCount, videoCount>>

Keep(f) ==
  /\ Accepted(f) /\ ~Flushes(f)
  /\ Count(f)
  /\ newFlag' = FALSE
  /\ buffer' = Buffered(f) /\ bufIndex' = bufIndex + 1
  /\ bufOffset' = bufOffset + Room(f)
  /\ idxArray' = Indexed(f)
  /\ data' = Begun
  /\ UNCHANGED <<entries, index, header, faults>>

(* No more than SaveNum entries are written, all of them are forgotten.    *)
(* There is always a frame to write, because one fits the empty buffer.    *)
ToWrite(f) ==
  IF Len(Indexed(f)) > SaveNum THEN SubSeq(Indexed(f), 1, SaveNum)
                               ELSE Indexed(f)

(* Mutant: they are not forgotten.                                         *)
FlushRemembering(f) ==
  /\ Accepted(f) /\ Flushes(f)
  /\ Count(f)
  /\ newFlag' = FALSE
  /\ entries' = entries \o ToWrite(f) /\ idxArray' = Indexed(f)
  /\ data' = Begun \o Buffered(f) /\ Emptied
  /\ UNCHANGED <<index, header, faults>>

Flush(f) ==
  /\ Accepted(f) /\ Flushes(f)
  /\ Count(f)
  /\ newFlag' = FALSE
  /\ entries' = entries \o ToWrite(f) /\ idxArray' = <<>>
  /\ data' = Begun \o Buffered(f) /\ Emptied
  /\ UNCHANGED <<index, header, faults>>

(* The entries cannot be written, or they are but the frames cannot.       *)
FlushFails(f) ==
  /\ Accepted(f) /\ Flushes(f)
  /\ Count(f)
  /\ Fault
  /\ Reset
  /\ data' = Begun
  /\ \/ idxArray' = Indexed(f) /\ UNCHANGED entries
     \/ entries' = entries \o ToWrite(f) /\ idxArray' = <<>>
  /\ UNCHANGED <<index, header>>

WriteFrame(f) ==
  WriteUnusable(f) \/ NotKey(f) \/ ReopenFails(f) \/ Keep(f) \/ Flush(f)
    \/ FlushFails(f)

------------------------------------------------------------------------------
(* avi_record_nornal_close                                                 *)

Closing == phase = "open" /\ UNCHANGED <<unusable, sent, files, leaked>>

(* Without a card nothing is closed.                                       *)
CloseUnusable ==
  /\ Closing /\ unusable
  /\ phase' = "lost"
  /\ UNCHANGED <<handles, memory, disk, faults>>

(* A film no frame opened: the array is emptied and the film's file closed; *)
(* the temporary file stays, and stays open.                               *)
CloseNew ==
  /\ Closing /\ ~unusable /\ newFlag
  /\ phase' = "lost"
  /\ file' = FALSE
  /\ idxArray' = <<>>
  /\ UNCHANGED <<idxfile, newFlag, buffer, bufOffset, bufIndex, offset,
                 indexCount, videoCount, disk, faults>>

(* avi_add_index: what is still in the array goes to the temporary file,   *)
(* which is then read back as far as the frames were counted.              *)
AllEntries == entries \o idxArray
ReadBack == SubSeq(AllEntries, 1, indexCount)

(* update_avi_header                                                       *)
FinalHeader == [frames |-> videoCount, end |-> offset]

(* Mutant: the entries that are still in the array are forgotten.          *)
CloseWrittenOnly ==
  /\ Closing /\ ~unusable /\ ~newFlag
  /\ phase' = "finished"
  /\ file' = FALSE /\ idxfile' = FALSE
  /\ data' = data \o buffer /\ Emptied
  /\ index' = entries /\ entries' = <<>> /\ idxArray' = <<>>
  /\ header' = FinalHeader
  /\ UNCHANGED <<newFlag, offset, indexCount, videoCount, faults>>

(* Mutant: the temporary file is removed but not closed.                   *)
CloseFilmOnly ==
  /\ Closing /\ ~unusable /\ ~newFlag
  /\ Len(AllEntries) >= indexCount
  /\ phase' = "finished"
  /\ file' = FALSE /\ UNCHANGED idxfile
  /\ data' = data \o buffer /\ Emptied
  /\ index' = ReadBack
  /\ entries' = <<>> /\ idxArray' = <<>>
  /\ header' = FinalHeader
  /\ UNCHANGED <<newFlag, offset, indexCount, videoCount, faults>>

Close ==
  /\ Closing /\ ~unusable /\ ~newFlag
  /\ Len(AllEntries) >= indexCount
  /\ phase' = "finished"
  /\ file' = FALSE /\ idxfile' = FALSE
  /\ data' = data \o buffer /\ Emptied
  /\ index' = ReadBack
  /\ entries' = <<>> /\ idxArray' = <<>>
  /\ header' = FinalHeader
  /\ UNCHANGED <<newFlag, offset, indexCount, videoCount, faults>>

(* Entries are missing, so the index cannot be read back.                  *)
CloseShort ==
  /\ Closing /\ ~unusable /\ ~newFlag
  /\ Len(AllEntries) < indexCount
  /\ phase' = "lost"
  /\ UNCHANGED <<handles, memory, disk, faults>>

(* A write fails, or removing the temporary file or the renaming.          *)
CloseFails ==
  /\ Closing /\ ~unusable /\ ~newFlag
  /\ Fault
  /\ phase' = "lost"
  /\ idxfile' \in BOOLEAN
  /\ UNCHANGED <<file, memory, disk>>

------------------------------------------------------------------------------
(* The card thread sees the card go and come back.                         *)

CardGone ==
  /\ ~unusable /\ Fault
  /\ unusable' = TRUE
  /\ UNCHANGED <<phase, handles, memory, disk, sent, files, leaked>>

CardBack ==
  /\ unusable
  /\ unusable' = FALSE
  /\ UNCHANGED <<phase, handles, memory, disk, sent, files, faults, leaked>>

Next ==
  \/ Open \/ OpenFails
  \/ \E f \in Frame : WriteFrame(f)
  \/ Close \/ CloseUnusable \/ CloseNew \/ CloseShort \/ CloseFails
  \/ CardGone \/ CardBack

Spec == Init /\ [][Next]_aviVars

------------------------------------------------------------------------------
(* Properties.                                                             *)

TypeOK ==
  /\ phase \in {"none", "new", "open", "finished", "lost"}
  /\ unusable \in BOOLEAN /\ newFlag \in BOOLEAN
  /\ file \in BOOLEAN /\ idxfile \in BOOLEAN
  /\ buffer \in Seq(Frame)
  /\ bufOffset \in 0 .. Capacity /\ bufIndex \in 0 .. SaveNum - 1
  /\ data \in Seq(Frame)
  /\ idxArray \in Seq(Entry) /\ entries \in Seq(Entry) /\ index \in Seq(Entry)
  /\ offset \in Nat /\ indexCount \in Nat /\ videoCount \in Nat
  /\ header \in [frames : Nat, end : Nat]
  /\ sent \in 0 .. MaxFrames /\ files \in 0 .. MaxFiles
  /\ faults \in 0 .. MaxFaults /\ leaked \in Nat

(* What the first n frames of a film take.                                 *)
RoomOfFirst(fs) ==
  LET room[n \in 0 .. Len(fs)] ==
        IF n = 0 THEN 0 ELSE room[n - 1] + Room(fs[n])
  IN  room

RoomOf(fs) == RoomOfFirst(fs)[Len(fs)]

Videos(fs) == {i \in DOMAIN fs : fs[i].kind # "A"}

(* Whatever failed before: a film starts with a key frame, for no player   *)
(* can show the frames before the first one.                               *)
StartsWithKeyFrame ==
  data \o buffer # <<>> => (data \o buffer)[1].kind = "I"

(* update_avi_header: as long as no write failed the header of a finished  *)
(* film tells its video frames and where its data end.                     *)
HeaderExact ==
  phase = "finished" /\ faults = 0 =>
    /\ header.frames = Cardinality(Videos(data))
    /\ header.end = HeaderSize + RoomOf(data)

(* avi_typedef.h:100 gives idx_array room for a fixed number of entries:   *)
(* less than SaveNum wait for the next write, and a fault leaves at most   *)
(* SaveNum more behind, which the array has room for a few times.          *)
ArrayCounted == Len(idxArray) < SaveNum * (1 + faults)

(* Every handle the recorder opens it closes again, but for the faults:    *)
(* each costs at most three.                                               *)
LeaksCounted ==
  leaked + (IF phase = "lost" THEN Handles ELSE 0) <= 3 * faults

(* The frames a player finds by the entries of the index.                  *)
FoundAt(place) ==
  {i \in DOMAIN data : HeaderSize + RoomOfFirst(data)[i - 1] = place}

ByIndex ==
  [k \in DOMAIN index |->
     {data[i] : i \in {j \in FoundAt(index[k].at) :
                          /\ data[j].size = index[k].size
                          /\ data[j].kind = index[k].kind}}]

Singles(fs) == [i \in DOMAIN fs |-> {fs[i]}]

Shown == IF phase = "finished" THEN ByIndex ELSE Singles(data \o buffer)

Made ==
  CASE phase \in {"new", "open"} -> "open"
    [] phase = "finished" -> "done"
    [] OTHER -> "none"

(* As long as no write failed the finished film, found through its index,  *)
(* is what was handed over: every frame once and in order, but those the   *)
(* full buffer lost.                                                       *)
F == INSTANCE Film WITH
  Frames <- {{f} : f \in Frame},
  KeyFrames <- {{f} : f \in {g \in Frame : g.kind = "I"}},
  film <- Shown, made <- Made

IsAFilm ==
  F!FilmInit /\ [][faults' = 0 => [F!FilmNext]_<<Shown, Made>>]_aviVars
==============================================================================

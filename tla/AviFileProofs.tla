---------------------------- MODULE AviFileProofs -----------------------------
(***************************************************************************)
(* Proofs about the AVI file, for every number of frames between writes,   *)
(* every size of the buffer and every bound: types, the key frame a film   *)
(* starts with, what waits in the array of index entries, and how many     *)
(* handles are dropped.                                                    *)
(***************************************************************************)
EXTENDS AviFile, DataInduction, TLAPS

(* The key frame that opens a film fits the empty buffer, and a film that  *)
(* is open has it.                                                         *)
KeyKept ==
  /\ phase = "new" => newFlag
  /\ newFlag => buffer = <<>> /\ bufOffset = 0
  /\ data = <<>> /\ buffer # <<>> => buffer[1].kind = "I"
  /\ data # <<>> => data[1].kind = "I"
  /\ phase = "open" /\ ~newFlag => data # <<>> \/ buffer # <<>>

(* Entries wait for the frames since the last write; what a fault left     *)
(* behind waits beside them, SaveNum at most.                              *)
Waiting ==
  /\ Len(idxArray) <= bufIndex + SaveNum * faults
  /\ unusable => Len(idxArray) <= SaveNum * faults

AviInv == TypeOK /\ KeyKept /\ Waiting

------------------------------------------------------------------------------
LEMMA InitAviInv == Init => AviInv
<1> SUFFICES ASSUME Init PROVE AviInv
  OBVIOUS
<1> USE AviFileAssumption
<1>1. TypeOK
  <2>1. <<>> \in Seq(Frame) /\ <<>> \in Seq(Entry)
    OBVIOUS
  <2>2. /\ phase = "none" /\ unusable = FALSE /\ newFlag = FALSE
        /\ file = FALSE /\ idxfile = FALSE
        /\ bufOffset = 0 /\ bufIndex = 0
        /\ offset = 0 /\ indexCount = 0 /\ videoCount = 0
        /\ sent = 0 /\ files = 0 /\ faults = 0 /\ leaked = 0
    BY DEF Init
  <2>3. buffer = <<>> /\ data = <<>> /\ idxArray = <<>> /\ entries = <<>>
          /\ index = <<>>
    BY DEF Init
  <2>4. header \in [frames : Nat, end : Nat]
    BY DEF Init
  <2>5. /\ phase \in {"none", "new", "open", "finished", "lost"}
        /\ unusable \in BOOLEAN /\ newFlag \in BOOLEAN
        /\ file \in BOOLEAN /\ idxfile \in BOOLEAN
    BY <2>2
  <2>6. /\ bufOffset \in 0 .. Capacity /\ bufIndex \in 0 .. SaveNum - 1
        /\ offset \in Nat /\ indexCount \in Nat /\ videoCount \in Nat
        /\ sent \in 0 .. MaxFrames /\ files \in 0 .. MaxFiles
        /\ faults \in 0 .. MaxFaults /\ leaked \in Nat
    BY <2>2
  <2>7. /\ buffer \in Seq(Frame) /\ data \in Seq(Frame)
        /\ idxArray \in Seq(Entry) /\ entries \in Seq(Entry)
        /\ index \in Seq(Entry)
    BY <2>1, <2>3
  <2> QED
    BY <2>4, <2>5, <2>6, <2>7 DEF TypeOK
<1>2. KeyKept
  BY DEF Init, KeyKept
<1>3. Waiting
  BY DEF Init, Waiting
<1> QED
  BY <1>1, <1>2, <1>3 DEF AviInv

LEMMA LenNat ==
  ASSUME NEW S, NEW s \in Seq(S)
  PROVE  Len(s) \in Nat
  OBVIOUS

LEMMA Product ==
  ASSUME NEW f \in Nat
  PROVE  /\ SaveNum * (f + 1) = SaveNum * f + SaveNum
         /\ SaveNum * f \in Nat
  BY AviFileAssumption

(* One fault more leaves room for what the last frames brought.            *)
LEMMA FaultMakesRoom ==
  ASSUME TypeOK, Waiting, Fault
  PROVE  /\ Len(idxArray) < SaveNum * faults'
         /\ faults' \in 0 .. MaxFaults
<1> USE AviFileAssumption
<1>1. faults \in Nat /\ faults' = faults + 1 /\ faults' \in 0 .. MaxFaults
  BY DEF TypeOK, Fault
<1>2. SaveNum * faults' = SaveNum * faults + SaveNum
  BY <1>1, Product
<1>3. bufIndex <= SaveNum - 1 /\ bufIndex \in Nat
  BY DEF TypeOK
<1>4. idxArray \in Seq(Entry)
  BY DEF TypeOK
<1>5. Len(idxArray) <= bufIndex + SaveNum * faults /\ Len(idxArray) \in Nat
  BY <1>4, LenNat DEF Waiting
<1> QED
  BY <1>1, <1>2, <1>3, <1>5, Product

LEMMA WithoutChange ==
  ASSUME AviInv, UNCHANGED <<phase, unusable, handles, memory, disk, sent,
                             files, faults, leaked>>
  PROVE  AviInv'
<1> USE DEF handles, memory, disk
<1>1. TypeOK'
  BY DEF AviInv, TypeOK
<1>2. KeyKept'
  BY DEF AviInv, KeyKept
<1>3. Waiting'
  BY DEF AviInv, Waiting
<1> QED
  BY <1>1, <1>2, <1>3 DEF AviInv

(* Memory and disk as they were, and a phase that is not the first frames. *)
LEMMA MemoryKept ==
  ASSUME AviInv, UNCHANGED <<memory, disk, sent>>,
         phase' = phase \/ phase' \in {"lost", "finished", "none"},
         unusable' = unusable \/ unusable' = FALSE,
         file' \in BOOLEAN, idxfile' \in BOOLEAN, leaked' \in Nat,
         files' \in 0 .. MaxFiles,
         faults' = faults \/ Fault
  PROVE  AviInv'
<1> USE AviFileAssumption DEF memory, disk
<1>1. TypeOK /\ KeyKept /\ Waiting
  BY DEF AviInv
<1>2. TypeOK'
  BY <1>1, FaultMakesRoom DEF TypeOK
<1>3. KeyKept'
  BY <1>1 DEF KeyKept
<1>4. Waiting'
  <2>1. CASE faults' = faults
    BY <1>1, <2>1 DEF Waiting
  <2>2. CASE Fault
    <3>1. Len(idxArray) < SaveNum * faults' /\ faults' \in Nat
      BY <1>1, <2>2, FaultMakesRoom
    <3>2. bufIndex \in Nat /\ idxArray \in Seq(Entry)
      BY <1>1 DEF TypeOK
    <3>3. SaveNum * faults' \in Nat
      BY <3>1, Product
    <3> QED
      BY <3>1, <3>2, <3>3, LenNat DEF Waiting
  <2> QED
    BY <2>1, <2>2
<1> QED
  BY <1>2, <1>3, <1>4 DEF AviInv
------------------------------------------------------------------------------
(* What an accepted frame makes of buffer, film and array.                 *)

LEMMA RoomFits ==
  ASSUME NEW f \in Frame
  PROVE  /\ Room(f) \in Nat /\ Room(f) <= Capacity
         /\ f.kind \in Kinds /\ f.size \in Nat
<1> USE AviFileAssumption
<1>1. f.size \in 1 .. MaxSize /\ f.kind \in Kinds
  BY DEF Frame
<1> QED
  BY <1>1 DEF Room

LEMMA AppendFacts ==
  ASSUME NEW S, NEW s \in Seq(S), NEW e \in S
  PROVE  /\ Append(s, e) \in Seq(S) /\ Append(s, e) # <<>>
         /\ Len(Append(s, e)) = Len(s) + 1
         /\ s = <<>> => Append(s, e)[1] = e
         /\ s # <<>> => Append(s, e)[1] = s[1]
  OBVIOUS

LEMMA ConcatFacts ==
  ASSUME NEW S, NEW s \in Seq(S), NEW t \in Seq(S)
  PROVE  /\ s \o t \in Seq(S)
         /\ s \o t = <<>> <=> s = <<>> /\ t = <<>>
         /\ s # <<>> => (s \o t)[1] = s[1]
         /\ s = <<>> => s \o t = t
  OBVIOUS

LEMMA AcceptedBuffer ==
  ASSUME AviInv, NEW f \in Frame, Accepted(f)
  PROVE  /\ Begun \in Seq(Frame) /\ Buffered(f) \in Seq(Frame)
         /\ Begun # <<>> => Begun[1].kind = "I"
         /\ Begun = <<>> /\ Buffered(f) # <<>> => Buffered(f)[1].kind = "I"
         /\ Begun # <<>> \/ Buffered(f) # <<>>
<1> USE AviFileAssumption
<1>1. /\ TypeOK /\ KeyKept
      /\ phase \in {"new", "open"}
      /\ newFlag => f.kind = "I"
  BY DEF AviInv, Accepted, Offered
<1>2. buffer \in Seq(Frame) /\ data \in Seq(Frame)
  BY <1>1 DEF TypeOK
<1>3. Begun \in Seq(Frame)
  BY <1>2 DEF Begun
<1>4. Buffered(f) = buffer \/ Buffered(f) = Append(buffer, f)
  BY DEF Buffered
<1>5. Buffered(f) \in Seq(Frame)
  BY <1>2, <1>4, AppendFacts
<1>6. CASE newFlag
  <2>1. buffer = <<>> /\ bufOffset = 0
    BY <1>1, <1>6 DEF KeyKept
  <2>2. Fits(f)
    BY <2>1, RoomFits DEF Fits
  <2>3. Buffered(f) = Append(buffer, f)
    BY <2>2 DEF Buffered
  <2>4. Buffered(f) # <<>> /\ Buffered(f)[1] = f
    BY <1>2, <2>1, <2>3, AppendFacts
  <2> QED
    BY <1>1, <1>3, <1>5, <1>6, <2>4 DEF Begun
<1>7. CASE ~newFlag
  <2>1. Begun = data
    BY <1>7 DEF Begun
  <2>2. data # <<>> \/ buffer # <<>>
    BY <1>1, <1>7 DEF KeyKept
  <2>3. buffer # <<>> => Buffered(f) # <<>> /\ Buffered(f)[1] = buffer[1]
    BY <1>2, <1>4, AppendFacts
  <2> QED
    BY <1>1, <1>3, <1>5, <2>1, <2>2, <2>3 DEF KeyKept
<1>8. newFlag \in BOOLEAN
  BY <1>1 DEF TypeOK
<1> QED
  BY <1>6, <1>7, <1>8

LEMMA AcceptedIndex ==
  ASSUME AviInv, NEW f \in Frame, Accepted(f), Count(f)
  PROVE  /\ Indexed(f) \in Seq(Entry)
         /\ Len(Indexed(f)) <= Len(idxArray) + 1
         /\ ToWrite(f) \in Seq(Entry)
         /\ offset' \in Nat /\ indexCount' \in Nat /\ videoCount' \in Nat
<1> USE AviFileAssumption
<1>1. TypeOK
  BY DEF AviInv
<1>2. idxArray \in Seq(Entry)
  BY <1>1 DEF TypeOK
<1>3. At \in Nat
  BY <1>1 DEF TypeOK, At, HeaderSize
<1>4. [kind |-> f.kind, at |-> At, size |-> f.size] \in Entry
  BY <1>3, RoomFits DEF Entry
<1>5. Indexed(f) \in Seq(Entry) /\ Len(Indexed(f)) <= Len(idxArray) + 1
  <2>1. CASE Fits(f)
    BY <1>2, <1>4, <2>1, AppendFacts DEF Indexed
  <2>2. CASE ~Fits(f)
    BY <1>2, <2>2 DEF Indexed
  <2> QED
    BY <2>1, <2>2
<1>6. ToWrite(f) \in Seq(Entry)
  <2>1. SaveNum \in Nat
    OBVIOUS
  <2>2. Len(Indexed(f)) > SaveNum => SubSeq(Indexed(f), 1, SaveNum) \in Seq(Entry)
    BY <1>5, <2>1
  <2> QED
    BY <1>5, <2>2 DEF ToWrite
<1>7. offset' \in Nat /\ indexCount' \in Nat /\ videoCount' \in Nat
  <2>1. indexCount \in Nat /\ videoCount \in Nat /\ Room(f) \in Nat
    BY <1>1, RoomFits DEF TypeOK
  <2>2. CASE Fits(f)
    <3>1. /\ offset' = At + Room(f) /\ indexCount' = indexCount + 1
          /\ videoCount' = videoCount \/ videoCount' = videoCount + 1
      BY <2>1, <2>2 DEF Count
    <3> QED
      BY <1>3, <2>1, <3>1
  <2>3. CASE ~Fits(f)
    BY <1>3, <2>1, <2>3 DEF Count
  <2> QED
    BY <2>2, <2>3
<1> QED
  BY <1>5, <1>6, <1>7

(* What every accepted frame leaves as it should be.                       *)
LEMMA AcceptedRest ==
  ASSUME AviInv, NEW f \in Frame, Accepted(f)
  PROVE  /\ phase' = "open" /\ unusable' = FALSE
         /\ file' = TRUE /\ idxfile' \in BOOLEAN
         /\ sent' \in 0 .. MaxFrames /\ files' \in 0 .. MaxFiles
         /\ leaked' \in Nat
<1> USE AviFileAssumption
<1>1. /\ phase' = "open" /\ sent' = sent + 1 /\ sent < MaxFrames
      /\ unusable' = unusable /\ files' = files /\ ~unusable
      /\ file' = TRUE /\ idxfile' = idxfile
      /\ leaked' = leaked + (IF newFlag /\ file THEN 1 ELSE 0)
  BY DEF Accepted, Offered
<1>2. TypeOK
  BY DEF AviInv
<1> QED
  BY <1>1, <1>2 DEF TypeOK
------------------------------------------------------------------------------
(* The steps.                                                              *)

LEMMA KeepKeeps ==
  ASSUME AviInv, NEW f \in Frame, Keep(f)
  PROVE  AviInv'
<1> USE AviFileAssumption
<1>1. /\ Accepted(f) /\ Count(f) /\ ~Flushes(f)
      /\ newFlag' = FALSE
      /\ buffer' = Buffered(f) /\ bufIndex' = bufIndex + 1
      /\ bufOffset' = bufOffset + Room(f)
      /\ idxArray' = Indexed(f) /\ data' = Begun
      /\ UNCHANGED <<entries, index, header, faults>>
  BY DEF Keep
<1>2. TypeOK /\ Waiting
  BY DEF AviInv
<1>3. bufOffset + Room(f) <= Capacity /\ bufIndex + 1 # SaveNum
  BY <1>1 DEF Flushes, Fits
<1>4. /\ bufOffset' \in 0 .. Capacity /\ bufIndex' \in 0 .. SaveNum - 1
      /\ bufIndex \in Nat
  BY <1>1, <1>2, <1>3, RoomFits DEF TypeOK
<1>5. TypeOK'
  BY <1>1, <1>2, <1>4, AcceptedBuffer, AcceptedIndex, AcceptedRest DEF TypeOK
<1>6. KeyKept'
  BY <1>1, AcceptedBuffer, AcceptedRest DEF KeyKept
<1>7. Waiting'
  <2>1. Len(idxArray') <= Len(idxArray) + 1
    BY <1>1, AcceptedIndex
  <2>2. /\ idxArray \in Seq(Entry) /\ idxArray' \in Seq(Entry)
        /\ faults \in Nat
    BY <1>2, <1>5 DEF TypeOK
  <2>3. SaveNum * faults \in Nat
    BY <2>2, Product
  <2>4. Len(idxArray) \in Nat /\ Len(idxArray') \in Nat
    BY <2>2, LenNat
  <2>5. Len(idxArray') <= bufIndex' + SaveNum * faults'
    BY <1>1, <1>2, <1>4, <2>1, <2>3, <2>4 DEF Waiting
  <2> QED
    BY <1>1, <2>5, AcceptedRest DEF Waiting
<1> QED
  BY <1>5, <1>6, <1>7 DEF AviInv

LEMMA FlushKeeps ==
  ASSUME AviInv, NEW f \in Frame, Flush(f)
  PROVE  AviInv'
<1> USE AviFileAssumption
<1>1. /\ Accepted(f) /\ Count(f) /\ newFlag' = FALSE
      /\ entries' = entries \o ToWrite(f) /\ idxArray' = <<>>
      /\ data' = Begun \o Buffered(f)
      /\ buffer' = <<>> /\ bufOffset' = 0 /\ bufIndex' = 0
      /\ UNCHANGED <<index, header, faults>>
  BY DEF Flush, Emptied
<1>2. TypeOK
  BY DEF AviInv
<1>3. /\ data' \in Seq(Frame) /\ data' # <<>> /\ data'[1].kind = "I"
  BY <1>1, AcceptedBuffer, ConcatFacts
<1>4. entries' \in Seq(Entry) /\ idxArray' \in Seq(Entry)
        /\ buffer' \in Seq(Frame)
  <2>1. entries \in Seq(Entry) /\ ToWrite(f) \in Seq(Entry)
    BY <1>1, <1>2, AcceptedIndex DEF TypeOK
  <2> QED
    BY <1>1, <2>1, ConcatFacts
<1>5. bufOffset' \in 0 .. Capacity /\ bufIndex' \in 0 .. SaveNum - 1
  BY <1>1
<1>6. TypeOK'
  BY <1>1, <1>2, <1>3, <1>4, <1>5, AcceptedIndex, AcceptedRest DEF TypeOK
<1>7. KeyKept'
  BY <1>1, <1>3, AcceptedRest DEF KeyKept
<1>8. Waiting'
  <2>1. faults' \in Nat /\ Len(idxArray') = 0
    BY <1>1, <1>2 DEF TypeOK
  <2>2. SaveNum * faults' \in Nat
    BY <2>1, Product
  <2> QED
    BY <1>1, <2>1, <2>2 DEF Waiting
<1> QED
  BY <1>6, <1>7, <1>8 DEF AviInv

LEMMA FlushFailsKeeps ==
  ASSUME AviInv, NEW f \in Frame, FlushFails(f)
  PROVE  AviInv'
<1> USE AviFileAssumption
<1>1. /\ Accepted(f) /\ Count(f) /\ Fault /\ newFlag' = TRUE
      /\ buffer' = <<>> /\ bufOffset' = 0 /\ bufIndex' = 0
      /\ data' = Begun
      /\ \/ idxArray' = Indexed(f) /\ entries' = entries
         \/ entries' = entries \o ToWrite(f) /\ idxArray' = <<>>
      /\ UNCHANGED <<index, header>>
  BY DEF FlushFails, Reset, Emptied
<1>2. TypeOK /\ Waiting
  BY DEF AviInv
<1>3. Len(idxArray) < SaveNum * faults' /\ faults' \in 0 .. MaxFaults
  BY <1>1, <1>2, FaultMakesRoom
<1>4. entries' \in Seq(Entry) /\ idxArray' \in Seq(Entry)
        /\ buffer' \in Seq(Frame)
  <2>1. /\ entries \in Seq(Entry) /\ ToWrite(f) \in Seq(Entry)
        /\ Indexed(f) \in Seq(Entry)
    BY <1>1, <1>2, AcceptedIndex DEF TypeOK
  <2>2. <<>> \in Seq(Frame) /\ <<>> \in Seq(Entry)
    OBVIOUS
  <2>3. entries \o ToWrite(f) \in Seq(Entry)
    BY <2>1, ConcatFacts
  <2>4. buffer' \in Seq(Frame)
    BY <1>1, <2>2
  <2>5. entries' \in Seq(Entry) /\ idxArray' \in Seq(Entry)
    BY <1>1, <2>1, <2>2, <2>3
  <2> QED
    BY <2>4, <2>5
<1>5. bufOffset' \in 0 .. Capacity /\ bufIndex' \in 0 .. SaveNum - 1
  BY <1>1
<1>6. TypeOK'
  BY <1>1, <1>2, <1>3, <1>4, <1>5, AcceptedBuffer, AcceptedIndex, AcceptedRest
     DEF TypeOK
<1>7. KeyKept'
  BY <1>1, AcceptedBuffer, AcceptedRest DEF KeyKept
<1>8. Waiting'
  <2>1. Len(idxArray') <= Len(idxArray) + 1 \/ Len(idxArray') = 0
    BY <1>1, AcceptedIndex
  <2>2. /\ idxArray \in Seq(Entry) /\ idxArray' \in Seq(Entry)
        /\ faults' \in Nat
    BY <1>2, <1>3, <1>6 DEF TypeOK
  <2>3. SaveNum * faults' \in Nat
    BY <2>2, Product
  <2>4. Len(idxArray) \in Nat /\ Len(idxArray') \in Nat
    BY <2>2, LenNat
  <2>5. Len(idxArray') <= SaveNum * faults'
    BY <1>3, <2>1, <2>3, <2>4
  <2> QED
    BY <1>1, <2>3, <2>4, <2>5 DEF Waiting
<1> QED
  BY <1>6, <1>7, <1>8 DEF AviInv

(* A write that fails before anything is counted.                          *)
LEMMA ResetKeeps ==
  ASSUME AviInv, Reset, UNCHANGED <<idxArray, offset, indexCount, videoCount,
                                    disk, unusable, files>>,
         (unusable /\ faults' = faults) \/ Fault,
         phase' = "open", sent' \in 0 .. MaxFrames,
         file' \in BOOLEAN, idxfile' \in BOOLEAN, leaked' \in Nat
  PROVE  AviInv'
<1> USE AviFileAssumption
<1>1. /\ newFlag' = TRUE
      /\ buffer' = <<>> /\ bufOffset' = 0 /\ bufIndex' = 0
  BY DEF Reset, Emptied
<1>2. TypeOK /\ KeyKept /\ Waiting
  BY DEF AviInv
<1>3. idxArray \in Seq(Entry) /\ Len(idxArray) \in Nat
  BY <1>2, LenNat DEF TypeOK
<1>4. faults' \in 0 .. MaxFaults /\ Len(idxArray) <= SaveNum * faults'
  <2>1. CASE unusable /\ faults' = faults
    BY <1>2, <2>1 DEF TypeOK, Waiting
  <2>2. CASE Fault
    <3>1. Len(idxArray) < SaveNum * faults' /\ faults' \in 0 .. MaxFaults
      BY <1>2, <2>2, FaultMakesRoom
    <3>2. faults' \in Nat
      BY <3>1
    <3>3. SaveNum * faults' \in Nat
      BY <3>2, Product
    <3> QED
      BY <1>3, <3>1, <3>3
  <2> QED
    BY <2>1, <2>2
<1>5. bufOffset' \in 0 .. Capacity /\ bufIndex' \in 0 .. SaveNum - 1
  BY <1>1
<1>6. buffer' \in Seq(Frame)
  <2>1. <<>> \in Seq(Frame)
    OBVIOUS
  <2> QED
    BY <1>1, <2>1
<1>7. TypeOK'
  BY <1>1, <1>2, <1>4, <1>5, <1>6 DEF TypeOK, disk
<1>8. KeyKept'
  BY <1>1, <1>2 DEF KeyKept, disk
<1>9. Waiting'
  <2>1. faults' \in Nat
    BY <1>4
  <2>2. SaveNum * faults' \in Nat
    BY <2>1, Product
  <2>3. bufIndex' = 0 /\ idxArray' = idxArray
    BY <1>1
  <2> QED
    BY <1>3, <1>4, <2>2, <2>3 DEF Waiting
<1> QED
  BY <1>7, <1>8, <1>9 DEF AviInv

LEMMA OpenKeeps == AviInv /\ Open => AviInv'
<1> SUFFICES ASSUME AviInv, Open PROVE AviInv'
  OBVIOUS
<1> USE AviFileAssumption
<1>1. /\ phase' = "new" /\ files' = files + 1 /\ files < MaxFiles
      /\ file' = FALSE /\ idxfile' = TRUE /\ newFlag' = TRUE
      /\ buffer' = <<>> /\ bufOffset' = 0 /\ bufIndex' = 0
      /\ idxArray' = <<>> /\ entries' = <<>> /\ data' = <<>> /\ index' = <<>>
      /\ offset' = 0 /\ indexCount' = 0 /\ videoCount' = 0
      /\ UNCHANGED <<unusable, header, sent, faults>>
  BY DEF Open, MayOpen, Emptied
<1>2. TypeOK
  BY DEF AviInv
<1>3. <<>> \in Seq(Frame) /\ <<>> \in Seq(Entry)
  OBVIOUS
<1>4. leaked' \in Nat
  BY <1>2 DEF Open, Forget, Handles, TypeOK
<1>5. /\ buffer' \in Seq(Frame) /\ data' \in Seq(Frame)
      /\ idxArray' \in Seq(Entry) /\ entries' \in Seq(Entry)
      /\ index' \in Seq(Entry)
  BY <1>1, <1>3
<1>6. /\ files' \in 0 .. MaxFiles /\ bufOffset' \in 0 .. Capacity
      /\ bufIndex' \in 0 .. SaveNum - 1
  BY <1>1, <1>2 DEF TypeOK
<1>7. TypeOK'
  BY <1>1, <1>2, <1>4, <1>5, <1>6 DEF TypeOK
<1>8. KeyKept'
  BY <1>1 DEF KeyKept
<1>9. Waiting'
  <2>1. faults' \in Nat /\ Len(idxArray') = 0 /\ bufIndex' = 0
    BY <1>1, <1>2 DEF TypeOK
  <2> DEFINE left == SaveNum * faults'
  <2>2. left \in Nat
    BY <2>1, Product
  <2> HIDE DEF left
  <2>3. Len(idxArray') <= bufIndex' + left /\ Len(idxArray') <= left
    BY <2>1, <2>2
  <2> QED
    BY <2>3 DEF Waiting, left
<1> QED
  BY <1>7, <1>8, <1>9 DEF AviInv

LEMMA OpenFailsKeeps == AviInv /\ OpenFails => AviInv'
<1> SUFFICES ASSUME AviInv, OpenFails PROVE AviInv'
  OBVIOUS
<1>1. TypeOK
  BY DEF AviInv
<1>2. /\ phase' = "lost" /\ UNCHANGED <<unusable, memory, disk, sent>>
      /\ file' \in BOOLEAN /\ idxfile' \in BOOLEAN
      /\ faults' = faults \/ Fault
      /\ files < MaxFiles /\ files' = files + 1
      /\ leaked' = leaked + Handles
  BY DEF OpenFails, MayOpen, Forget
<1>3. leaked' \in Nat
  BY <1>1, <1>2 DEF Handles, TypeOK
<1>4. files' \in 0 .. MaxFiles
  BY <1>1, <1>2, AviFileAssumption DEF TypeOK
<1> QED
  BY <1>2, <1>3, <1>4, MemoryKept

LEMMA WriteFrameKeeps ==
  ASSUME AviInv, NEW f \in Frame, WriteFrame(f)
  PROVE  AviInv'
<1>1. TypeOK
  BY DEF AviInv
<1>2. CASE WriteUnusable(f)
  <2>1. /\ phase' = "open" /\ sent' = sent + 1 /\ sent < MaxFrames
        /\ unusable /\ UNCHANGED <<unusable, files>> /\ Reset
        /\ UNCHANGED <<file, idxfile, idxArray, offset, indexCount,
                       videoCount, disk, faults, leaked>>
    BY <1>2 DEF WriteUnusable, Offered, handles
  <2>2. /\ sent' \in 0 .. MaxFrames /\ file' \in BOOLEAN
        /\ idxfile' \in BOOLEAN /\ leaked' \in Nat
    BY <1>1, <2>1, AviFileAssumption DEF TypeOK
  <2> QED
    BY <2>1, <2>2, ResetKeeps
<1>3. CASE NotKey(f)
  <2>1. /\ phase' = "open" /\ sent' = sent + 1 /\ sent < MaxFrames
        /\ newFlag /\ UNCHANGED <<unusable, files, memory, disk, faults,
                                  leaked, file, idxfile>>
    BY <1>3 DEF NotKey, Offered, handles
  <2>2. sent' \in 0 .. MaxFrames
    BY <1>1, <2>1, AviFileAssumption DEF TypeOK
  <2>3. TypeOK'
    BY <1>1, <2>1, <2>2 DEF TypeOK, memory, disk
  <2>4. KeyKept'
    BY <2>1 DEF AviInv, KeyKept, memory, disk
  <2>5. Waiting'
    BY <2>1 DEF AviInv, Waiting, memory
  <2> QED
    BY <2>3, <2>4, <2>5 DEF AviInv
<1>4. CASE ReopenFails(f)
  <2>1. /\ phase' = "open" /\ sent' = sent + 1 /\ sent < MaxFrames
        /\ Fault /\ Reset /\ file' = FALSE
        /\ leaked' = leaked + (IF file THEN 1 ELSE 0)
        /\ UNCHANGED <<unusable, files, idxfile, idxArray, offset, indexCount,
                       videoCount, disk>>
    BY <1>4 DEF ReopenFails, Offered
  <2>2. sent \in Nat /\ MaxFrames \in Nat /\ idxfile \in BOOLEAN
    BY <1>1, AviFileAssumption DEF TypeOK
  <2>3. sent' \in 0 .. MaxFrames
    BY <2>1, <2>2
  <2>4. file' \in BOOLEAN /\ idxfile' \in BOOLEAN
    BY <2>1, <2>2
  <2>5. leaked' \in Nat
    BY <1>1, <2>1 DEF TypeOK
  <2> QED
    BY <2>1, <2>3, <2>4, <2>5, ResetKeeps
<1> QED
  BY <1>2, <1>3, <1>4, KeepKeeps, FlushKeeps, FlushFailsKeeps DEF WriteFrame

LEMMA CloseKeeps == AviInv /\ Close => AviInv'
<1> SUFFICES ASSUME AviInv, Close PROVE AviInv'
  OBVIOUS
<1> USE AviFileAssumption
<1>1. /\ phase' = "finished" /\ ~unusable /\ file' = FALSE /\ idxfile' = FALSE
      /\ data' = data \o buffer /\ ~newFlag /\ phase = "open"
      /\ buffer' = <<>> /\ bufOffset' = 0 /\ bufIndex' = 0
      /\ index' = ReadBack /\ entries' = <<>> /\ idxArray' = <<>>
      /\ Len(AllEntries) >= indexCount
      /\ header' = [frames |-> videoCount, end |-> offset]
      /\ UNCHANGED <<newFlag, offset, indexCount, videoCount, faults, unusable,
                     sent, files, leaked>>
  BY DEF Close, Closing, Emptied, FinalHeader
<1>2. TypeOK /\ KeyKept
  BY DEF AviInv
<1>3. buffer \in Seq(Frame) /\ data \in Seq(Frame)
        /\ entries \in Seq(Entry) /\ idxArray \in Seq(Entry)
        /\ indexCount \in Nat
  BY <1>2 DEF TypeOK
<1>4. /\ data' \in Seq(Frame)
      /\ data' # <<>> => data'[1].kind = "I"
  BY <1>1, <1>2, <1>3, ConcatFacts DEF KeyKept
<1>5. index' \in Seq(Entry)
  <2>1. AllEntries \in Seq(Entry)
    BY <1>3, ConcatFacts DEF AllEntries
  <2>2. SubSeq(AllEntries, 1, indexCount) \in Seq(Entry)
    BY <1>1, <1>3, <2>1
  <2> QED
    BY <1>1, <2>2 DEF ReadBack
<1>6. /\ <<>> \in Seq(Frame) /\ <<>> \in Seq(Entry)
  OBVIOUS
<1>7. /\ buffer' \in Seq(Frame) /\ entries' \in Seq(Entry)
      /\ idxArray' \in Seq(Entry)
  BY <1>1, <1>6
<1>8. header' \in [frames : Nat, end : Nat]
  BY <1>1, <1>2 DEF TypeOK
<1>9. bufOffset' \in 0 .. Capacity /\ bufIndex' \in 0 .. SaveNum - 1
  BY <1>1
<1>10. TypeOK'
  BY <1>1, <1>2, <1>4, <1>5, <1>7, <1>8, <1>9 DEF TypeOK
<1>11. KeyKept'
  BY <1>1, <1>4 DEF KeyKept
<1>12. Waiting'
  <2>1. faults' \in Nat /\ Len(idxArray') = 0 /\ bufIndex' = 0
    BY <1>1, <1>2 DEF TypeOK
  <2> DEFINE left == SaveNum * faults'
  <2>2. left \in Nat
    BY <2>1, Product
  <2> HIDE DEF left
  <2>3. Len(idxArray') <= bufIndex' + left /\ Len(idxArray') <= left
    BY <2>1, <2>2
  <2> QED
    BY <2>3 DEF Waiting, left
<1> QED
  BY <1>10, <1>11, <1>12 DEF AviInv

(* A film that is given up, and the card.                                  *)
LEMMA CardKeeps ==
  ASSUME AviInv,
         CloseUnusable \/ CloseShort \/ CloseFails \/ CardBack
  PROVE  AviInv'
<1>1. TypeOK
  BY DEF AviInv
<1>2. /\ UNCHANGED <<memory, disk, sent, files, leaked>>
      /\ phase' = phase \/ phase' = "lost"
      /\ unusable' = unusable \/ unusable' = FALSE
      /\ faults' = faults \/ Fault
      /\ file' = file \/ file' = FALSE
      /\ idxfile' = idxfile \/ idxfile' \in BOOLEAN
  BY DEF CloseUnusable, CloseShort, CloseFails, CardBack, Closing, handles
<1>3. /\ file' \in BOOLEAN /\ idxfile' \in BOOLEAN /\ leaked' \in Nat
      /\ files' \in 0 .. MaxFiles
  BY <1>1, <1>2 DEF TypeOK
<1> QED
  BY <1>2, <1>3, MemoryKept

(* A film no frame opened is given up with an empty array.                 *)
LEMMA CloseNewKeeps == AviInv /\ CloseNew => AviInv'
<1> SUFFICES ASSUME AviInv, CloseNew PROVE AviInv'
  OBVIOUS
<1>1. TypeOK /\ KeyKept /\ Waiting
  BY DEF AviInv
<1>2. /\ phase' = "lost" /\ file' = FALSE /\ idxArray' = <<>>
      /\ UNCHANGED <<idxfile, newFlag, buffer, bufOffset, bufIndex, offset,
                     indexCount, videoCount, disk, faults, unusable, sent,
                     files, leaked>>
  BY DEF CloseNew, Closing
<1>3. /\ <<>> \in Seq(Entry) /\ Len(idxArray') = 0
  BY <1>2
<1>4. TypeOK'
  BY <1>1, <1>2, <1>3 DEF TypeOK, disk
<1>5. KeyKept'
  BY <1>1, <1>2 DEF KeyKept, disk
<1>6. Waiting'
  <2>1. faults' \in Nat /\ bufIndex' \in Nat /\ Len(idxArray') = 0
    BY <1>1, <1>2, <1>3, AviFileAssumption DEF TypeOK
  <2> DEFINE left == SaveNum * faults'
  <2>2. left \in Nat
    BY <2>1, Product
  <2> HIDE DEF left
  <2> DEFINE n == bufIndex'
  <2>3. n \in Nat
    BY <2>1
  <2> HIDE DEF n
  <2>4. 0 <= n + left /\ 0 <= left
    BY <2>2, <2>3
  <2> QED
    BY <2>1, <2>4 DEF Waiting, left, n
<1> QED
  BY <1>4, <1>5, <1>6 DEF AviInv

LEMMA CardGoneKeeps == AviInv /\ CardGone => AviInv'
<1> SUFFICES ASSUME AviInv, CardGone PROVE AviInv'
  OBVIOUS
<1>1. /\ Fault /\ unusable' = TRUE
      /\ UNCHANGED <<phase, file, idxfile, memory, disk, sent, files, leaked>>
  BY DEF CardGone, handles
<1>2. TypeOK /\ KeyKept /\ Waiting
  BY DEF AviInv
<1>3. Len(idxArray) < SaveNum * faults' /\ faults' \in 0 .. MaxFaults
  BY <1>1, <1>2, FaultMakesRoom
<1>4. TypeOK'
  BY <1>1, <1>2, <1>3 DEF TypeOK, memory, disk
<1>5. KeyKept'
  BY <1>1, <1>2 DEF KeyKept, memory, disk
<1>6. Waiting'
  <2>1. /\ idxArray \in Seq(Entry) /\ bufIndex \in Nat
        /\ idxArray' = idxArray /\ bufIndex' = bufIndex
    BY <1>1, <1>2, AviFileAssumption DEF TypeOK, memory
  <2>2. faults' \in Nat
    BY <1>3, AviFileAssumption
  <2>3. SaveNum * faults' \in Nat /\ Len(idxArray) \in Nat
    BY <2>1, <2>2, Product, LenNat
  <2> QED
    BY <1>3, <2>1, <2>3 DEF Waiting
<1> QED
  BY <1>4, <1>5, <1>6 DEF AviInv
------------------------------------------------------------------------------
LEMMA NextAviInv == AviInv /\ [Next]_aviVars => AviInv'
<1> SUFFICES ASSUME AviInv, [Next]_aviVars PROVE AviInv'
  OBVIOUS
<1>1. CASE Open \/ OpenFails
  BY <1>1, OpenKeeps, OpenFailsKeeps
<1>2. CASE \E f \in Frame : WriteFrame(f)
  BY <1>2, WriteFrameKeeps
<1>3. CASE Close
  BY <1>3, CloseKeeps
<1>4. CASE CloseUnusable \/ CloseShort \/ CloseFails \/ CardBack
  BY <1>4, CardKeeps
<1>5. CASE CardGone
  BY <1>5, CardGoneKeeps
<1>6. CASE UNCHANGED aviVars
  BY <1>6, WithoutChange DEF aviVars
<1>7. CASE CloseNew
  BY <1>7, CloseNewKeeps
<1> QED
  BY <1>1, <1>2, <1>3, <1>4, <1>5, <1>6, <1>7 DEF Next

(* Every state of the recorder's file satisfies the inductive invariant.   *)
THEOREM AviInvariant == Spec => []AviInv
<1>1. Init => AviInv
  BY InitAviInv
<1>2. AviInv /\ [Next]_aviVars => AviInv'
  BY NextAviInv
<1> QED
  BY <1>1, <1>2, PTL DEF Spec

(* The types of buffer, film, array and counters.                          *)
THEOREM AviTypes == Spec => []TypeOK
<1>1. AviInv => TypeOK
  BY DEF AviInv
<1> QED
  BY <1>1, AviInvariant, PTL

(* new_flag: whatever writes failed before, a film starts with a key frame. *)
THEOREM AviStartsWithKeyFrame == Spec => []StartsWithKeyFrame
<1>1. AviInv => StartsWithKeyFrame
  <2> SUFFICES ASSUME AviInv, data \o buffer # <<>>
               PROVE  (data \o buffer)[1].kind = "I"
    BY DEF StartsWithKeyFrame
  <2>1. data \in Seq(Frame) /\ buffer \in Seq(Frame)
    BY DEF AviInv, TypeOK
  <2>2. CASE data = <<>>
    <3>1. data \o buffer = buffer
      BY <2>1, <2>2, ConcatFacts
    <3> QED
      BY <2>2, <3>1 DEF AviInv, KeyKept
  <2>3. CASE data # <<>>
    <3>1. (data \o buffer)[1] = data[1]
      BY <2>1, <2>3, ConcatFacts
    <3> QED
      BY <2>3, <3>1 DEF AviInv, KeyKept
  <2> QED
    BY <2>2, <2>3
<1> QED
  BY <1>1, AviInvariant, PTL

(* idx_array: less than SaveNum entries wait, SaveNum more for a fault.    *)
THEOREM AviArrayCounted == Spec => []ArrayCounted
<1>1. AviInv => ArrayCounted
  <2> SUFFICES ASSUME AviInv PROVE ArrayCounted
    OBVIOUS
  <2>1. /\ idxArray \in Seq(Entry) /\ faults \in Nat
        /\ bufIndex \in 0 .. SaveNum - 1
    BY DEF AviInv, TypeOK
  <2>2. SaveNum * (faults + 1) = SaveNum * faults + SaveNum
          /\ SaveNum * faults \in Nat
    BY <2>1, Product
  <2>3. Len(idxArray) <= bufIndex + SaveNum * faults
    BY DEF AviInv, Waiting
  <2>4. Len(idxArray) \in Nat /\ SaveNum \in Nat
    BY <2>1, LenNat, AviFileAssumption
  <2>5. Len(idxArray) < SaveNum * faults + SaveNum
    BY <2>1, <2>2, <2>3, <2>4
  <2>6. 1 + faults = faults + 1
    BY <2>1
  <2> QED
    BY <2>2, <2>5, <2>6 DEF ArrayCounted
<1> QED
  BY <1>1, AviInvariant, PTL
------------------------------------------------------------------------------
(* How many handles are dropped.  A fault pays for three.  Owed is what an *)
(* open film may still drop without another fault: the handle a key frame  *)
(* opens the film over (or, closed before, its temporary file), and both   *)
(* if a close finds too few entries; without a card it is either of them.  *)

Lost == IF phase = "lost" THEN Handles ELSE 0

(* Entries are missing, or will be when the array is cut at SaveNum.       *)
Spoiled ==
  \/ Len(entries) + Len(idxArray) < indexCount
  \/ Len(idxArray) > bufIndex

Owed ==
  IF phase \notin {"new", "open"} THEN 0
  ELSE IF unusable THEN 3
  ELSE (IF phase = "open" /\ newFlag THEN 1 ELSE 0)
         + (IF Spoiled THEN 2 ELSE 0)

Dropped == leaked + Lost + Owed

HandlesOfPhase ==
  /\ phase \in {"none", "finished"} => Handles = 0
  /\ phase = "new" => newFlag /\ ~file

LeakInv == Dropped <= 3 * faults /\ HandlesOfPhase

(* What a step may drop: nothing more, or three more for a fault.          *)
Pays ==
  \/ faults' = faults /\ Dropped' <= Dropped
  \/ faults' = faults + 1 /\ Dropped' <= Dropped + 3

LEMMA Ranges ==
  ASSUME TypeOK
  PROVE  /\ leaked \in Nat /\ Handles \in 0 .. 2 /\ Lost \in 0 .. 2
         /\ Owed \in 0 .. 3 /\ faults \in Nat
  BY AviFileAssumption DEF TypeOK, Handles, Lost, Owed

LEMMA RangesNext ==
  ASSUME TypeOK'
  PROVE  /\ leaked' \in Nat /\ Handles' \in 0 .. 2 /\ Lost' \in 0 .. 2
         /\ Owed' \in 0 .. 3
<1>0. leaked' \in Nat
  BY DEF TypeOK
<1>1. Handles' \in 0 .. 2
  BY DEF Handles
<1>2. Lost' \in 0 .. 2
  BY <1>1 DEF Lost
<1>3. Owed' \in 0 .. 3
  BY DEF Owed
<1> QED
  BY <1>0, <1>1, <1>2, <1>3

LEMMA Tripled ==
  ASSUME NEW n \in Nat, NEW d \in Nat, NEW e \in Nat, d <= 3 * n
  PROVE  (e <= d => e <= 3 * n) /\ (e <= d + 3 => e <= 3 * (n + 1))
  OBVIOUS

LEMMA FaultCovers ==
  ASSUME NEW x \in Nat, NEW z \in 0 .. 3, NEW d \in Nat, x <= d
  PROVE  x + z <= d + 3
  OBVIOUS

LEMMA PartIsLess ==
  ASSUME NEW x \in Nat, NEW y \in Nat, NEW d \in Nat, x + y <= d
  PROVE  x <= d
  OBVIOUS

LEMMA LessAdded ==
  ASSUME NEW x \in Nat, NEW y \in Nat, NEW z \in Nat, NEW d \in Nat,
         x + y <= d, z <= y
  PROVE  x + z <= d
  OBVIOUS

LEMMA PaysOff ==
  ASSUME AviInv, AviInv', LeakInv, Pays, HandlesOfPhase'
  PROVE  LeakInv'
<1>1. faults \in Nat /\ Dropped \in Nat
  BY Ranges DEF AviInv, Dropped
<1>2. Dropped' \in Nat
  BY RangesNext DEF AviInv, Dropped
<1>3. /\ Dropped' <= Dropped => Dropped' <= 3 * faults
      /\ Dropped' <= Dropped + 3 => Dropped' <= 3 * (faults + 1)
  BY <1>1, <1>2, Tripled DEF LeakInv
<1> QED
  BY <1>3 DEF LeakInv, Pays

LEMMA OpenLeaks ==
  ASSUME AviInv, AviInv', LeakInv, Open \/ OpenFails
  PROVE  LeakInv'
<1>1. leaked \in Nat /\ Handles \in 0 .. 2
  BY Ranges DEF AviInv
<1>2. Handles' \in 0 .. 2
  BY RangesNext DEF AviInv
<1>3. phase \notin {"new", "open"} /\ leaked' = leaked + Handles
  BY DEF Open, OpenFails, MayOpen, Forget
<1>4. Dropped = leaked + Handles
  <2>1. phase \in {"none", "finished", "lost"}
    BY <1>3 DEF AviInv, TypeOK
  <2>2. Lost = Handles
    BY <2>1 DEF Lost, LeakInv, HandlesOfPhase
  <2>3. Owed = 0
    BY <1>3 DEF Owed
  <2> QED
    BY <1>1, <2>2, <2>3 DEF Dropped
<1>5. CASE Open
  <2>1. /\ phase' = "new" /\ newFlag' /\ ~file' /\ ~unusable' /\ faults' = faults
        /\ entries' = <<>> /\ idxArray' = <<>> /\ indexCount' = 0 /\ bufIndex' = 0
    BY <1>5 DEF Open, Emptied
  <2>2. ~Spoiled'
    BY <2>1 DEF Spoiled
  <2>3. Owed' = 0 /\ Lost' = 0
    BY <2>1, <2>2 DEF Owed, Lost
  <2>4. Pays
    BY <1>1, <1>3, <1>4, <2>1, <2>3 DEF Pays, Dropped
  <2>5. HandlesOfPhase'
    BY <2>1 DEF HandlesOfPhase
  <2> QED
    BY <2>4, <2>5, PaysOff
<1>6. CASE OpenFails
  <2>1. phase' = "lost"
    BY <1>6 DEF OpenFails
  <2>2. (Handles' = 0 /\ faults' = faults) \/ faults' = faults + 1
    BY <1>6 DEF OpenFails, Fault, Handles
  <2>3. Owed' = 0 /\ Lost' = Handles'
    BY <2>1 DEF Owed, Lost
  <2>4. Pays
    BY <1>1, <1>2, <1>3, <1>4, <2>2, <2>3 DEF Pays, Dropped
  <2>5. HandlesOfPhase'
    BY <2>1 DEF HandlesOfPhase
  <2> QED
    BY <2>4, <2>5, PaysOff
<1> QED
  BY <1>5, <1>6

(* A frame that is accepted spoils nothing, unless its write fails.        *)
LEMMA NothingSpoiled ==
  ASSUME AviInv, NEW f \in Frame, Keep(f) \/ Flush(f), ~Spoiled
  PROVE  ~Spoiled'
<1> USE AviFileAssumption
<1>1. /\ idxArray \in Seq(Entry) /\ entries \in Seq(Entry)
      /\ bufIndex \in 0 .. SaveNum - 1 /\ indexCount \in Nat
  BY DEF AviInv, TypeOK
<1>2. Accepted(f) /\ Count(f)
  BY DEF Keep, Flush
<1>3. Indexed(f) \in Seq(Entry) /\ ToWrite(f) \in Seq(Entry)
  BY <1>2, AcceptedIndex
<1>4. \/ Fits(f) /\ Len(Indexed(f)) = Len(idxArray) + 1
            /\ indexCount' = indexCount + 1
      \/ ~Fits(f) /\ Indexed(f) = idxArray /\ indexCount' = indexCount
  <2>1. CASE Fits(f)
    <3>1. [kind |-> f.kind, at |-> At, size |-> f.size] \in Entry
      BY RoomFits DEF AviInv, TypeOK, Entry, At, HeaderSize
    <3>2. Len(Indexed(f)) = Len(idxArray) + 1
      BY <1>1, <2>1, <3>1, AppendFacts DEF Indexed
    <3> QED
      BY <1>2, <2>1, <3>2 DEF Count
  <2>2. CASE ~Fits(f)
    BY <1>2, <2>2 DEF Count, Indexed
  <2> QED
    BY <2>1, <2>2
<1>5. Len(idxArray) \in Nat /\ Len(entries) \in Nat
  BY <1>1, LenNat
<1>6. /\ Len(entries) + Len(idxArray) >= indexCount
      /\ Len(idxArray) <= bufIndex
  BY <1>1, <1>5 DEF Spoiled
<1>7. CASE Keep(f)
  <2>1. /\ Fits(f) /\ idxArray' = Indexed(f) /\ entries' = entries
        /\ bufIndex' = bufIndex + 1
    BY <1>7 DEF Keep, Flushes
  <2> QED
    BY <1>1, <1>4, <1>5, <1>6, <2>1 DEF Spoiled
<1>8. CASE Flush(f)
  <2>1. /\ entries' = entries \o ToWrite(f) /\ idxArray' = <<>> /\ bufIndex' = 0
    BY <1>8 DEF Flush, Emptied
  <2>2. Len(Indexed(f)) <= SaveNum
    BY <1>1, <1>4, <1>5, <1>6
  <2>3. ToWrite(f) = Indexed(f)
    BY <1>3, <2>2, LenNat DEF ToWrite
  <2>4. Len(entries') = Len(entries) + Len(Indexed(f))
    BY <1>1, <1>3, <2>1, <2>3
  <2> QED
    BY <1>1, <1>4, <1>5, <1>6, <2>1, <2>4 DEF Spoiled
<1> QED
  BY <1>7, <1>8

LEMMA AcceptedLeaks ==
  ASSUME AviInv, LeakInv, NEW f \in Frame, Accepted(f)
  PROVE  leaked' + (IF Spoiled THEN 2 ELSE 0) <= Dropped
<1>1. leaked \in Nat
  BY Ranges DEF AviInv
<1>2. /\ phase \in {"new", "open"} /\ ~unusable
      /\ leaked' = leaked + (IF newFlag /\ file THEN 1 ELSE 0)
  BY DEF Accepted, Offered
<1>3. newFlag /\ file => phase = "open"
  BY <1>2 DEF LeakInv, HandlesOfPhase
<1>4. Dropped = leaked + (IF phase = "open" /\ newFlag THEN 1 ELSE 0)
                  + (IF Spoiled THEN 2 ELSE 0)
  BY <1>1, <1>2 DEF Dropped, Lost, Owed
<1> QED
  BY <1>1, <1>2, <1>3, <1>4

LEMMA WriteLeaks ==
  ASSUME AviInv, AviInv', LeakInv, NEW f \in Frame, WriteFrame(f)
  PROVE  LeakInv'
<1>1. leaked \in Nat /\ Owed \in 0 .. 3
  BY Ranges DEF AviInv
<1>2. leaked' \in Nat /\ Owed' \in 0 .. 3
  BY RangesNext DEF AviInv
<1>3. phase \in {"new", "open"} /\ phase' = "open" /\ unusable' = unusable
  BY DEF WriteFrame, WriteUnusable, NotKey, ReopenFails, Keep, Flush, FlushFails,
         Accepted, Offered
<1>4. /\ Dropped = leaked + Owed /\ Dropped' = leaked' + Owed'
      /\ Dropped \in Nat
  <2>1. Lost = 0 /\ Lost' = 0
    BY <1>3 DEF Lost
  <2> QED
    BY <1>1, <1>2, <2>1 DEF Dropped
<1>5. Pays
  <2>1. CASE WriteUnusable(f)
    <3>1. leaked' = leaked /\ faults' = faults /\ unusable
      BY <2>1 DEF WriteUnusable
    <3>2. Owed' = Owed
      BY <1>3, <3>1 DEF Owed
    <3> QED
      BY <1>1, <1>4, <3>1, <3>2 DEF Pays
  <2>2. CASE NotKey(f)
    <3>1. /\ leaked' = leaked /\ faults' = faults /\ phase = "open"
          /\ UNCHANGED <<newFlag, entries, idxArray, indexCount, bufIndex>>
      BY <1>3, <2>2 DEF NotKey, Offered, memory, disk
    <3>2. Owed' = Owed
      BY <1>3, <3>1 DEF Owed, Spoiled
    <3> QED
      BY <1>1, <1>4, <3>1, <3>2 DEF Pays
  <2>3. CASE ReopenFails(f)
    <3>1. /\ faults' = faults + 1 /\ newFlag /\ ~unusable
          /\ leaked' = leaked + (IF file THEN 1 ELSE 0)
      BY <2>3 DEF ReopenFails, Fault
    <3>2. file => Owed >= 1
      BY <1>3, <3>1 DEF Owed, LeakInv, HandlesOfPhase
    <3>3. leaked' <= Dropped
      BY <1>1, <1>4, <3>1, <3>2
    <3>4. Dropped' <= Dropped + 3
      BY <1>2, <1>4, <3>3, FaultCovers
    <3> QED
      BY <3>1, <3>4 DEF Pays
  <2>4. CASE Keep(f) \/ Flush(f)
    <3>1. Accepted(f) /\ newFlag' = FALSE /\ faults' = faults
      BY <2>4 DEF Keep, Flush
    <3>2. ~unusable
      BY <3>1 DEF Accepted
    <3>3. Owed' = IF Spoiled' THEN 2 ELSE 0
      BY <1>3, <3>1, <3>2 DEF Owed
    <3>4. Spoiled' => Spoiled
      BY <2>4, NothingSpoiled
    <3>5. leaked' + (IF Spoiled THEN 2 ELSE 0) <= Dropped
      BY <3>1, AcceptedLeaks
    <3>6. /\ Owed' \in Nat /\ (IF Spoiled THEN 2 ELSE 0) \in Nat
          /\ Owed' <= IF Spoiled THEN 2 ELSE 0
      BY <3>3, <3>4
    <3>7. leaked' + Owed' <= Dropped
      BY <1>2, <1>4, <3>5, <3>6, LessAdded
    <3> QED
      BY <1>4, <3>1, <3>7 DEF Pays
  <2>5. CASE FlushFails(f)
    <3>1. Accepted(f) /\ faults' = faults + 1
      BY <2>5 DEF FlushFails, Fault
    <3>2. leaked' + (IF Spoiled THEN 2 ELSE 0) <= Dropped
      BY <3>1, AcceptedLeaks
    <3>3. leaked' <= Dropped
      <4>1. (IF Spoiled THEN 2 ELSE 0) \in Nat
        OBVIOUS
      <4> QED
        BY <1>2, <1>4, <3>2, <4>1, PartIsLess
    <3>4. Dropped' <= Dropped + 3
      BY <1>2, <1>4, <3>3, FaultCovers
    <3> QED
      BY <3>1, <3>4 DEF Pays
  <2> QED
    BY <2>1, <2>2, <2>3, <2>4, <2>5 DEF WriteFrame
<1>6. HandlesOfPhase'
  BY <1>3 DEF HandlesOfPhase
<1> QED
  BY <1>5, <1>6, PaysOff

LEMMA CloseLeaks ==
  ASSUME AviInv, AviInv', LeakInv,
         Close \/ CloseUnusable \/ CloseNew \/ CloseShort \/ CloseFails
  PROVE  LeakInv'
<1>1. leaked \in Nat /\ Owed \in 0 .. 3
  BY Ranges DEF AviInv
<1>2. Handles' \in 0 .. 2
  BY RangesNext DEF AviInv
<1>3. phase = "open" /\ leaked' = leaked
  BY DEF Close, CloseUnusable, CloseNew, CloseShort, CloseFails, Closing
<1>4. Dropped = leaked + Owed /\ Dropped \in Nat /\ leaked <= Dropped
  BY <1>1, <1>3 DEF Dropped, Lost
<1>5. CASE Close
  <2>1. Handles' = 0 /\ faults' = faults /\ phase' = "finished"
    BY <1>5 DEF Close, Handles
  <2>2. Dropped' = leaked
    BY <1>1, <1>3, <2>1 DEF Dropped, Owed, Lost
  <2>3. Pays
    BY <1>1, <1>4, <2>1, <2>2 DEF Pays
  <2>4. HandlesOfPhase'
    BY <2>1 DEF HandlesOfPhase
  <2> QED
    BY <2>3, <2>4, PaysOff
<1>6. CASE CloseUnusable \/ CloseNew \/ CloseShort \/ CloseFails
  <2>1. phase' = "lost"
    BY <1>6 DEF CloseUnusable, CloseNew, CloseShort, CloseFails
  <2>2. Dropped' = leaked + Handles'
    BY <1>1, <1>2, <1>3, <2>1 DEF Dropped, Owed, Lost
  <2>3. \/ faults' = faults /\ Handles' <= Owed
        \/ faults' = faults + 1
    <3>1. CASE CloseUnusable
      <4>1. Owed = 3 /\ faults' = faults
        BY <1>3, <3>1 DEF CloseUnusable, Owed
      <4> QED
        BY <1>2, <4>1
    <3>2. CASE CloseNew
      <4>1. ~unusable /\ newFlag /\ faults' = faults
        BY <3>2 DEF CloseNew
      <4>2. Owed >= 1
        BY <1>3, <4>1 DEF Owed
      <4>3. Handles' <= 1
        BY <3>2 DEF CloseNew, Handles
      <4> QED
        BY <1>1, <1>2, <4>1, <4>2, <4>3
    <3>3. CASE CloseShort
      <4>1. idxArray \in Seq(Entry) /\ entries \in Seq(Entry)
        BY DEF AviInv, TypeOK
      <4>2. Len(AllEntries) = Len(entries) + Len(idxArray)
        BY <4>1 DEF AllEntries
      <4>3. Spoiled /\ ~unusable /\ faults' = faults
        BY <3>3, <4>2 DEF CloseShort, Spoiled
      <4>4. Owed >= 2
        BY <1>3, <4>3 DEF Owed
      <4> QED
        BY <1>1, <1>2, <4>3, <4>4
    <3>4. CASE CloseFails
      BY <3>4 DEF CloseFails, Fault
    <3> QED
      BY <1>6, <3>1, <3>2, <3>3, <3>4
  <2>4. Handles' <= Owed => Dropped' <= Dropped
    <3>1. Handles' \in Nat /\ Owed \in Nat /\ leaked + Owed <= Dropped
      BY <1>1, <1>2, <1>4
    <3> QED
      BY <1>1, <1>4, <2>2, <3>1, LessAdded
  <2>5. Dropped' <= Dropped + 3
    <3>1. Handles' \in 0 .. 3
      BY <1>2
    <3> QED
      BY <1>1, <1>4, <2>2, <3>1, FaultCovers
  <2>6. Pays
    BY <2>3, <2>4, <2>5 DEF Pays
  <2>7. HandlesOfPhase'
    BY <2>1 DEF HandlesOfPhase
  <2> QED
    BY <2>6, <2>7, PaysOff
<1> QED
  BY <1>5, <1>6

LEMMA CardLeaks ==
  ASSUME AviInv, AviInv', LeakInv, CardGone \/ CardBack
  PROVE  LeakInv'
<1>1. leaked \in Nat /\ Lost \in 0 .. 2 /\ Owed \in 0 .. 3
  BY Ranges DEF AviInv
<1>2. Owed' \in 0 .. 3
  BY RangesNext DEF AviInv
<1>3. UNCHANGED <<phase, file, idxfile, newFlag, leaked>>
  BY DEF CardGone, CardBack, handles, memory
<1>4. Handles' = Handles /\ Lost' = Lost
  BY <1>3 DEF Handles, Lost
<1>5. HandlesOfPhase'
  BY <1>3, <1>4 DEF LeakInv, HandlesOfPhase
<1>6. /\ leaked + Lost \in Nat /\ Dropped \in Nat
      /\ Dropped = (leaked + Lost) + Owed
      /\ Dropped' = (leaked + Lost) + Owed'
  BY <1>1, <1>2, <1>3, <1>4 DEF Dropped
<1>7. CASE CardGone
  <2>1. faults' = faults + 1
    BY <1>7 DEF CardGone, Fault
  <2>2. leaked + Lost <= Dropped
    BY <1>1, <1>6
  <2>3. Dropped' <= Dropped + 3
    BY <1>2, <1>6, <2>2, FaultCovers
  <2> QED
    BY <1>5, <2>1, <2>3, PaysOff DEF Pays
<1>8. CASE CardBack
  <2>1. unusable /\ faults' = faults
    BY <1>8 DEF CardBack
  <2>2. phase \notin {"new", "open"} => Owed' = 0
    BY <1>3 DEF Owed
  <2>3. phase \in {"new", "open"} => Owed = 3
    BY <2>1 DEF Owed
  <2>4. Owed' \in Nat /\ Owed \in Nat /\ Owed' <= Owed
    BY <1>1, <1>2, <2>2, <2>3
  <2>5. (leaked + Lost) + Owed <= Dropped
    BY <1>6
  <2>6. Dropped' <= Dropped
    BY <1>6, <2>4, <2>5, LessAdded
  <2> QED
    BY <1>5, <2>1, <2>6, PaysOff DEF Pays
<1> QED
  BY <1>7, <1>8

(* avi_record_nornal_close: a fault costs three handles at most.           *)
THEOREM AviLeaksCounted == Spec => []LeaksCounted
<1>1. Init => LeakInv
  BY DEF Init, LeakInv, Dropped, HandlesOfPhase, Lost, Owed, Handles
<1>2. AviInv /\ AviInv' /\ LeakInv /\ [Next]_aviVars => LeakInv'
  <2>1. AviInv /\ AviInv' /\ LeakInv /\ Next => LeakInv'
    BY OpenLeaks, WriteLeaks, CloseLeaks, CardLeaks DEF Next
  <2>2. LeakInv /\ UNCHANGED aviVars => LeakInv'
    BY DEF LeakInv, Dropped, HandlesOfPhase, Lost, Owed, Handles, Spoiled,
           aviVars, handles, memory, disk
  <2> QED
    BY <2>1, <2>2
<1>3. AviInv /\ LeakInv => LeaksCounted
  <2> SUFFICES ASSUME AviInv, LeakInv PROVE LeaksCounted
    OBVIOUS
  <2>1. /\ leaked \in Nat /\ faults \in Nat /\ Lost \in 0 .. 2
        /\ Owed \in 0 .. 3
    BY Ranges DEF AviInv
  <2>2. leaked + Lost \in Nat /\ leaked + Lost <= Dropped /\ Dropped \in Nat
    BY <2>1 DEF Dropped
  <2>3. leaked + Lost <= 3 * faults
    BY <2>1, <2>2, Tripled DEF LeakInv
  <2> QED
    BY <2>3 DEF LeaksCounted, Lost
<1> QED
  BY <1>1, <1>2, <1>3, AviInvariant, PTL DEF Spec
------------------------------------------------------------------------------
(* What the frames of a film take, and the entries an index has for them.  *)

Sizes(fs) == [n \in 1 .. Len(fs) |-> Room(fs[n])]

LEMMA RoomTable ==
  ASSUME NEW fs \in Seq(Frame)
  PROVE  AddsUp(RoomOfFirst(fs), Sizes(fs), Len(fs))
<1> DEFINE room[n \in 0 .. Len(fs)] ==
             IF n = 0 THEN 0 ELSE room[n - 1] + Room(fs[n])
<1>1. Len(fs) \in Nat /\ \A n \in 1 .. Len(fs) : fs[n] \in Frame
  OBVIOUS
<1>2. Sizes(fs) \in [1 .. Len(fs) -> Nat]
  BY <1>1, RoomFits DEF Sizes
<1>3. PICK r : AddsUp(r, Sizes(fs), Len(fs))
  BY <1>1, <1>2, TableExists
<1>4. r = [n \in 0 .. Len(fs) |-> IF n = 0 THEN 0 ELSE r[n - 1] + Room(fs[n])]
  BY <1>1, <1>3 DEF AddsUp, Sizes
<1>5. room = [n \in 0 .. Len(fs) |->
                IF n = 0 THEN 0 ELSE room[n - 1] + Room(fs[n])]
  BY <1>4
<1> HIDE DEF room
<1>6. \A k \in Nat : k <= Len(fs) => room[k] = r[k]
  <2> DEFINE S == {k \in Nat : k <= Len(fs) => room[k] = r[k]}
  <2>1. 0 \in S
    BY <1>1, <1>4, <1>5
  <2>2. ASSUME NEW k \in S PROVE k + 1 \in S
    <3> SUFFICES ASSUME k + 1 <= Len(fs) PROVE room[k + 1] = r[k + 1]
      OBVIOUS
    <3>1. /\ k \in Nat /\ k + 1 \in 0 .. Len(fs) /\ k + 1 # 0
          /\ (k + 1) - 1 = k /\ room[k] = r[k]
      BY <1>1
    <3>2. room[k + 1] = room[(k + 1) - 1] + Room(fs[k + 1])
      BY <1>5, <3>1
    <3>3. r[k + 1] = r[(k + 1) - 1] + Room(fs[k + 1])
      BY <1>4, <3>1
    <3> QED
      BY <3>1, <3>2, <3>3
  <2>3. S = Nat
    <3> HIDE DEF S
    <3>1. S \in SUBSET Nat
      BY DEF S
    <3> QED
      BY <2>1, <2>2, <3>1, NatSetInduction
  <2> QED
    BY <2>3
<1>7. room = r
  BY <1>1, <1>4, <1>5, <1>6
<1> QED
  BY <1>3, <1>7 DEF room, RoomOfFirst

LEMMA AppendedAt ==
  ASSUME NEW S, NEW s \in Seq(S), NEW e \in S
  PROVE  /\ Len(s) \in Nat /\ Len(Append(s, e)) = Len(s) + 1
         /\ Append(s, e) \in Seq(S)
         /\ \A i \in 1 .. Len(s) : Append(s, e)[i] = s[i]
         /\ Append(s, e)[Len(s) + 1] = e
  OBVIOUS

LEMMA RoomExtended ==
  ASSUME NEW fs \in Seq(Frame), NEW f \in Frame
  PROVE  /\ \A n \in 0 .. Len(fs) :
              RoomOfFirst(Append(fs, f))[n] = RoomOfFirst(fs)[n]
         /\ RoomOf(Append(fs, f)) = RoomOf(fs) + Room(f)
         /\ RoomOf(fs) \in Nat
<1> DEFINE gs == Append(fs, f)
           len == Len(fs)
<1>1. /\ len \in Nat /\ Len(gs) = len + 1 /\ gs \in Seq(Frame)
      /\ \A i \in 1 .. len : gs[i] = fs[i]
      /\ gs[len + 1] = f
  BY AppendedAt
<1>2. AddsUp(RoomOfFirst(fs), Sizes(fs), len)
  BY RoomTable
<1>3. AddsUp(RoomOfFirst(gs), Sizes(gs), len + 1)
  BY <1>1, RoomTable
<1>4. \A n \in 1 .. len : Sizes(fs)[n] = Sizes(gs)[n]
  BY <1>1 DEF Sizes
<1>5. Sizes(gs)[len + 1] = Room(f)
  BY <1>1 DEF Sizes
<1> HIDE DEF gs, len
<1>6. \A n \in 0 .. len : RoomOfFirst(fs)[n] = RoomOfFirst(gs)[n]
  <2>1. len + 1 \in Nat /\ len <= len + 1
    BY <1>1
  <2> QED
    BY <1>1, <1>2, <1>3, <1>4, <2>1, TablesAgree
<1>7. RoomOfFirst(gs)[len + 1] = RoomOfFirst(gs)[(len + 1) - 1] + Room(f)
  BY <1>1, <1>3, <1>5 DEF AddsUp
<1>8. (len + 1) - 1 = len /\ len \in 0 .. len
  BY <1>1
<1>9. RoomOfFirst(fs)[len] \in Nat
  BY <1>2, <1>8 DEF AddsUp
<1>10. /\ RoomOf(gs) = RoomOfFirst(gs)[len + 1]
       /\ RoomOf(fs) = RoomOfFirst(fs)[len]
  BY <1>1 DEF RoomOf, len
<1> QED
  BY <1>6, <1>7, <1>8, <1>9, <1>10 DEF gs, len

LEMMA RoomOfNone == RoomOf(<<>>) = 0
<1>1. <<>> \in Seq(Frame) /\ Len(<<>>) = 0
  OBVIOUS
<1>2. AddsUp(RoomOfFirst(<<>>), Sizes(<<>>), 0)
  BY <1>1, RoomTable
<1> QED
  BY <1>1, <1>2 DEF AddsUp, RoomOf

LEMMA VideosExtended ==
  ASSUME NEW fs \in Seq(Frame), NEW f \in Frame
  PROVE  /\ Cardinality(Videos(fs)) \in Nat
         /\ Cardinality(Videos(Append(fs, f)))
              = Cardinality(Videos(fs)) + (IF f.kind # "A" THEN 1 ELSE 0)
<1> DEFINE len == Len(fs)
<1>1. /\ len \in Nat /\ Len(Append(fs, f)) = len + 1
      /\ Append(fs, f) \in Seq(Frame)
      /\ \A i \in 1 .. len : Append(fs, f)[i] = fs[i]
      /\ Append(fs, f)[len + 1] = f
  BY AppendedAt
<1>2. DOMAIN fs = 1 .. len /\ DOMAIN Append(fs, f) = 1 .. len + 1
  BY <1>1
<1> HIDE DEF len
<1>3. IsFiniteSet(Videos(fs)) /\ Cardinality(Videos(fs)) \in Nat
  <2>1. IsFiniteSet(1 .. len)
    BY <1>1, FS_Interval
  <2>2. Videos(fs) \subseteq 1 .. len
    BY <1>2 DEF Videos
  <2> QED
    BY <2>1, <2>2, FS_Subset, FS_CardinalityType
<1>4. len + 1 \notin Videos(fs)
  BY <1>1, <1>2 DEF Videos
<1>5. CASE f.kind # "A"
  <2>1. Videos(Append(fs, f)) = Videos(fs) \union {len + 1}
    BY <1>1, <1>2, <1>5 DEF Videos
  <2>2. Cardinality(Videos(fs) \union {len + 1}) = Cardinality(Videos(fs)) + 1
    BY <1>3, <1>4, FS_AddElement
  <2> QED
    BY <1>3, <1>5, <2>1, <2>2
<1>6. CASE f.kind = "A"
  <2>1. Videos(Append(fs, f)) = Videos(fs)
    BY <1>1, <1>2, <1>6 DEF Videos
  <2> QED
    BY <1>3, <1>6, <2>1
<1> QED
  BY <1>5, <1>6

LEMMA VideosOfNone == Cardinality(Videos(<<>>)) = 0
<1>1. Videos(<<>>) = {}
  BY DEF Videos
<1> QED
  BY <1>1, FS_EmptySet

(* The entry a player finds the frame by.                                  *)
EntryOf(fs, i) ==
  [kind |-> fs[i].kind, at |-> HeaderSize + RoomOfFirst(fs)[i - 1],
   size |-> fs[i].size]

EntriesOf(fs) == [i \in 1 .. Len(fs) |-> EntryOf(fs, i)]

(* A function over 1 .. n is a sequence of n elements.                     *)
LEMMA ListIsSeq ==
  ASSUME NEW S, NEW n \in Nat, NEW f \in [1 .. n -> S]
  PROVE  f \in Seq(S) /\ Len(f) = n
  OBVIOUS

LEMMA EntriesExtended ==
  ASSUME NEW fs \in Seq(Frame), NEW f \in Frame
  PROVE  EntriesOf(Append(fs, f))
           = Append(EntriesOf(fs),
                    [kind |-> f.kind, at |-> HeaderSize + RoomOf(fs),
                     size |-> f.size])
<1> DEFINE gs == Append(fs, f)
           len == Len(fs)
           e == [kind |-> f.kind, at |-> HeaderSize + RoomOf(fs),
                 size |-> f.size]
<1>1. /\ len \in Nat /\ Len(gs) = len + 1 /\ gs \in Seq(Frame)
      /\ \A i \in 1 .. len : gs[i] = fs[i]
      /\ gs[len + 1] = f
  BY AppendedAt
<1>2. \A n \in 0 .. len : RoomOfFirst(gs)[n] = RoomOfFirst(fs)[n]
  BY RoomExtended
<1>3. RoomOf(fs) = RoomOfFirst(fs)[len]
  BY DEF RoomOf
<1> HIDE DEF gs, len
<1>4. ASSUME NEW i \in 1 .. len PROVE EntryOf(gs, i) = EntryOf(fs, i)
  BY <1>1, <1>2 DEF EntryOf
<1>5. EntryOf(gs, len + 1) = e
  <2>1. (len + 1) - 1 = len /\ len \in 0 .. len
    BY <1>1
  <2>2. RoomOfFirst(gs)[(len + 1) - 1] = RoomOf(fs)
    BY <1>2, <1>3, <2>1
  <2> QED
    BY <1>1, <2>2 DEF EntryOf
<1> HIDE DEF e
<1>6. /\ EntriesOf(gs) = [i \in 1 .. len + 1 |-> EntryOf(gs, i)]
      /\ EntriesOf(fs) = [i \in 1 .. len |-> EntryOf(fs, i)]
  BY <1>1 DEF EntriesOf, len
<1>7. Append(EntriesOf(fs), e)
        = [i \in 1 .. len + 1 |-> IF i = len + 1 THEN e ELSE EntryOf(fs, i)]
  <2> DEFINE E == {EntryOf(fs, i) : i \in 1 .. len}
  <2>0. EntriesOf(fs) \in [1 .. len -> E]
    BY <1>6
  <2> HIDE DEF E
  <2>1. EntriesOf(fs) \in Seq(E)
    BY <1>1, <2>0, ListIsSeq
  <2>2. Len(EntriesOf(fs)) = len
    BY <1>1, <2>0, ListIsSeq
  <2> QED
    BY <1>1, <1>6, <2>1, <2>2
<1> QED
  BY <1>1, <1>4, <1>5, <1>6, <1>7 DEF gs, e
------------------------------------------------------------------------------
(* A film no fault has touched: every frame handed over that found room is *)
(* in the film or waits in the buffer, its entry in the temporary file or  *)
(* in the array, and the counters tell both.                               *)

Taken == data \o buffer

Untouched ==
  phase = "new" =>
    /\ newFlag
    /\ data = <<>> /\ buffer = <<>> /\ entries = <<>> /\ idxArray = <<>>
    /\ indexCount = 0 /\ videoCount = 0

Accounted ==
  phase = "open" =>
    /\ ~newFlag
    /\ offset = HeaderSize + RoomOf(Taken)
    /\ videoCount = Cardinality(Videos(Taken))
    /\ AllEntries = EntriesOf(Taken)
    /\ indexCount = Len(Taken)

Bound ==
  phase = "finished" =>
    /\ buffer = <<>>
    /\ header.end = HeaderSize + RoomOf(data)
    /\ header.frames = Cardinality(Videos(data))
    /\ index = EntriesOf(data)

FilmInv == faults = 0 => ~unusable /\ Untouched /\ Accounted /\ Bound

LEMMA JoinFacts ==
  ASSUME NEW S, NEW s \in Seq(S), NEW t \in Seq(S)
  PROVE  /\ s \o <<>> = s /\ <<>> \o s = s
         /\ s \o t \in Seq(S)
         /\ Len(s \o t) = Len(s) + Len(t)
         /\ SubSeq(s, 1, Len(s)) = s
  OBVIOUS

LEMMA JoinAppended ==
  ASSUME NEW S, NEW s \in Seq(S), NEW t \in Seq(S), NEW e \in S
  PROVE  s \o Append(t, e) = Append(s \o t, e)
<1>1. /\ s \o Append(t, e) \in Seq(S) /\ Append(s \o t, e) \in Seq(S)
      /\ Len(s \o Append(t, e)) = Len(s) + Len(t) + 1
      /\ Len(Append(s \o t, e)) = Len(s) + Len(t) + 1
  OBVIOUS
<1>2. ASSUME NEW i \in 1 .. Len(s) + Len(t) + 1
      PROVE  (s \o Append(t, e))[i] = Append(s \o t, e)[i]
  OBVIOUS
<1> QED
  BY <1>1, <1>2

(* Nothing is in the film but what is accounted for, opened or not.        *)
LEMMA Ready ==
  ASSUME AviInv, FilmInv, faults = 0, phase \in {"new", "open"}
  PROVE  /\ Begun = data /\ At = HeaderSize + RoomOf(Taken)
         /\ Taken \in Seq(Frame) /\ AllEntries \in Seq(Entry)
         /\ videoCount = Cardinality(Videos(Taken))
         /\ AllEntries = EntriesOf(Taken)
         /\ indexCount = Len(Taken)
<1>1. /\ TypeOK /\ data \in Seq(Frame) /\ buffer \in Seq(Frame)
      /\ entries \in Seq(Entry) /\ idxArray \in Seq(Entry)
  BY DEF AviInv, TypeOK
<1>2. Taken \in Seq(Frame) /\ AllEntries \in Seq(Entry)
  BY <1>1, JoinFacts DEF Taken, AllEntries
<1>3. CASE phase = "new"
  <2>1. /\ newFlag /\ data = <<>> /\ buffer = <<>> /\ entries = <<>>
        /\ idxArray = <<>> /\ indexCount = 0 /\ videoCount = 0
    BY <1>3 DEF FilmInv, Untouched
  <2>2. Taken = <<>> /\ AllEntries = <<>>
    BY <2>1 DEF Taken, AllEntries
  <2>3. EntriesOf(<<>>) = <<>> /\ Len(<<>>) = 0
    BY DEF EntriesOf
  <2>4. Begun = <<>> /\ At = HeaderSize
    BY <2>1 DEF Begun, At
  <2> QED
    BY <1>2, <2>1, <2>2, <2>3, <2>4, RoomOfNone, VideosOfNone DEF HeaderSize
<1>4. CASE phase = "open"
  BY <1>2, <1>4 DEF FilmInv, Accounted, Begun, At
<1> QED
  BY <1>3, <1>4

LEMMA AcceptedAccounted ==
  ASSUME AviInv, FilmInv, faults = 0, NEW f \in Frame, Accepted(f), Count(f)
  PROVE  /\ offset' = HeaderSize + RoomOf(data \o Buffered(f))
         /\ videoCount' = Cardinality(Videos(data \o Buffered(f)))
         /\ entries \o Indexed(f) = EntriesOf(data \o Buffered(f))
         /\ indexCount' = Len(data \o Buffered(f))
         /\ Begun = data /\ ToWrite(f) = Indexed(f)
         /\ data \o Buffered(f) = IF Fits(f) THEN Append(Taken, f) ELSE Taken
<1> USE AviFileAssumption
<1>1. phase \in {"new", "open"}
  BY DEF Accepted, Offered
<1>2. /\ Begun = data /\ At = HeaderSize + RoomOf(Taken)
      /\ Taken \in Seq(Frame) /\ AllEntries \in Seq(Entry)
      /\ videoCount = Cardinality(Videos(Taken))
      /\ AllEntries = EntriesOf(Taken)
      /\ indexCount = Len(Taken)
  BY <1>1, Ready
<1>3. /\ data \in Seq(Frame) /\ buffer \in Seq(Frame)
      /\ entries \in Seq(Entry) /\ idxArray \in Seq(Entry)
  BY DEF AviInv, TypeOK
<1>4. ToWrite(f) = Indexed(f)
  <2>1. Len(idxArray) <= bufIndex + SaveNum * 0 /\ bufIndex \in 0 .. SaveNum - 1
    BY DEF AviInv, Waiting, TypeOK
  <2>2. SaveNum * 0 = 0
    OBVIOUS
  <2>3. /\ Indexed(f) \in Seq(Entry) /\ Len(Indexed(f)) <= Len(idxArray) + 1
    BY AcceptedIndex
  <2>4. Len(idxArray) \in Nat /\ Len(Indexed(f)) \in Nat
    BY <1>3, <2>3, LenNat
  <2>5. ~(Len(Indexed(f)) > SaveNum)
    BY <2>1, <2>2, <2>3, <2>4
  <2> QED
    BY <2>5 DEF ToWrite
<1>5. CASE Fits(f)
  <2> DEFINE e == [kind |-> f.kind, at |-> At, size |-> f.size]
  <2>1. e \in Entry
    <3>1. At \in Nat
      BY <1>2, RoomExtended DEF HeaderSize
    <3> QED
      BY <3>1, RoomFits DEF Entry
  <2>2. Buffered(f) = Append(buffer, f) /\ Indexed(f) = Append(idxArray, e)
    BY <1>5 DEF Buffered, Indexed
  <2> HIDE DEF e
  <2>3. data \o Buffered(f) = Append(Taken, f)
    BY <1>3, <2>2, JoinAppended DEF Taken
  <2>4. entries \o Indexed(f) = Append(AllEntries, e)
    BY <1>3, <2>1, <2>2, JoinAppended DEF AllEntries
  <2>5. EntriesOf(Append(Taken, f)) = Append(EntriesOf(Taken), e)
    BY <1>2, EntriesExtended DEF e
  <2>6. /\ offset' = At + Room(f) /\ indexCount' = indexCount + 1
        /\ videoCount' = videoCount + (IF f.kind # "A" THEN 1 ELSE 0)
    BY <1>5 DEF Count
  <2>7. offset' = HeaderSize + RoomOf(Append(Taken, f))
    <3>1. /\ RoomOf(Append(Taken, f)) = RoomOf(Taken) + Room(f)
          /\ RoomOf(Taken) \in Nat /\ Room(f) \in Nat
      BY <1>2, RoomExtended, RoomFits
    <3> QED
      BY <1>2, <2>6, <3>1 DEF HeaderSize
  <2>8. videoCount' = Cardinality(Videos(Append(Taken, f)))
    BY <1>2, <2>6, VideosExtended
  <2>9. indexCount' = Len(Append(Taken, f))
    BY <1>2, <2>6, AppendedAt
  <2> QED
    BY <1>2, <1>4, <1>5, <2>3, <2>4, <2>5, <2>7, <2>8, <2>9
<1>6. CASE ~Fits(f)
  <2>1. data \o Buffered(f) = Taken /\ entries \o Indexed(f) = AllEntries
    BY <1>6 DEF Buffered, Indexed, Taken, AllEntries
  <2>2. offset' = At /\ indexCount' = indexCount /\ videoCount' = videoCount
    BY <1>6 DEF Count
  <2> QED
    BY <1>2, <1>4, <1>6, <2>1, <2>2
<1> QED
  BY <1>5, <1>6

(* Only four kinds of step leave a film without a fault.                   *)
LEMMA UnspoiledSteps ==
  ASSUME AviInv, FilmInv, Next, faults' = 0
  PROVE  /\ faults = 0 /\ ~unusable
         /\ \/ Open
            \/ \E f \in Frame : Keep(f) \/ Flush(f)
            \/ Close
<1>1. faults \in Nat
  BY DEF AviInv, TypeOK
<1>2. ~Fault
  BY <1>1 DEF Fault
<1>3. faults = 0
  <2>1. CASE Open \/ OpenFails
    BY <1>2, <2>1 DEF Open, OpenFails
  <2>2. CASE \E f \in Frame : WriteFrame(f)
    <3>1. PICK f \in Frame : WriteFrame(f)
      BY <2>2
    <3>2. CASE WriteUnusable(f) \/ NotKey(f)
      BY <3>2 DEF WriteUnusable, NotKey
    <3>3. CASE ReopenFails(f) \/ FlushFails(f)
      BY <1>2, <3>3 DEF ReopenFails, FlushFails
    <3>4. CASE Keep(f) \/ Flush(f)
      BY <3>4 DEF Keep, Flush
    <3> QED
      BY <3>1, <3>2, <3>3, <3>4 DEF WriteFrame
  <2>3. CASE Close \/ CloseUnusable \/ CloseNew \/ CloseShort \/ CloseFails
    BY <1>2, <2>3 DEF Close, CloseUnusable, CloseNew, CloseShort, CloseFails
  <2>4. CASE CardGone \/ CardBack
    BY <1>2, <2>4 DEF CardGone, CardBack
  <2> QED
    BY <2>1, <2>2, <2>3, <2>4 DEF Next
<1>4. ~unusable
  BY <1>3 DEF FilmInv
<1>5. phase = "open" =>
        ~newFlag /\ Len(AllEntries) = indexCount /\ indexCount \in Nat
  <2> SUFFICES ASSUME phase = "open"
               PROVE  ~newFlag /\ Len(AllEntries) = indexCount
                        /\ indexCount \in Nat
    OBVIOUS
  <2>1. /\ ~newFlag /\ AllEntries = EntriesOf(Taken)
        /\ indexCount = Len(Taken) /\ Taken \in Seq(Frame)
    BY <1>3, Ready DEF FilmInv, Accounted
  <2>2. Len(Taken) \in Nat
    BY <2>1, LenNat
  <2>3. Len(EntriesOf(Taken)) = Len(Taken)
    BY <2>2 DEF EntriesOf
  <2> QED
    BY <2>1, <2>2, <2>3
<1>6. CASE Open
  BY <1>3, <1>4, <1>6
<1>7. CASE OpenFails
  BY <1>2, <1>4, <1>7 DEF OpenFails
<1>8. CASE \E f \in Frame : WriteFrame(f)
  <2>1. PICK f \in Frame : WriteFrame(f)
    BY <1>8
  <2>2. ~ReopenFails(f) /\ ~FlushFails(f) /\ ~WriteUnusable(f)
    BY <1>2, <1>4 DEF ReopenFails, FlushFails, WriteUnusable
  <2>3. ~NotKey(f)
    <3>1. phase = "new" => f.kind = "I" \/ ~Offered(f)
      BY DEF Offered
    <3> QED
      BY <1>5, <3>1 DEF NotKey, Offered
  <2> QED
    BY <1>3, <1>4, <2>1, <2>2, <2>3 DEF WriteFrame
<1>9. CASE Close
  BY <1>3, <1>4, <1>9
<1>10. CASE CloseUnusable \/ CloseNew \/ CloseShort \/ CloseFails
  <2>1. phase = "open"
    BY <1>10 DEF CloseUnusable, CloseNew, CloseShort, CloseFails, Closing
  <2>2. ~CloseUnusable /\ ~CloseNew /\ ~CloseFails
    BY <1>2, <1>4, <1>5, <2>1 DEF CloseUnusable, CloseNew, CloseFails
  <2>3. ~CloseShort
    BY <1>5, <2>1 DEF CloseShort
  <2> QED
    BY <1>10, <2>2, <2>3
<1>11. CASE CardGone \/ CardBack
  BY <1>2, <1>4, <1>11 DEF CardGone, CardBack
<1> QED
  BY <1>6, <1>7, <1>8, <1>9, <1>10, <1>11 DEF Next

(* A frame is taken, written out at once or not.                           *)
LEMMA FrameTaken ==
  ASSUME AviInv, FilmInv, faults = 0, ~unusable, NEW f \in Frame,
         Keep(f) \/ Flush(f)
  PROVE  /\ phase \in {"new", "open"} /\ phase' = "open" /\ unusable' = unusable
         /\ Taken' = IF Fits(f) THEN Append(Taken, f) ELSE Taken
         /\ Accounted'
<1>1. /\ Accepted(f) /\ Count(f) /\ newFlag' = FALSE
      /\ phase \in {"new", "open"} /\ phase' = "open" /\ unusable' = unusable
  BY DEF Keep, Flush, Accepted, Offered
<1>2. /\ offset' = HeaderSize + RoomOf(data \o Buffered(f))
      /\ videoCount' = Cardinality(Videos(data \o Buffered(f)))
      /\ entries \o Indexed(f) = EntriesOf(data \o Buffered(f))
      /\ indexCount' = Len(data \o Buffered(f))
      /\ Begun = data /\ ToWrite(f) = Indexed(f)
      /\ data \o Buffered(f) = IF Fits(f) THEN Append(Taken, f) ELSE Taken
  BY <1>1, AcceptedAccounted
<1>3. /\ data \in Seq(Frame) /\ Buffered(f) \in Seq(Frame)
      /\ entries \in Seq(Entry) /\ Indexed(f) \in Seq(Entry)
  BY <1>1, AcceptedBuffer, AcceptedIndex DEF AviInv, TypeOK
<1>4. /\ data' \o buffer' = data \o Buffered(f)
      /\ entries' \o idxArray' = entries \o Indexed(f)
  <2>1. CASE Keep(f)
    BY <1>2, <2>1 DEF Keep
  <2>2. CASE Flush(f)
    <3>1. /\ data' = data \o Buffered(f) /\ buffer' = <<>>
          /\ entries' = entries \o Indexed(f) /\ idxArray' = <<>>
      BY <1>2, <2>2 DEF Flush, Emptied
    <3>2. data' \in Seq(Frame) /\ entries' \in Seq(Entry)
      BY <1>3, <3>1, JoinFacts
    <3>3. data' \o <<>> = data' /\ entries' \o <<>> = entries'
      BY <3>2, JoinFacts
    <3> QED
      BY <3>1, <3>3
  <2> QED
    BY <2>1, <2>2
<1>5. /\ Taken' = data \o Buffered(f)
      /\ AllEntries' = entries \o Indexed(f)
  BY <1>4 DEF Taken, AllEntries
<1>6. /\ newFlag' = FALSE
      /\ offset' = HeaderSize + RoomOf(Taken')
      /\ videoCount' = Cardinality(Videos(Taken'))
      /\ AllEntries' = EntriesOf(Taken')
      /\ indexCount' = Len(Taken')
  BY <1>1, <1>2, <1>5
<1>7. Accounted'
  BY <1>6 DEF Accounted, HeaderSize, RoomOf, RoomOfFirst, Videos, EntriesOf,
     EntryOf, Room
<1> QED
  BY <1>1, <1>2, <1>5, <1>7

(* The film is closed with the index of all its frames.                    *)
LEMMA FilmClosed ==
  ASSUME AviInv, FilmInv, faults = 0, Close
  PROVE  /\ phase = "open" /\ phase' = "finished" /\ unusable' = unusable
         /\ data' = Taken /\ buffer' = <<>>
         /\ Bound'
<1>1. /\ phase = "open" /\ phase' = "finished" /\ unusable' = unusable
      /\ data' = Taken /\ buffer' = <<>>
      /\ index' = SubSeq(AllEntries, 1, indexCount)
      /\ header' = [frames |-> videoCount, end |-> offset]
  BY DEF Close, Closing, Taken, Emptied, ReadBack, FinalHeader
<1>2. /\ offset = HeaderSize + RoomOf(Taken)
      /\ videoCount = Cardinality(Videos(Taken))
      /\ AllEntries = EntriesOf(Taken)
      /\ indexCount = Len(Taken)
      /\ Taken \in Seq(Frame) /\ AllEntries \in Seq(Entry)
  BY <1>1, Ready DEF FilmInv, Accounted
<1>3. index' = EntriesOf(Taken)
  <2>1. Len(EntriesOf(Taken)) = Len(Taken)
    <3>1. Len(Taken) \in Nat
      BY <1>2, LenNat
    <3> QED
      BY <3>1 DEF EntriesOf
  <2> QED
    BY <1>1, <1>2, <2>1, JoinFacts
<1>4. /\ header'.end = HeaderSize + RoomOf(data')
      /\ header'.frames = Cardinality(Videos(data'))
      /\ index' = EntriesOf(data')
  BY <1>1, <1>2, <1>3
<1>5. Bound'
  BY <1>1, <1>4 DEF Bound, HeaderSize, RoomOf, RoomOfFirst, Videos, EntriesOf,
     EntryOf, Room
<1> QED
  BY <1>1, <1>5

LEMMA NextKeepsFilmInv ==
  ASSUME AviInv, FilmInv, [Next]_aviVars
  PROVE  FilmInv'
<1>1. CASE UNCHANGED aviVars
  <2>1. /\ phase' = phase /\ unusable' = unusable /\ newFlag' = newFlag
        /\ data' = data /\ buffer' = buffer /\ entries' = entries
        /\ idxArray' = idxArray /\ indexCount' = indexCount
        /\ videoCount' = videoCount /\ offset' = offset /\ index' = index
        /\ header' = header /\ faults' = faults
    BY <1>1 DEF aviVars, handles, memory, disk
  <2>2. Taken' = Taken /\ AllEntries' = AllEntries
    BY <2>1 DEF Taken, AllEntries
  <2>3. Untouched => Untouched'
    BY <2>1 DEF Untouched
  <2>4. Accounted => Accounted'
    BY <2>1, <2>2 DEF Accounted
  <2>5. Bound => Bound'
    BY <2>1 DEF Bound
  <2> QED
    BY <2>1, <2>3, <2>4, <2>5 DEF FilmInv
<1>2. CASE Next
  <2> SUFFICES ASSUME faults' = 0
               PROVE  ~unusable' /\ Untouched' /\ Accounted' /\ Bound'
    BY DEF FilmInv
  <2>1. /\ faults = 0 /\ ~unusable
        /\ \/ Open
           \/ \E f \in Frame : Keep(f) \/ Flush(f)
           \/ Close
    BY <1>2, UnspoiledSteps
  <2>2. CASE Open
    BY <2>1, <2>2 DEF Open, Emptied, Untouched, Accounted, Bound
  <2>3. CASE \E f \in Frame : Keep(f) \/ Flush(f)
    <3>1. phase' = "open" /\ unusable' = unusable /\ Accounted'
      BY <2>1, <2>3, FrameTaken
    <3> QED
      BY <2>1, <3>1 DEF Untouched, Bound
  <2>4. CASE Close
    <3>1. phase' = "finished" /\ unusable' = unusable /\ Bound'
      BY <2>1, <2>4, FilmClosed
    <3> QED
      BY <2>1, <3>1 DEF Untouched, Accounted
  <2> QED
    BY <2>1, <2>2, <2>3, <2>4
<1> QED
  BY <1>1, <1>2

THEOREM FilmInvariant == Spec => []FilmInv
<1>1. Init => FilmInv
  BY DEF Init, FilmInv, Untouched, Accounted, Bound
<1>2. AviInv /\ FilmInv /\ [Next]_aviVars => FilmInv'
  BY NextKeepsFilmInv
<1> QED
  BY <1>1, <1>2, AviInvariant, PTL DEF Spec

(* update_avi_header: as long as no write failed the header of a finished  *)
(* film tells its video frames and where its data end, however the frames  *)
(* fell on full buffers and writes.                                        *)
THEOREM AviHeaderExact == Spec => []HeaderExact
<1>1. FilmInv => HeaderExact
  BY DEF FilmInv, Bound, HeaderExact
<1> QED
  BY <1>1, FilmInvariant, PTL
------------------------------------------------------------------------------
(* The film as its player finds it.                                        *)

(* Every frame takes room, so no two are found at the same place.          *)
LEMMA FoundByEntry ==
  ASSUME NEW fs \in Seq(Frame), NEW k \in 1 .. Len(fs)
  PROVE  {i \in DOMAIN fs :
            HeaderSize + RoomOfFirst(fs)[i - 1] = EntriesOf(fs)[k].at} = {k}
<1> DEFINE r == RoomOfFirst(fs)
           len == Len(fs)
<1>1. len \in Nat /\ DOMAIN fs = 1 .. len /\ \A i \in 1 .. len : fs[i] \in Frame
  OBVIOUS
<1>2. AddsUp(r, Sizes(fs), len)
  BY RoomTable
<1>3. EntriesOf(fs)[k].at = HeaderSize + r[k - 1]
  BY DEF EntriesOf, EntryOf
<1> HIDE DEF r
<1>4. \A n \in 1 .. len : Sizes(fs)[n] \in Nat \ {0}
  <2>1. ASSUME NEW n \in 1 .. len PROVE Sizes(fs)[n] \in Nat \ {0}
    <3>1. fs[n].size \in 1 .. MaxSize
      BY <1>1 DEF Frame
    <3>2. Sizes(fs)[n] = fs[n].size + 1
      BY DEF Sizes, Room
    <3> QED
      BY <3>1, <3>2, AviFileAssumption
  <2> QED
    BY <2>1
<1> HIDE DEF len
<1>5. \A m, n \in 0 .. len : m < n => r[m] < r[n]
  BY <1>1, <1>2, <1>4, SumsGrow
<1>6. \A n \in 0 .. len : r[n] \in Nat
  BY <1>2 DEF AddsUp
<1>7. ASSUME NEW i \in 1 .. len, HeaderSize + r[i - 1] = HeaderSize + r[k - 1]
      PROVE  i = k
  <2>1. k \in 1 .. len
    BY DEF len
  <2>2. i - 1 \in 0 .. len /\ k - 1 \in 0 .. len
    BY <1>1, <2>1
  <2>3. r[i - 1] = r[k - 1]
    BY <1>6, <1>7, <2>2 DEF HeaderSize
  <2>4. ~(i - 1 < k - 1) /\ ~(k - 1 < i - 1)
    BY <1>5, <1>6, <2>2, <2>3
  <2> QED
    BY <1>1, <2>1, <2>4
<1>8. k \in 1 .. len
  BY DEF len
<1> QED
  BY <1>1, <1>3, <1>7, <1>8 DEF r

LEMMA ShownByIndex ==
  ASSUME NEW fs \in Seq(Frame), NEW idx, idx = EntriesOf(fs)
  PROVE  [k \in DOMAIN idx |->
            {fs[i] : i \in {j \in {i \in DOMAIN fs :
                                     HeaderSize + RoomOfFirst(fs)[i - 1]
                                       = idx[k].at} :
                              /\ fs[j].size = idx[k].size
                              /\ fs[j].kind = idx[k].kind}}]
           = Singles(fs)
<1>1. DOMAIN fs = 1 .. Len(fs) /\ DOMAIN idx = 1 .. Len(fs)
  BY DEF EntriesOf
<1>2. ASSUME NEW k \in 1 .. Len(fs)
      PROVE  {fs[i] : i \in {j \in {i \in DOMAIN fs :
                                      HeaderSize + RoomOfFirst(fs)[i - 1]
                                        = idx[k].at} :
                               /\ fs[j].size = idx[k].size
                               /\ fs[j].kind = idx[k].kind}} = {fs[k]}
  <2>1. {i \in DOMAIN fs : HeaderSize + RoomOfFirst(fs)[i - 1] = idx[k].at} = {k}
    BY FoundByEntry
  <2>2. idx[k].size = fs[k].size /\ idx[k].kind = fs[k].kind
    BY DEF EntriesOf, EntryOf
  <2>3. {j \in {k} : /\ fs[j].size = idx[k].size
                     /\ fs[j].kind = idx[k].kind} = {k}
    BY <2>2
  <2> QED
    BY <2>1, <2>3
<1> QED
  BY <1>1, <1>2 DEF Singles

LEMMA ShownTaken ==
  ASSUME AviInv, FilmInv, faults = 0
  PROVE  Shown = Singles(Taken)
<1>1. data \in Seq(Frame)
  BY DEF AviInv, TypeOK
<1>2. CASE phase = "finished"
  <2>1. index = EntriesOf(data) /\ buffer = <<>>
    BY <1>2 DEF FilmInv, Bound
  <2>2. ByIndex = Singles(data)
    BY <1>1, <2>1, ShownByIndex DEF ByIndex, FoundAt
  <2>3. Taken = data
    BY <1>1, <2>1, JoinFacts DEF Taken
  <2> QED
    BY <1>2, <2>2, <2>3 DEF Shown
<1>3. CASE phase # "finished"
  BY <1>3 DEF Shown, Taken
<1> QED
  BY <1>2, <1>3

LEMMA SinglesAppended ==
  ASSUME NEW fs \in Seq(Frame), NEW f \in Frame
  PROVE  Singles(Append(fs, f)) = Append(Singles(fs), {f})
<1> DEFINE len == Len(fs)
<1>1. /\ len \in Nat /\ Len(Append(fs, f)) = len + 1
      /\ Append(fs, f) \in Seq(Frame)
      /\ \A i \in 1 .. len : Append(fs, f)[i] = fs[i]
      /\ Append(fs, f)[len + 1] = f
  BY AppendedAt
<1>2. DOMAIN fs = 1 .. len /\ DOMAIN Append(fs, f) = 1 .. len + 1
  BY <1>1
<1> HIDE DEF len
<1>3. Singles(fs) = [i \in 1 .. len |-> {fs[i]}]
  BY <1>2 DEF Singles
<1>4. Singles(Append(fs, f))
        = [i \in 1 .. len + 1 |-> IF i = len + 1 THEN {f} ELSE {fs[i]}]
  BY <1>1, <1>2 DEF Singles
<1>5. Append(Singles(fs), {f})
        = [i \in 1 .. len + 1 |-> IF i = len + 1 THEN {f} ELSE {fs[i]}]
  <2>1. Singles(fs) \in Seq({{fs[i]} : i \in 1 .. len})
    BY <1>1, <1>3
  <2>2. Len(Singles(fs)) = len
    BY <1>1, <1>3
  <2> QED
    BY <1>1, <1>3, <2>1, <2>2
<1> QED
  BY <1>4, <1>5

LEMMA SinglesOfNone == Singles(<<>>) = <<>>
  BY DEF Singles

(* The film of a player is empty only while no frame was taken.            *)
LEMMA SinglesEmpty ==
  ASSUME NEW fs \in Seq(Frame), Singles(fs) = <<>>
  PROVE  fs = <<>>
<1>1. DOMAIN Singles(fs) = DOMAIN fs
  BY DEF Singles
<1>2. DOMAIN fs = {}
  BY <1>1
<1> QED
  BY <1>2

LEMMA FilmStep ==
  ASSUME AviInv, FilmInv, Next, faults' = 0
  PROVE  F!FilmNext \/ UNCHANGED <<Shown, Made>>
<1>1. /\ faults = 0 /\ ~unusable
      /\ \/ Open
         \/ \E f \in Frame : Keep(f) \/ Flush(f)
         \/ Close
  BY UnspoiledSteps
<1>2. Shown = Singles(Taken)
  BY <1>1, ShownTaken
<1>3. Taken \in Seq(Frame)
  BY JoinFacts DEF AviInv, TypeOK, Taken
<1>4. CASE Open
  <2>1. /\ phase \notin {"new", "open"} /\ phase' = "new"
        /\ data' = <<>> /\ buffer' = <<>>
    BY <1>4 DEF Open, MayOpen, Emptied
  <2>2. Shown' = <<>>
    <3>1. Shown' = Singles(data' \o buffer')
      BY <2>1 DEF Shown, Singles
    <3>2. data' \o buffer' = <<>>
      BY <2>1
    <3> QED
      BY <3>1, <3>2, SinglesOfNone
  <2>3. Made # "open" /\ Made' = "open"
    BY <2>1 DEF Made
  <2> QED
    BY <2>2, <2>3 DEF F!FilmNext, F!Create
<1>5. CASE \E f \in Frame : Keep(f) \/ Flush(f)
  <2>1. PICK f \in Frame : Keep(f) \/ Flush(f)
    BY <1>5
  <2>2. /\ phase \in {"new", "open"} /\ phase' = "open"
        /\ Taken' = IF Fits(f) THEN Append(Taken, f) ELSE Taken
    BY <1>1, <2>1, FrameTaken
  <2>3. Shown' = Singles(Taken')
    BY <2>2 DEF Shown, Taken, Singles
  <2>4. Made = "open" /\ Made' = "open"
    BY <2>2 DEF Made
  <2>5. CASE Fits(f)
    <3>1. Shown' = Append(Shown, {f})
      BY <1>2, <1>3, <2>2, <2>3, <2>5, SinglesAppended
    <3>2. Shown = <<>> => f.kind = "I"
      <4> SUFFICES ASSUME Shown = <<>> PROVE f.kind = "I"
        OBVIOUS
      <4>1. Taken = <<>>
        BY <1>2, <1>3, SinglesEmpty
      <4>2. data = <<>> /\ buffer = <<>>
        BY <4>1, ConcatFacts DEF AviInv, TypeOK, Taken
      <4>3. newFlag
        BY <2>2, <4>2 DEF AviInv, KeyKept
      <4> QED
        BY <2>1, <4>3 DEF Keep, Flush, Accepted
    <3>3. Shown = <<>> => {f} \in {{g} : g \in {h \in Frame : h.kind = "I"}}
      BY <3>2
    <3>4. {f} \in {{g} : g \in Frame}
      OBVIOUS
    <3>5. F!Extend({f})
      BY <2>4, <3>1, <3>3 DEF F!Extend
    <3> QED
      BY <3>4, <3>5 DEF F!FilmNext
  <2>6. CASE ~Fits(f)
    BY <1>2, <2>2, <2>3, <2>4, <2>6
  <2> QED
    BY <2>5, <2>6
<1>6. CASE Close
  <2>1. /\ phase = "open" /\ phase' = "finished"
        /\ data' = Taken /\ Bound'
    BY <1>1, <1>6, FilmClosed
  <2>2. Shown' = Singles(Taken)
    <3>1. PICK fs \in Seq(Frame) : fs = data'
      BY <1>3, <2>1
    <3>2. PICK idx : idx = index'
      OBVIOUS
    <3>3. index' = EntriesOf(data')
      BY <2>1 DEF Bound, EntriesOf, EntryOf, RoomOfFirst, Room, HeaderSize
    <3>4. idx = EntriesOf(fs)
      BY <3>1, <3>2, <3>3
    <3>5. [k \in DOMAIN idx |->
             {fs[i] : i \in {j \in {i \in DOMAIN fs :
                                      HeaderSize + RoomOfFirst(fs)[i - 1]
                                        = idx[k].at} :
                               /\ fs[j].size = idx[k].size
                               /\ fs[j].kind = idx[k].kind}}]
            = Singles(fs)
      BY <3>4, ShownByIndex
    <3>6. Shown' = ByIndex'
      BY <2>1 DEF Shown
    <3>7. ByIndex' = Singles(fs)
      BY <3>1, <3>2, <3>5
      DEF ByIndex, FoundAt, HeaderSize, RoomOfFirst, Room
    <3> QED
      BY <2>1, <3>1, <3>6, <3>7
  <2>3. Shown # <<>>
    <3>1. data # <<>> \/ buffer # <<>>
      BY <1>1, <2>1 DEF AviInv, KeyKept, FilmInv, Accounted
    <3>2. Taken # <<>>
      BY <3>1, ConcatFacts DEF AviInv, TypeOK, Taken
    <3> QED
      BY <1>2, <1>3, <3>2, SinglesEmpty
  <2>4. Made = "open" /\ Made' = "done"
    BY <2>1 DEF Made
  <2> QED
    BY <1>2, <2>2, <2>3, <2>4 DEF F!FilmNext, F!Finish
<1> QED
  BY <1>1, <1>4, <1>5, <1>6

(* avi_record_write_extend, avi_record_nornal_close: until a write fails   *)
(* the file implements the film of whoever plays it: the frames handed     *)
(* over that found room, in order and each once, and through the index of  *)
(* the finished file the same film again.                                  *)
THEOREM ImplementsFilm == Spec => IsAFilm
<1>1. Init => F!FilmInit
  <2> SUFFICES ASSUME Init PROVE F!FilmInit
    OBVIOUS
  <2>1. phase = "none" /\ data = <<>> /\ buffer = <<>>
    BY DEF Init
  <2>2. data \o buffer = <<>>
    BY <2>1
  <2> QED
    BY <2>1, <2>2, SinglesOfNone DEF Shown, Made, F!FilmInit
<1>2. AviInv /\ FilmInv /\ [Next]_aviVars
        => [faults' = 0 => [F!FilmNext]_<<Shown, Made>>]_aviVars
  BY FilmStep
<1> QED
  BY <1>1, <1>2, AviInvariant, FilmInvariant, PTL DEF Spec, IsAFilm
==============================================================================

--------------------------- MODULE CloudUploadProofs ---------------------------
(***************************************************************************)
(* Proofs about the uploads to the cloud, for every number of failures and *)
(* early answers: the threads of two modes never run beside each other,    *)
(* and an alarm thread that waits can still be answered.                   *)
(***************************************************************************)
EXTENDS CloudUpload, TLAPS

(* A thread there is belongs to a flag that is set or is being joined, and *)
(* a mode is entered only when the thread of the other is gone.            *)
Joins ==
  /\ realtime # "none" => realtimeRun \/ changing = "joinRealtime"
  /\ alarm # "none" => alarmRun \/ changing = "joinAlarm"
  /\ changing = "joinAlarm" => ~alarmRun
  /\ changing = "joinRealtime" => ~realtimeRun
  /\ changing = "enter" /\ mode = "realtime" => alarm = "none"
  /\ changing = "enter" /\ mode = "alarm" => realtime = "none"
  /\ OneMode

(* A film that was handed over is answered later, or was answered early.   *)
Answered ==
  early = 0 =>
    /\ alarm = "handedOver" => pending
    /\ alarm \in {"looping", "asleep"} /\ ~uploaded => pending

CloudInv == CloudTypeOK /\ Joins /\ Answered

LEMMA InitCloud == CloudInit => CloudInv
<1> SUFFICES ASSUME CloudInit PROVE CloudInv
  OBVIOUS
<1>1. CloudTypeOK
  <2>1. cloudFaults \in 0 .. MaxCloudFaults /\ early \in Nat
    <3>1. cloudFaults = 0 /\ early = 0
      BY DEF CloudInit
    <3> QED
      BY <3>1, CloudAssumption
  <2>2. mode \in Modes
    BY DEF CloudInit, Modes
  <2> QED
    BY <2>1, <2>2 DEF CloudInit, CloudTypeOK
<1>2. Joins /\ Answered
  BY DEF CloudInit, Joins, Answered, OneMode
<1> QED
  BY <1>1, <1>2 DEF CloudInv

LEMMA ModeKeeps ==
  ASSUME CloudInv, (\E m \in Modes : ModeChanged(m)) \/ ModeCallback
  PROVE  CloudInv'
<1>1. CloudTypeOK /\ Joins /\ Answered
  BY DEF CloudInv
<1>2. CASE \E m \in Modes : ModeChanged(m)
  <2>1. PICK m \in Modes : ModeChanged(m)
    BY <1>2
  <2>2. CloudTypeOK'
    BY <1>1, <2>1 DEF ModeChanged, CloudTypeOK, runVars, threadVars, fileVars
  <2>3. Joins' /\ Answered'
    BY <1>1, <2>1 DEF ModeChanged, Joins, Answered, OneMode, runVars,
                      threadVars, fileVars
  <2> QED
    BY <2>2, <2>3 DEF CloudInv
<1>3. CASE LeaveRealtime \/ LeaveAlarm
  <2>1. CloudTypeOK'
    BY <1>1, <1>3 DEF LeaveRealtime, LeaveAlarm, CloudTypeOK, threadVars,
                      fileVars
  <2>2. Joins' /\ Answered'
    BY <1>1, <1>3 DEF LeaveRealtime, LeaveAlarm, CloudTypeOK, Joins, Answered,
                      OneMode, threadVars, fileVars
  <2> QED
    BY <2>1, <2>2 DEF CloudInv
<1>4. CASE JoinRealtime \/ JoinAlarm
  <2>1. CloudTypeOK'
    BY <1>1, <1>4 DEF JoinRealtime, JoinAlarm, CloudTypeOK, runVars, fileVars
  <2>2. Joins' /\ Answered'
    BY <1>1, <1>4 DEF JoinRealtime, JoinAlarm, CloudTypeOK, Joins, Answered,
                      OneMode, runVars, fileVars
  <2> QED
    BY <2>1, <2>2 DEF CloudInv
<1>5. CASE EnterRealtime \/ EnterAlarm
  <2>1. CloudTypeOK'
    BY <1>1, <1>5 DEF EnterRealtime, EnterAlarm, CloudTypeOK, fileVars
  <2>2. Joins' /\ Answered'
    BY <1>1, <1>5 DEF EnterRealtime, EnterAlarm, CloudTypeOK, Joins, Answered,
                      OneMode, fileVars
  <2> QED
    BY <2>1, <2>2 DEF CloudInv
<1>6. CASE EnterFails
  <2>1. /\ cloudFaults' \in 0 .. MaxCloudFaults /\ changing' = "no"
        /\ changing = "enter"
        /\ UNCHANGED <<realtimeRun, alarmRun, realtime, alarm, mode, uploaded,
                       pending, early>>
    BY <1>1, <1>6, CloudAssumption DEF EnterFails, CloudFault, CloudTypeOK,
       runVars, threadVars, fileVars
  <2>2. CloudTypeOK'
    BY <1>1, <2>1 DEF CloudTypeOK
  <2>3. Joins' /\ Answered'
    BY <1>1, <2>1 DEF Joins, Answered, OneMode
  <2> QED
    BY <2>2, <2>3 DEF CloudInv
<1> QED
  BY <1>2, <1>3, <1>4, <1>5, <1>6 DEF ModeCallback

LEMMA ThreadsKeep ==
  ASSUME CloudInv, RealtimeEnds \/ AlarmThread
  PROVE  CloudInv'
<1>1. CloudTypeOK /\ Joins /\ Answered
  BY DEF CloudInv
<1>2. CASE RealtimeEnds
  <2>1. CloudTypeOK'
    BY <1>1, <1>2 DEF RealtimeEnds, CloudTypeOK, runVars, fileVars
  <2>2. Joins' /\ Answered'
    BY <1>1, <1>2 DEF RealtimeEnds, Joins, Answered, OneMode, runVars, fileVars
  <2> QED
    BY <2>1, <2>2 DEF CloudInv
<1>3. CASE AlarmThread
  <2>1. /\ UNCHANGED <<realtimeRun, alarmRun, realtime, mode, changing, early>>
        /\ alarm # "none" /\ alarm' # "none"
        /\ alarm' \in {"looping", "asleep", "handedOver", "done"}
    BY <1>3 DEF AlarmThread, AlarmBegins, AlarmSleeps, AlarmEnds, NotYet,
       HandOver, Refused, Waits, AlarmRest, runVars, fileVars
  <2>2. cloudFaults' \in 0 .. MaxCloudFaults
    BY <1>1, <1>3, CloudAssumption DEF AlarmThread, AlarmBegins, AlarmSleeps,
       AlarmEnds, NotYet, HandOver, Refused, Waits, CloudFault, CloudTypeOK
  <2>3. uploaded' \in BOOLEAN /\ pending' \in BOOLEAN
    BY <1>1, <1>3 DEF AlarmThread, AlarmBegins, AlarmSleeps,
       AlarmEnds, NotYet, HandOver, Refused, Waits, CloudTypeOK, fileVars
  <2>4. CloudTypeOK'
    BY <1>1, <2>1, <2>2, <2>3 DEF CloudTypeOK
  <2>5. Joins'
    BY <1>1, <2>1 DEF Joins, OneMode
  <2>6. Answered'
    BY <1>1, <1>3, <2>1 DEF Answered, AlarmThread, AlarmBegins, AlarmSleeps,
       AlarmEnds, NotYet, HandOver, Refused, Waits, fileVars
  <2> QED
    BY <2>4, <2>5, <2>6 DEF CloudInv
<1> QED
  BY <1>2, <1>3

LEMMA AnswerKeeps ==
  ASSUME CloudInv, Answer
  PROVE  CloudInv'
<1>1. CloudTypeOK /\ Joins /\ Answered
  BY DEF CloudInv
<1>2. /\ pending' = FALSE /\ uploaded' = TRUE
      /\ early' = IF alarm = "handedOver" THEN early + 1 ELSE early
      /\ UNCHANGED <<realtimeRun, alarmRun, realtime, alarm, mode, changing,
                     cloudFaults>>
  BY DEF Answer, runVars, threadVars
<1>3. early \in Nat
  BY <1>1 DEF CloudTypeOK
<1>4. CloudTypeOK'
  <2>1. early' \in Nat
    BY <1>2, <1>3
  <2>2. pending' \in BOOLEAN /\ uploaded' \in BOOLEAN
    BY <1>2
  <2> QED
    BY <1>1, <1>2, <2>1, <2>2 DEF CloudTypeOK
<1>5. Joins'
  BY <1>1, <1>2 DEF Joins, OneMode
<1>6. early' = 0 => alarm' # "handedOver"
  BY <1>2, <1>3
<1>7. Answered'
  BY <1>2, <1>6 DEF Answered
<1> QED
  BY <1>4, <1>5, <1>7 DEF CloudInv

(* Whatever the library tells: old threads are joined first, and who waits *)
(* can still be answered.                                                  *)
THEOREM CloudInvariant == CloudSpec => []CloudInv
<1>1. CloudInv /\ UNCHANGED cloudVars => CloudInv'
  <2> SUFFICES ASSUME CloudInv, UNCHANGED cloudVars PROVE CloudInv'
    OBVIOUS
  <2>1. UNCHANGED <<realtimeRun, alarmRun, realtime, alarm, mode, changing,
                    uploaded, pending, early, cloudFaults>>
    BY DEF cloudVars, runVars, threadVars, fileVars
  <2> QED
    BY <2>1 DEF CloudInv, CloudTypeOK, Joins, Answered, OneMode
<1>2. CloudInv /\ [CloudNext]_cloudVars => CloudInv'
  BY <1>1, ModeKeeps, ThreadsKeep, AnswerKeeps DEF CloudNext
<1> QED
  BY <1>2, InitCloud, PTL DEF CloudSpec

(* The mode callback joins the old thread before it creates the new one,   *)
(* and the answer to the last film can still come when it is waited for.   *)
THEOREM DanaUploadsSound == CloudSpec => []UploadsSound
<1>1. CloudInv => UploadsSound
  BY DEF CloudInv, UploadsSound, AlarmsGoOn, Answered, Joins
<1> QED
  BY <1>1, CloudInvariant, PTL
==============================================================================

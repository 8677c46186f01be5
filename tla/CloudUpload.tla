----------------------------- MODULE CloudUpload ------------------------------
(***************************************************************************)
(* What the camera uploads to the cloud (testdanavideo.c): nothing, the    *)
(* live stream, or a film per alarm.  The library tells the mode; its      *)
(* callback joins the thread of the old one before it creates that of the  *)
(* new.  The alarm thread uploads one film at a time and learns from a     *)
(* second callback that it has arrived.                                    *)
(***************************************************************************)
EXTENDS Integers

CONSTANTS
  MaxEarly,        \* bound: answers that come before the thread waits
  MaxCloudFaults   \* bound: failures of the library and of threads

ASSUME CloudAssumption == MaxEarly \in Nat /\ MaxCloudFaults \in Nat

VARIABLES
  realtimeRun, alarmRun,  \* run_realtime_upload, run_alarm_upload
  realtime,     \* th_realtime_upload: none, live or done
  alarm,        \* th_alarm_upload: none, created, looping, asleep, with a
                \* film handedOver, done
  mode,         \* what the mode callback was told last
  changing,     \* where the mode callback is
  uploaded,     \* alarm_cloud_last_file_uploaded
  pending,      \* the last film is not answered yet
  early,        \* history: answers before the thread waited
  cloudFaults   \* history: failures

runVars == <<realtimeRun, alarmRun>>
threadVars == <<realtime, alarm>>
fileVars == <<uploaded, pending, early>>

cloudVars == <<runVars, threadVars, mode, changing, fileVars, cloudFaults>>

Modes == {"unknown", "realtime", "alarm"}

CloudInit ==
  /\ realtimeRun = FALSE /\ alarmRun = FALSE
  /\ realtime = "none" /\ alarm = "none"
  /\ mode = "unknown" /\ changing = "no"
  /\ uploaded = FALSE /\ pending = FALSE
  /\ early = 0 /\ cloudFaults = 0

CloudFault ==
  cloudFaults < MaxCloudFaults /\ cloudFaults' = cloudFaults + 1

------------------------------------------------------------------------------
(* danavideo_cloud_mode_changed_callback                                   *)

(* The mode that is left first; no mode leaves both.                       *)
ModeChanged(m) ==
  /\ changing = "no"
  /\ mode' = m
  /\ changing' = IF m = "realtime" THEN "leaveAlarm" ELSE "leaveRealtime"
  /\ UNCHANGED <<runVars, threadVars, fileVars, cloudFaults>>

(* danavideo_cloud_leave_realtime_upload clears the flag ...               *)
LeaveRealtime ==
  /\ changing = "leaveRealtime"
  /\ realtimeRun' = FALSE
  /\ changing' = IF realtimeRun THEN "joinRealtime"
                 ELSE IF mode = "alarm" THEN "enter" ELSE "leaveAlarm"
  /\ UNCHANGED <<alarmRun, threadVars, mode, fileVars, cloudFaults>>

(* ... and waits for the thread.                                           *)
JoinRealtime ==
  /\ changing = "joinRealtime" /\ realtime = "done"
  /\ realtime' = "none"
  /\ changing' = IF mode = "alarm" THEN "enter" ELSE "leaveAlarm"
  /\ UNCHANGED <<runVars, alarm, mode, fileVars, cloudFaults>>

(* Mutant: the alarm thread is told to end but not waited for.             *)
LeaveAlarmUnjoined ==
  /\ changing = "leaveAlarm"
  /\ alarmRun' = FALSE
  /\ changing' = IF mode = "realtime" THEN "enter" ELSE "no"
  /\ UNCHANGED <<realtimeRun, threadVars, mode, fileVars, cloudFaults>>

LeaveAlarm ==
  /\ changing = "leaveAlarm"
  /\ alarmRun' = FALSE
  /\ changing' = IF alarmRun THEN "joinAlarm"
                 ELSE IF mode = "realtime" THEN "enter" ELSE "no"
  /\ UNCHANGED <<realtimeRun, threadVars, mode, fileVars, cloudFaults>>

JoinAlarm ==
  /\ changing = "joinAlarm" /\ alarm = "done"
  /\ alarm' = "none"
  /\ changing' = IF mode = "realtime" THEN "enter" ELSE "no"
  /\ UNCHANGED <<runVars, realtime, mode, fileVars, cloudFaults>>

EnterRealtime ==
  /\ changing = "enter" /\ mode = "realtime"
  /\ realtimeRun' = TRUE
  /\ realtime' = IF realtimeRun THEN realtime ELSE "live"
  /\ changing' = "no"
  /\ UNCHANGED <<alarmRun, alarm, mode, fileVars, cloudFaults>>

EnterAlarm ==
  /\ changing = "enter" /\ mode = "alarm"
  /\ alarmRun' = TRUE
  /\ alarm' = IF alarmRun THEN alarm ELSE "created"
  /\ changing' = "no"
  /\ UNCHANGED <<realtimeRun, realtime, mode, fileVars, cloudFaults>>

(* The library refuses, or the thread cannot be created.                   *)
EnterFails ==
  /\ changing = "enter" /\ CloudFault
  /\ IF mode = "realtime" THEN ~realtimeRun ELSE ~alarmRun
  /\ changing' = "no"
  /\ UNCHANGED <<runVars, threadVars, mode, fileVars>>

ModeCallback ==
  \/ LeaveRealtime \/ JoinRealtime \/ LeaveAlarm \/ JoinAlarm
  \/ EnterRealtime \/ EnterAlarm \/ EnterFails

------------------------------------------------------------------------------
(* th_realtime_upload and th_alarm_upload                                  *)

RealtimeEnds ==
  /\ realtime = "live" /\ ~realtimeRun
  /\ realtime' = "done"
  /\ UNCHANGED <<runVars, alarm, mode, changing, fileVars, cloudFaults>>

AlarmRest == UNCHANGED <<runVars, realtime, mode, changing>>

AlarmBegins ==
  /\ alarm = "created"
  /\ alarm' = "looping"
  /\ uploaded' = TRUE
  /\ UNCHANGED <<pending, early, cloudFaults>> /\ AlarmRest

(* The flag is looked at before every sleep.                               *)
AlarmSleeps ==
  /\ alarm = "looping" /\ alarmRun
  /\ alarm' = "asleep"
  /\ UNCHANGED <<fileVars, cloudFaults>> /\ AlarmRest

AlarmEnds ==
  /\ alarm = "looping" /\ ~alarmRun
  /\ alarm' = "done"
  /\ UNCHANGED <<fileVars, cloudFaults>> /\ AlarmRest

(* The last film is not answered yet.                                      *)
NotYet ==
  /\ alarm = "asleep" /\ ~uploaded
  /\ alarm' = "looping"
  /\ UNCHANGED <<fileVars, cloudFaults>> /\ AlarmRest

(* A new film gets a name of its own: the answer to an older one is not    *)
(* recognized any more.                                                    *)
HandOver ==
  /\ alarm = "asleep" /\ uploaded
  /\ alarm' = "handedOver"
  /\ pending' = TRUE
  /\ UNCHANGED <<uploaded, early, cloudFaults>> /\ AlarmRest

(* Refused: the name is forgotten, the next film follows.                  *)
Refused ==
  /\ alarm = "asleep" /\ uploaded /\ CloudFault
  /\ alarm' = "looping"
  /\ pending' = FALSE
  /\ UNCHANGED <<uploaded, early>> /\ AlarmRest

(* Only now it says that it waits, whether or not the answer was there.    *)
Waits ==
  /\ alarm = "handedOver"
  /\ alarm' = "looping"
  /\ uploaded' = FALSE
  /\ UNCHANGED <<pending, early, cloudFaults>> /\ AlarmRest

AlarmThread ==
  \/ AlarmBegins \/ AlarmSleeps \/ AlarmEnds
  \/ NotYet \/ HandOver \/ Refused \/ Waits

(* alarm_cloud_upload_callback, from a thread of the library.              *)
Answer ==
  /\ pending
  /\ pending' = FALSE
  /\ uploaded' = TRUE
  /\ early' = IF alarm = "handedOver" THEN early + 1 ELSE early
  /\ alarm = "handedOver" => early < MaxEarly
  /\ UNCHANGED <<runVars, threadVars, mode, changing, cloudFaults>>

------------------------------------------------------------------------------
CloudNext ==
  \/ \E m \in Modes : ModeChanged(m)
  \/ ModeCallback \/ RealtimeEnds \/ AlarmThread \/ Answer

CloudSpec == CloudInit /\ [][CloudNext]_cloudVars

(* The threads and the callback go on; the library may never answer.       *)
CloudFairness ==
  /\ WF_cloudVars(ModeCallback)
  /\ WF_cloudVars(RealtimeEnds) /\ WF_cloudVars(AlarmThread)

------------------------------------------------------------------------------
(* Properties.                                                             *)

CloudTypeOK ==
  /\ realtimeRun \in BOOLEAN /\ alarmRun \in BOOLEAN
  /\ realtime \in {"none", "live", "done"}
  /\ alarm \in {"none", "created", "looping", "asleep", "handedOver", "done"}
  /\ mode \in Modes
  /\ changing \in {"no", "leaveRealtime", "joinRealtime", "leaveAlarm",
                   "joinAlarm", "enter"}
  /\ uploaded \in BOOLEAN /\ pending \in BOOLEAN
  /\ early \in Nat /\ cloudFaults \in 0 .. MaxCloudFaults

(* The threads of the two modes never run beside each other.               *)
OneMode == realtime = "none" \/ alarm = "none"

(* An alarm thread that waits for an answer can still get it, unless one   *)
(* came while it was about to wait.                                        *)
AlarmsGoOn ==
  alarm \in {"looping", "asleep"} /\ ~uploaded /\ early = 0 => pending

UploadsSound == CloudTypeOK /\ OneMode /\ AlarmsGoOn

CallbackReturns == changing # "no" ~> changing = "no"
==============================================================================

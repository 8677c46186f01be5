--------------------------- MODULE RecordControl -----------------------------
(***************************************************************************)
(* Who starts and stops the normal recording, and who is recording.  The   *)
(* cloud's recording plan (the command of the app, the plan thread that    *)
(* watches the clock, the thread that follows both), the thread that       *)
(* watches the SD card, and a format of the card all start and stop        *)
(* recorder threads through one flag, g_normal_status, which the recorders *)
(* themselves set and clear.  Nobody waits for a recorder to end: a stop   *)
(* clears the flag and sleeps for a second.                                *)
(*                                                                         *)
(* Event recordings are left out: this build compiles neither the PIR nor  *)
(* the motion event that would trigger one.  A recorder goes round its     *)
(* loop in one step; what it writes is the business of AviFile.            *)
(***************************************************************************)
EXTENDS Integers, FiniteSets

CONSTANTS
  Recorders,    \* threads that run normal_record_thread
  Days,         \* the days of the week
  Hours,        \* the times of day, as numbers
  Plans,        \* the plans that may be saved or set
  MaxOverruns,  \* bound: sleeps that end before the recorders have caught up
  MaxTroubles,  \* bound: pulled cards, formats, files that cannot be created
  MaxPlans,     \* bound: plans the app sets
  MaxTicks      \* bound: steps of the clock

Types == {"no", "full", "alarm"}

ASSUME RecordControlAssumption ==
  /\ IsFiniteSet(Recorders)
  /\ Hours \subseteq Nat /\ Hours # {}
  /\ Plans \subseteq
       [type : Types, days : SUBSET Days, begin : Hours, end : Hours]
  /\ MaxOverruns \in Nat /\ MaxTroubles \in Nat \ {0}
  /\ MaxPlans \in Nat /\ MaxTicks \in Nat

VARIABLES
  rec,       \* where each recorder is: none, starting (created, the flag not
             \* yet set), idle (in the loop, no file), filming, leaving
  status,    \* g_normal_status: shall be recorded
  slot,      \* a card is in the slot
  mounted,   \* and its file system is mounted
  card,      \* /var/log/has_sd_card exists
  unusable,  \* g_sd_tats < 0
  sd,        \* the card thread: polling, or in which sleep
  resume,    \* its tmp_normal_record: it stopped a recording
  fmt,       \* where the format command is
  formatted, \* g_format_SDcard = 1
  formating, \* SD_CARD_FORMATING
  dana,      \* dana_recordstatus_thread: round, or in which sleep
  last,      \* record_last_status: what it acted on last
  flags,     \* record_flags: what it shall act on
  plan,      \* SHCEDULE_PLAN_RECODER: the clock is inside the plan
  saved,     \* the plan in the saved parameters
  command,   \* the plan command: none, or what it has yet to store
  click,     \* GET_DANA_SET_RECPLAN_CLICK or GET_DANA_SET_TIME_CLICK is 1
  cfg,       \* the clock thread's FLAG (is today planned?) and span, cached
  late,      \* it found the span over and has yet to clear record_flags
  now,       \* the clock: set since the boot, day of the week, time of day
  deaf,      \* history: recorders the stop of a format did not reach
  overruns,  \* history: sleeps that were too short
  troubles,  \* history: missing or pulled cards, formats, files not created
  plans,     \* history: plans set
  ticks      \* history: steps of the clock

cardVars == <<slot, mounted, card, unusable>>
sdVars == <<sd, resume>>
fmtVars == <<fmt, formatted, formating>>
planVars == <<flags, plan, saved, command, click, cfg, late, now>>
history == <<deaf, overruns, troubles, plans, ticks>>

recordVars ==
  <<rec, status, cardVars, sdVars, fmtVars, dana, last, planVars, history>>

Alive == {r \in Recorders : rec[r] # "none"}
Running == {r \in Recorders : rec[r] \in {"idle", "filming"}}
Filming == {r \in Recorders : rec[r] = "filming"}

(* get_param_recoder_cfg on a day: FLAG is CURRENTTIME_IN_WEEKPLAN if the   *)
(* saved plan names it, and one of three that are treated alike otherwise. *)
(* Without a type or a day, the span is left as it was.                    *)
Param(day, span) ==
  IF saved.type = "no" \/ saved.days = {}
    THEN [span EXCEPT !.today = FALSE]
    ELSE [today |-> day \in saved.days,
          begin |-> saved.begin, end |-> saved.end]

(* main: the parameters give the plan, the card may be in and mounted.  The *)
(* clock is in 1970, on some day of the week: FLAG is computed for it.     *)
Init ==
  /\ rec = [r \in Recorders |-> "none"] /\ status = 0
  /\ slot \in BOOLEAN /\ card = slot /\ unusable = FALSE
  /\ mounted \in BOOLEAN /\ (mounted => slot)
  /\ sd = "poll" /\ resume = FALSE
  /\ fmt = "none" /\ formatted = FALSE /\ formating = FALSE
  /\ dana = "poll" /\ last = "no"
  /\ saved \in Plans /\ flags = saved.type
  /\ plan = FALSE /\ command = "none" /\ click = FALSE /\ late = FALSE
  /\ now \in [set : {FALSE}, day : Days, hour : Hours]
  /\ \E midnight \in Hours :
       cfg = Param(now.day,
                   [today |-> FALSE, begin |-> midnight, end |-> midnight])
  /\ troubles = IF mounted THEN 0 ELSE 1
  /\ deaf = {} /\ overruns = 0 /\ plans = 0 /\ ticks = 0

Trouble ==
  troubles < MaxTroubles /\ troubles' = troubles + 1

(* Every recorder has set the flag, or seen that it is cleared.            *)
Settled ==
  /\ \A r \in Alive : rec[r] \notin {"starting", "leaving"}
  /\ status = 0 => Running = {}

(* A sleep of the other threads ends.  The recorders had the time to get   *)
(* that far, or the sleep counts as an overrun.                            *)
SleepEnds ==
  \/ Settled /\ UNCHANGED overruns
  \/ ~Settled /\ overruns < MaxOverruns /\ overruns' = overruns + 1

------------------------------------------------------------------------------
(* normal_record_thread                                                    *)

GoTo(r, place) == rec' = [rec EXCEPT ![r] = place]

RecorderRest == UNCHANGED <<cardVars, sdVars, fmtVars, dana, last, planVars>>

(* It sets the flag itself, whatever was asked for since it was created:   *)
(* who has not yet seen that the flag was cleared will not see it any more. *)
Begin(r) ==
  /\ rec[r] = "starting"
  /\ GoTo(r, "idle")
  /\ status' = 1
  /\ deaf' = IF status = 0 THEN deaf \cup Running ELSE deaf
  /\ UNCHANGED <<overruns, troubles, plans, ticks>> /\ RecorderRest

(* The next key frame opens a file.                                        *)
Open(r) ==
  /\ rec[r] = "idle" /\ status = 1 /\ ~unusable
  /\ GoTo(r, "filming")
  /\ UNCHANGED <<status, history>> /\ RecorderRest

(* No file can be created: the card thread has written the card off, no    *)
(* card is mounted where the file should go, or its file system refuses.   *)
(* The recorder leaves its loop.                                           *)
OpenFails(r) ==
  /\ rec[r] = "idle" /\ status = 1
  /\ \/ (unusable \/ ~mounted) /\ UNCHANGED troubles
     \/ ~unusable /\ mounted /\ Trouble
  /\ GoTo(r, "leaving")
  /\ UNCHANGED <<status, deaf, overruns, plans, ticks>> /\ RecorderRest

(* The file is long enough: closed at a key frame, opened at the next.     *)
Rotate(r) ==
  /\ rec[r] = "filming" /\ status = 1
  /\ GoTo(r, "idle")
  /\ UNCHANGED <<status, history>> /\ RecorderRest

(* The flag is cleared: out of the loop, to close the file.                *)
Leave(r) ==
  /\ r \in Running /\ status = 0
  /\ GoTo(r, "leaving")
  /\ UNCHANGED <<status, history>> /\ RecorderRest

(* Mutant: the flag counts the recorders.                                  *)
EndCounted(r) ==
  /\ rec[r] = "leaving"
  /\ GoTo(r, "none")
  /\ status' = status - 1
  /\ deaf' = deaf \ {r}
  /\ UNCHANGED <<overruns, troubles, plans, ticks>> /\ RecorderRest

(* The thread clears the flag itself before it ends.                       *)
End(r) ==
  /\ rec[r] = "leaving"
  /\ GoTo(r, "none")
  /\ status' = 0
  /\ deaf' = deaf \ {r}
  /\ UNCHANGED <<overruns, troubles, plans, ticks>> /\ RecorderRest

Recorder(r) ==
  Begin(r) \/ Open(r) \/ OpenFails(r) \/ Rotate(r) \/ Leave(r) \/ End(r)

------------------------------------------------------------------------------
(* st_record_start and st_record_stop, without the sleep of the latter     *)

CreateRecorder ==
  LET r == CHOOSE r \in Recorders : rec[r] = "none" IN
    /\ Alive # Recorders
    /\ GoTo(r, "starting")
    /\ deaf' = deaf \cup {r}

(* Mutant: start_normal_record_stream does not look at the flag.           *)
StartAnyway ==
  IF card THEN CreateRecorder ELSE UNCHANGED <<rec, deaf>>

(* Nothing without a card, nothing while somebody is recording.            *)
StartNormal ==
  IF card /\ status = 0 THEN CreateRecorder ELSE UNCHANGED <<rec, deaf>>

StopNormal == status' = 0

------------------------------------------------------------------------------
(* thread_sd_card_detecte                                                  *)

SdRest == UNCHANGED <<slot, mounted, card, fmt, formating, dana, last, planVars,
                      troubles, plans, ticks>>

(* A format was asked for: what was recorded before is forgotten.          *)
SdForget ==
  /\ sd = "poll" /\ ~formating /\ formatted
  /\ formatted' = FALSE
  /\ unusable' = TRUE
  /\ resume' = FALSE
  /\ sd' = "formatSleep"
  /\ UNCHANGED <<rec, status, deaf, overruns>> /\ SdRest

SdLooks ==
  \/ sd = "poll" /\ ~formating /\ ~formatted
  \/ sd = "formatSleep"

(* No card: the next step stops who is recording.                          *)
SdNoCard ==
  /\ SdLooks /\ ~card
  /\ unusable' = TRUE
  /\ sd' = "noCard"
  /\ UNCHANGED <<rec, status, resume, formatted, deaf, overruns>> /\ SdRest

(* Mutant: the interrupted recording is only remembered until the next     *)
(* round.                                                                  *)
SdStopForgetful ==
  /\ sd = "noCard"
  /\ resume' = (status = 1)
  /\ IF status = 1 THEN StopNormal /\ sd' = "stopSleep"
                   ELSE UNCHANGED status /\ sd' = "poll"
  /\ UNCHANGED <<rec, unusable, formatted, deaf, overruns>> /\ SdRest

SdStop ==
  /\ sd = "noCard"
  /\ IF status = 1 THEN StopNormal /\ resume' = TRUE /\ sd' = "stopSleep"
                   ELSE UNCHANGED <<status, resume>> /\ sd' = "poll"
  /\ UNCHANGED <<rec, unusable, formatted, deaf, overruns>> /\ SdRest

(* A card: a recording it stopped is started again 3 s later.              *)
SdCard ==
  /\ SdLooks /\ card
  /\ unusable' = FALSE
  /\ sd' = IF resume THEN "resumeSleep" ELSE "poll"
  /\ UNCHANGED <<rec, status, resume, formatted, deaf, overruns>> /\ SdRest

SdResume ==
  /\ sd = "resumeSleep"
  /\ SleepEnds
  /\ resume' = FALSE
  /\ StartNormal
  /\ sd' = "pause"
  /\ UNCHANGED <<status, unusable, formatted>> /\ SdRest

(* The second of a stop and the pause between two rounds.                  *)
SdWake ==
  /\ sd \in {"stopSleep", "pause"}
  /\ SleepEnds
  /\ sd' = "poll"
  /\ UNCHANGED <<rec, status, unusable, resume, formatted, deaf>> /\ SdRest

SdThread == SdForget \/ SdNoCard \/ SdStop \/ SdCard \/ SdResume \/ SdWake

------------------------------------------------------------------------------
(* dana_recordstatus_thread, one round a second                            *)

DanaRest == UNCHANGED <<cardVars, sdVars, fmtVars, planVars, troubles, plans,
                        ticks>>

Wanted ==
  IF flags = "no" \/ ~plan THEN "no" ELSE flags

(* From full time to none or to alarms only.                               *)
DanaStop ==
  /\ dana = "poll"
  /\ last = "full" /\ Wanted # "full"
  /\ StopNormal
  /\ dana' = IF Wanted = "no" THEN "toNo" ELSE "toAlarm"
  /\ UNCHANGED <<rec, last, deaf, overruns>> /\ DanaRest

(* The second of the stop is over and the new status is stored.            *)
DanaStopped ==
  /\ dana \in {"toNo", "toAlarm"}
  /\ SleepEnds
  /\ last' = IF dana = "toNo" THEN "no" ELSE "alarm"
  /\ dana' = "pause"
  /\ UNCHANGED <<rec, status, deaf>> /\ DanaRest

(* Mutant: from alarms only to full time just the status is stored.        *)
DanaStartFromNo ==
  /\ dana = "poll"
  /\ last # "full" /\ Wanted = "full"
  /\ IF last = "no" THEN StartNormal ELSE UNCHANGED <<rec, deaf>>
  /\ last' = "full"
  /\ dana' = "pause"
  /\ UNCHANGED <<status, overruns>> /\ DanaRest

(* To full time, whether or not the start does anything.                   *)
DanaStart ==
  /\ dana = "poll"
  /\ last # "full" /\ Wanted = "full"
  /\ StartNormal
  /\ last' = "full"
  /\ dana' = "pause"
  /\ UNCHANGED <<status, overruns>> /\ DanaRest

(* Between none and alarms only: nothing is recorded by this thread.       *)
DanaSwitch ==
  /\ dana = "poll"
  /\ last # "full" /\ Wanted \notin {"full", last}
  /\ last' = Wanted
  /\ dana' = "pause"
  /\ UNCHANGED <<rec, status, deaf, overruns>> /\ DanaRest

DanaWake ==
  /\ dana = "pause"
  /\ SleepEnds
  /\ dana' = "poll"
  /\ UNCHANGED <<rec, status, last, deaf>> /\ DanaRest

DanaThread ==
  DanaStop \/ DanaStopped \/ DanaStart \/ DanaSwitch \/ DanaWake

------------------------------------------------------------------------------
(* The plan: DANAVIDEOCMD_RECPLANSET, DANAVIDEOCMD_SETTIME and             *)
(* shcedule_is_recorde_thread, one round every ten seconds                 *)

PlanRest == UNCHANGED <<rec, status, cardVars, sdVars, fmtVars, dana, last,
                        deaf, overruns, troubles>>

(* The app sets a plan.  First the parameters are saved ...                *)
RecPlanSet(new) ==
  /\ command = "none" /\ plans < MaxPlans
  /\ plans' = plans + 1
  /\ saved' = new
  /\ command' = "click"
  /\ UNCHANGED <<flags, plan, click, cfg, late, now, ticks>> /\ PlanRest

(* ... then the clock thread is told, and may look at once ...             *)
RecPlanClick ==
  /\ command = "click"
  /\ click' = TRUE
  /\ command' = "flags"
  /\ UNCHANGED <<flags, plan, saved, cfg, late, now, plans, ticks>> /\ PlanRest

(* ... then the type is stored, over whatever was stored meanwhile.        *)
RecPlanFlags ==
  /\ command = "flags"
  /\ flags' = saved.type
  /\ command' = "none"
  /\ UNCHANGED <<plan, saved, click, cfg, late, now, plans, ticks>> /\ PlanRest

Command == RecPlanClick \/ RecPlanFlags

(* The app sets the time.  The script that changes the time zone runs in   *)
(* the background: the clock moves before the click or after it.           *)
SetTime ==
  /\ command = "none"
  /\ click' = TRUE
  /\ UNCHANGED <<flags, plan, saved, command, cfg, late, now, plans, ticks>>
  /\ PlanRest

(* IsInTimeSpan: both ends belong to it, and it may go over midnight.      *)
IsInTimeSpan(hour, span) ==
  IF span.begin <= span.end
    THEN span.begin <= hour /\ hour <= span.end
    ELSE span.begin <= hour \/ hour <= span.end

(* Mutant: the click is not looked at.                                     *)
LookedStale == cfg

(* FLAG and span that the round acts on: the cached ones, unless the app   *)
(* has clicked.                                                            *)
Looked == IF click THEN Param(now.day, cfg) ELSE cfg

PlanRound ==
  /\ ~late
  /\ UNCHANGED <<flags, saved, command, now, plans, ticks>> /\ PlanRest

(* The year is before 2017.                                                *)
PlanUnset ==
  /\ ~now.set
  /\ plan' = FALSE
  /\ UNCHANGED <<click, cfg, late>> /\ PlanRound

(* Today was not planned: it looks again, for the next round.  The type    *)
(* stays what it is.                                                       *)
PlanOff ==
  /\ now.set /\ ~Looked.today
  /\ plan' = FALSE
  /\ click' = FALSE /\ cfg' = Param(now.day, cfg)
  /\ UNCHANGED late /\ PlanRound

(* Today was planned when it last looked, and the time is in the span.     *)
PlanIn ==
  /\ now.set /\ Looked.today /\ IsInTimeSpan(now.hour, Looked)
  /\ plan' = TRUE
  /\ click' = FALSE /\ cfg' = Looked
  /\ UNCHANGED late /\ PlanRound

(* The time is not in the span ...                                         *)
PlanOut ==
  /\ now.set /\ Looked.today /\ ~IsInTimeSpan(now.hour, Looked)
  /\ plan' = FALSE
  /\ click' = FALSE /\ cfg' = Looked
  /\ late' = TRUE /\ PlanRound

(* ... and the type is cleared too: it is not set again inside the span,   *)
(* and one that a command has stored since the look is lost.               *)
PlanForget ==
  /\ late
  /\ flags' = "no"
  /\ late' = FALSE
  /\ UNCHANGED <<plan, saved, command, click, cfg, now, plans, ticks>>
  /\ PlanRest

PlanThread == PlanUnset \/ PlanOff \/ PlanIn \/ PlanOut \/ PlanForget

(* Time goes by, midnight passes, the clock is set or the time zone is.    *)
Tick ==
  /\ ticks < MaxTicks /\ ticks' = ticks + 1
  /\ now' \in [set : {TRUE}, day : Days, hour : Hours] \ {now}
  /\ UNCHANGED <<flags, plan, saved, command, click, cfg, late, plans>>
  /\ PlanRest

------------------------------------------------------------------------------
(* The card and st_sd_card_format                                          *)

CardRest == UNCHANGED <<unusable, sdVars, dana, last, planVars, plans,
                        ticks>>

(* sd_card_inserting.sh: has_sd_card is written even if no mount worked.   *)
Insert ==
  /\ ~slot
  /\ slot' = TRUE /\ card' = TRUE /\ mounted' \in BOOLEAN
  /\ UNCHANGED <<rec, status, fmtVars, deaf, overruns, troubles>> /\ CardRest

(* sd_card_removing.sh                                                     *)
Remove ==
  /\ slot /\ Trouble
  /\ slot' = FALSE /\ card' = FALSE /\ mounted' = FALSE
  /\ UNCHANGED <<rec, status, fmtVars, deaf, overruns>> /\ CardRest

(* DANAVIDEOCMD_SDCFORMAT, up to the search for the device.                *)
FormatCommand ==
  /\ fmt = "none" /\ Trouble
  /\ fmt' = "search" /\ formatted' = TRUE
  /\ UNCHANGED <<rec, status, slot, card, mounted, formating, deaf, overruns>>
  /\ CardRest

(* No device: the command returns, g_format_SDcard stays 1.                *)
FormatNoDevice ==
  /\ fmt = "search" /\ ~slot
  /\ fmt' = "none"
  /\ UNCHANGED <<rec, status, slot, card, mounted, formatted, formating, deaf,
                 overruns, troubles>>
  /\ CardRest

(* Mutant: the recording goes on.                                          *)
FormatStopNothing ==
  /\ fmt = "search" /\ slot
  /\ formating' = TRUE
  /\ deaf' = {r \in Recorders : rec[r] = "starting"}
  /\ fmt' = "stopping"
  /\ UNCHANGED <<rec, status, slot, card, mounted, formatted, overruns,
                 troubles>>
  /\ CardRest

(* The card thread is kept out and the recording is stopped.               *)
FormatStop ==
  /\ fmt = "search" /\ slot
  /\ formating' = TRUE
  /\ StopNormal
  /\ deaf' = {r \in Recorders : rec[r] = "starting"}
  /\ fmt' = "stopping"
  /\ UNCHANGED <<rec, slot, card, mounted, formatted, overruns, troubles>>
  /\ CardRest

(* The second of the stop is over: has_sd_card goes, then umount and mkfs. *)
FormatErase ==
  /\ fmt = "stopping"
  /\ SleepEnds
  /\ card' = FALSE /\ mounted' = FALSE
  /\ fmt' = "erasing"
  /\ UNCHANGED <<rec, status, slot, formatted, formating, deaf, troubles>>
  /\ CardRest

(* The new file system is mounted and has_sd_card is back.                 *)
FormatMount ==
  /\ fmt = "erasing" /\ slot
  /\ SleepEnds
  /\ card' = TRUE /\ mounted' = TRUE
  /\ fmt' = "mounted"
  /\ UNCHANGED <<rec, status, slot, formatted, formating, deaf, troubles>>
  /\ CardRest

(* It cannot be mounted: the command returns and leaves SD_CARD_FORMATING. *)
FormatMountFails ==
  /\ fmt = "erasing"
  /\ SleepEnds
  /\ fmt' = "none"
  /\ UNCHANGED <<rec, status, slot, card, mounted, formatted, formating, deaf,
                 troubles>>
  /\ CardRest

FormatDone ==
  /\ fmt = "mounted"
  /\ SleepEnds
  /\ formating' = FALSE
  /\ fmt' = "none"
  /\ UNCHANGED <<rec, status, slot, card, mounted, formatted, deaf, troubles>>
  /\ CardRest

Formatter ==
  \/ FormatNoDevice \/ FormatStop \/ FormatErase
  \/ FormatMount \/ FormatMountFails \/ FormatDone

------------------------------------------------------------------------------
Next ==
  \/ \E r \in Recorders : Recorder(r)
  \/ SdThread \/ DanaThread \/ PlanThread
  \/ \E new \in Plans : RecPlanSet(new)
  \/ Command \/ SetTime \/ Tick
  \/ Insert \/ Remove \/ FormatCommand \/ Formatter

Spec == Init /\ [][Next]_recordVars

(* Every thread goes on; cards, clock and app do as they please.  The      *)
(* camera never stops delivering key frames, so a recorder goes on too.    *)
Fairness ==
  /\ \A r \in Recorders : WF_recordVars(Recorder(r))
  /\ WF_recordVars(SdThread) /\ WF_recordVars(DanaThread)
  /\ WF_recordVars(PlanThread) /\ WF_recordVars(Command)
  /\ WF_recordVars(Formatter)

FairSpec == Spec /\ Fairness

------------------------------------------------------------------------------
(* Properties.                                                             *)

TypeOK ==
  /\ rec \in [Recorders ->
               {"none", "starting", "idle", "filming", "leaving"}]
  /\ status \in {0, 1}
  /\ slot \in BOOLEAN /\ mounted \in BOOLEAN /\ card \in BOOLEAN
  /\ unusable \in BOOLEAN
  /\ sd \in {"poll", "formatSleep", "noCard", "stopSleep", "resumeSleep",
             "pause"}
  /\ resume \in BOOLEAN
  /\ fmt \in {"none", "search", "stopping", "erasing", "mounted"}
  /\ formatted \in BOOLEAN /\ formating \in BOOLEAN
  /\ dana \in {"poll", "toNo", "toAlarm", "pause"}
  /\ last \in Types /\ flags \in Types /\ saved \in Plans
  /\ plan \in BOOLEAN /\ click \in BOOLEAN /\ late \in BOOLEAN
  /\ command \in {"none", "click", "flags"}
  /\ cfg \in [today : BOOLEAN, begin : Hours, end : Hours]
  /\ now \in [set : BOOLEAN, day : Days, hour : Hours]
  /\ deaf \subseteq Recorders
  /\ overruns \in 0 .. MaxOverruns /\ troubles \in 0 .. MaxTroubles
  /\ plans \in 0 .. MaxPlans /\ ticks \in 0 .. MaxTicks

(* start_normal_record_stream wants one recorder at a time (record.c:750), *)
(* but looks at a flag the recorder only sets later.  As long as no sleep  *)
(* was too short there is one, and two at most once the card has given     *)
(* trouble, however many plans are set, cards pulled and cards formatted.  *)
RecordersCounted ==
  overruns = 0 => Cardinality(Alive) <= IF troubles = 0 THEN 1 ELSE 2

(* testdanavideo.c:2189 stops all recordings before a format: by the time  *)
(* the card is erased every recorder that could see that stop is gone.     *)
FormatAlone == fmt = "erasing" /\ overruns = 0 => Alive \subseteq deaf

(* The card gives no trouble and no sleep is too short.                    *)
Calm == troubles = 0 /\ overruns = 0

InSpan == now.set /\ IsInTimeSpan(now.hour, saved)

(* shcedule_is_recorde_thread: the plan says no for good, by its type or   *)
(* by the time of day; or by the day of the week when the app sets it or   *)
(* the time.  Then the recording ends for good, in spite of a FLAG and a   *)
(* span computed earlier, for another plan.  (A day that ends while FLAG   *)
(* stands is not noticed: testdanavideo.c:4678-4720.)                      *)
StopsAsPlanned ==
  /\ <>[](Calm /\ (saved.type # "full" \/ ~InSpan)) => <>[](Alive = {})
  /\ [](click /\ [](Calm /\ now.day \notin saved.days) => <>[](Alive = {}))

(* The plan says full time, today and now, and the type it has stored was  *)
(* not cleared by a look outside the span: files are recorded for ever.    *)
RecordsAsPlanned ==
  <>[](/\ Calm /\ card
       /\ saved.type = "full" /\ flags = "full"
       /\ InSpan /\ now.day \in saved.days)
    => []<>(Filming # {}) /\ <>[](Running # {})

(* mmc_api.c:867: a recording that the card thread stopped goes on when    *)
(* the card is back for good, unless it is formatted meanwhile.            *)
ResumesAfterPull ==
  [](resume /\ [](card /\ ~formatted /\ ~formating)
       => <>(~resume /\ Alive # {}))
==============================================================================

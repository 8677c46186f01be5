-------------------------- MODULE RecordControlProofs --------------------------
(***************************************************************************)
(* Proofs about the recording control, for every number of recorders and   *)
(* every bound: types, that a card is erased when nobody is left who could *)
(* see the stop, and how many recorders there are.                         *)
(***************************************************************************)
EXTENDS RecordControl, FiniteSetTheorems, TLAPS

(* A stop reaches nobody before the flag is set.                           *)
StartsDeaf == \A r \in Recorders : rec[r] = "starting" => r \in deaf

(* Who the stop of the format reached leaves, or will: the flag is still   *)
(* cleared.                                                                *)
StopReaches ==
  fmt = "stopping" =>
    \A r \in Alive : r \in deaf \/ rec[r] = "leaving" \/ status = 0

FormatInv == TypeOK /\ StartsDeaf /\ StopReaches /\ FormatAlone

Cfgs == [today : BOOLEAN, begin : Hours, end : Hours]
Clocks == [set : BOOLEAN, day : Days, hour : Hours]

(* What the clock thread keeps of a plan has the types of a plan.          *)
LEMMA ParamTyped ==
  ASSUME saved \in Plans, NEW day, NEW span \in Cfgs
  PROVE  Param(day, span) \in Cfgs
<1>1. /\ saved.begin \in Hours /\ saved.end \in Hours
      /\ (day \in saved.days) \in BOOLEAN
  BY RecordControlAssumption
<1>2. [span EXCEPT !.today = FALSE] \in Cfgs
  BY DEF Cfgs
<1>3. [today |-> day \in saved.days,
       begin |-> saved.begin, end |-> saved.end] \in Cfgs
  BY <1>1 DEF Cfgs
<1> QED
  BY <1>2, <1>3 DEF Param

LEMMA InitFormat == Init => FormatInv
<1> SUFFICES ASSUME Init PROVE FormatInv
  OBVIOUS
<1>1. /\ rec = [r \in Recorders |-> "none"] /\ status = 0
      /\ slot \in BOOLEAN /\ card = slot /\ unusable = FALSE
      /\ sd = "poll" /\ resume = FALSE
      /\ fmt = "none" /\ formatted = FALSE /\ formating = FALSE
      /\ dana = "poll" /\ last = "no"
      /\ saved \in Plans /\ flags = saved.type /\ mounted \in BOOLEAN
      /\ plan = FALSE /\ command = "none" /\ click = FALSE /\ late = FALSE
      /\ now \in [set : {FALSE}, day : Days, hour : Hours] /\ deaf = {}
  BY DEF Init
<1>2. troubles \in {0, 1} /\ overruns = 0 /\ plans = 0 /\ ticks = 0
  BY DEF Init
<1>3. /\ overruns \in 0 .. MaxOverruns /\ troubles \in 0 .. MaxTroubles
      /\ plans \in 0 .. MaxPlans /\ ticks \in 0 .. MaxTicks
  BY <1>2, RecordControlAssumption
<1>4. last \in Types /\ flags \in Types
  BY <1>1, RecordControlAssumption DEF Types
<1>5. cfg \in Cfgs /\ now \in Clocks
  <2>1. PICK m \in Hours :
          cfg = Param(now.day, [today |-> FALSE, begin |-> m, end |-> m])
    BY DEF Init
  <2>2. [today |-> FALSE, begin |-> m, end |-> m] \in Cfgs
    BY DEF Cfgs
  <2> QED
    BY <1>1, <2>1, <2>2, ParamTyped DEF Clocks
<1>6. TypeOK
  BY <1>1, <1>3, <1>4, <1>5 DEF TypeOK, Cfgs, Clocks
<1>7. StartsDeaf /\ StopReaches /\ FormatAlone
  BY <1>1 DEF StartsDeaf, StopReaches, FormatAlone
<1> QED
  BY <1>6, <1>7 DEF FormatInv
------------------------------------------------------------------------------
(* Types: what every thread changes.                                       *)

Places == {"none", "starting", "idle", "filming", "leaving"}

RecTypes ==
  /\ rec \in [Recorders -> Places] /\ deaf \subseteq Recorders
  /\ status \in {0, 1}

SdTypes ==
  /\ unusable \in BOOLEAN /\ resume \in BOOLEAN
  /\ sd \in {"poll", "formatSleep", "noCard", "stopSleep", "resumeSleep",
             "pause"}

CardTypes ==
  /\ slot \in BOOLEAN /\ mounted \in BOOLEAN /\ card \in BOOLEAN
  /\ fmt \in {"none", "search", "stopping", "erasing", "mounted"}
  /\ formatted \in BOOLEAN /\ formating \in BOOLEAN

DanaTypes == dana \in {"poll", "toNo", "toAlarm", "pause"} /\ last \in Types

PlanTypes ==
  /\ flags \in Types /\ saved \in Plans
  /\ plan \in BOOLEAN /\ click \in BOOLEAN /\ late \in BOOLEAN
  /\ command \in {"none", "click", "flags"}
  /\ cfg \in Cfgs /\ now \in Clocks

Counted ==
  /\ overruns \in 0 .. MaxOverruns /\ troubles \in 0 .. MaxTroubles
  /\ plans \in 0 .. MaxPlans /\ ticks \in 0 .. MaxTicks

LEMMA TypeParts ==
  TypeOK => /\ RecTypes /\ SdTypes /\ CardTypes /\ DanaTypes /\ PlanTypes
            /\ Counted
  BY DEF TypeOK, RecTypes, SdTypes, CardTypes, DanaTypes, PlanTypes, Counted,
         Places, Cfgs, Clocks

LEMMA TypesNext ==
  ASSUME RecTypes', SdTypes', CardTypes', DanaTypes', PlanTypes', Counted'
  PROVE  TypeOK'
  BY DEF TypeOK, RecTypes, SdTypes, CardTypes, DanaTypes, PlanTypes, Counted,
         Places, Cfgs, Clocks

LEMMA CreateFacts ==
  ASSUME RecTypes, CreateRecorder
  PROVE  \E r \in Recorders : /\ rec[r] = "none"
                              /\ rec' = [rec EXCEPT ![r] = "starting"]
                              /\ deaf' = deaf \cup {r}
<1> DEFINE r == CHOOSE r \in Recorders : rec[r] = "none"
<1>1. \E q \in Recorders : rec[q] = "none"
  BY DEF CreateRecorder, Alive
<1>2. r \in Recorders /\ rec[r] = "none"
  BY <1>1
<1>3. rec' = [rec EXCEPT ![r] = "starting"] /\ deaf' = deaf \cup {r}
  BY DEF CreateRecorder, GoTo
<1> QED
  BY <1>2, <1>3

LEMMA StartFacts ==
  ASSUME RecTypes, StartNormal
  PROVE  CreateRecorder \/ UNCHANGED <<rec, deaf>>
  BY DEF StartNormal

LEMMA SleepFacts ==
  ASSUME Counted, SleepEnds
  PROVE  /\ overruns' \in 0 .. MaxOverruns
         /\ overruns' = overruns \/ overruns' = overruns + 1
  BY RecordControlAssumption DEF Counted, SleepEnds

LEMMA TroubleFacts ==
  ASSUME Counted, Trouble
  PROVE  troubles' \in 0 .. MaxTroubles
  BY RecordControlAssumption DEF Counted, Trouble

(* What the threads do to the recorders: nothing, clear the flag, or       *)
(* create one.                                                             *)
Orders ==
  /\ CreateRecorder \/ UNCHANGED <<rec, deaf>>
  /\ status' = status \/ status' = 0
  /\ overruns' = overruns \/ overruns' = overruns + 1

LEMMA OrdersTyped ==
  ASSUME RecTypes, Orders
  PROVE  RecTypes'
<1>1. CASE CreateRecorder
  <2>1. PICK r \in Recorders :
          rec' = [rec EXCEPT ![r] = "starting"] /\ deaf' = deaf \cup {r}
    BY <1>1, CreateFacts
  <2> QED
    BY <2>1 DEF RecTypes, Orders, Places
<1>2. CASE UNCHANGED <<rec, deaf>>
  BY <1>2 DEF RecTypes, Orders
<1> QED
  BY <1>1, <1>2 DEF Orders

(* Orders disturb no format.                                               *)
LEMMA OrdersKeep ==
  ASSUME FormatInv, Orders, fmt' = fmt
  PROVE  StartsDeaf' /\ StopReaches' /\ FormatAlone'
<1>1. RecTypes /\ overruns \in Nat
  BY TypeParts, RecordControlAssumption DEF FormatInv, Counted
<1>2. StartsDeaf /\ StopReaches /\ FormatAlone
  BY DEF FormatInv
<1>3. overruns' = 0 => overruns = 0
  BY <1>1 DEF Orders
<1>4. CASE CreateRecorder
  <2>1. PICK r \in Recorders : /\ rec[r] = "none"
                               /\ rec' = [rec EXCEPT ![r] = "starting"]
                               /\ deaf' = deaf \cup {r}
    BY <1>1, <1>4, CreateFacts
  <2>2. \A q \in Recorders : q # r => rec'[q] = rec[q]
    BY <1>1, <2>1 DEF RecTypes
  <2>3. r \in deaf' /\ deaf \subseteq deaf'
    BY <2>1
  <2>4. \A q \in Alive' : q \in deaf' \/ (q \in Alive /\ rec'[q] = rec[q])
    BY <2>2, <2>3 DEF Alive
  <2>5. StartsDeaf'
    BY <1>2, <2>2, <2>3 DEF StartsDeaf
  <2>6. StopReaches'
    BY <1>2, <2>3, <2>4 DEF StopReaches, Orders
  <2>7. FormatAlone'
    BY <1>2, <1>3, <2>3, <2>4 DEF FormatAlone
  <2> QED
    BY <2>5, <2>6, <2>7
<1>5. CASE UNCHANGED <<rec, deaf>>
  <2>1. Alive' = Alive
    BY <1>5 DEF Alive
  <2>2. StartsDeaf'
    BY <1>2, <1>5 DEF StartsDeaf
  <2>3. StopReaches'
    BY <1>2, <1>5, <2>1 DEF StopReaches, Orders
  <2>4. FormatAlone'
    BY <1>2, <1>3, <1>5, <2>1 DEF FormatAlone
  <2> QED
    BY <2>2, <2>3, <2>4
<1> QED
  BY <1>4, <1>5 DEF Orders
------------------------------------------------------------------------------
LEMMA SdKeeps ==
  ASSUME FormatInv, SdThread
  PROVE  FormatInv'
<1>1. RecTypes /\ SdTypes /\ CardTypes /\ DanaTypes /\ PlanTypes /\ Counted
  BY TypeParts DEF FormatInv
<1>2. UNCHANGED <<slot, mounted, card, fmt, formating, dana, last, planVars,
                  troubles, plans, ticks>>
  BY DEF SdThread, SdForget, SdNoCard, SdStop, SdCard, SdResume, SdWake, SdRest
<1>3. Orders /\ overruns' \in 0 .. MaxOverruns
  <2>1. CASE SdForget \/ SdNoCard \/ SdStop \/ SdCard
    BY <1>1, <2>1 DEF SdForget, SdNoCard, SdStop, SdCard, StopNormal, Orders,
                      Counted
  <2>2. CASE SdResume \/ SdWake
    BY <1>1, <2>2, StartFacts, SleepFacts DEF SdResume, SdWake, Orders
  <2> QED
    BY <2>1, <2>2 DEF SdThread
<1>4. SdTypes' /\ formatted' \in BOOLEAN
  BY <1>1 DEF SdThread, SdForget, SdNoCard, SdStop, SdCard, SdResume, SdWake,
              SdTypes, CardTypes
<1>5. CardTypes' /\ DanaTypes' /\ PlanTypes' /\ Counted'
  BY <1>1, <1>2, <1>3, <1>4
     DEF CardTypes, DanaTypes, PlanTypes, Counted, planVars
<1>6. TypeOK'
  BY <1>1, <1>3, <1>4, <1>5, OrdersTyped, TypesNext
<1> QED
  BY <1>2, <1>3, <1>6, OrdersKeep DEF FormatInv

LEMMA DanaKeeps ==
  ASSUME FormatInv, DanaThread
  PROVE  FormatInv'
<1>1. RecTypes /\ SdTypes /\ CardTypes /\ DanaTypes /\ PlanTypes /\ Counted
  BY TypeParts DEF FormatInv
<1>2. UNCHANGED <<cardVars, sdVars, fmtVars, planVars, troubles, plans,
                  ticks>>
  BY DEF DanaThread, DanaStop, DanaStopped, DanaStart, DanaSwitch, DanaWake,
         DanaRest
<1>3. Orders /\ overruns' \in 0 .. MaxOverruns
  <2>1. CASE DanaStop \/ DanaStart \/ DanaSwitch
    BY <1>1, <2>1, StartFacts DEF DanaStop, DanaStart, DanaSwitch, StopNormal,
                                  Orders, Counted
  <2>2. CASE DanaStopped \/ DanaWake
    BY <1>1, <2>2, SleepFacts DEF DanaStopped, DanaWake, Orders
  <2> QED
    BY <2>1, <2>2 DEF DanaThread
<1>4. Wanted \in Types
  BY <1>1 DEF Wanted, PlanTypes, Types
<1>5. DanaTypes'
  BY <1>1, <1>4 DEF DanaThread, DanaStop, DanaStopped, DanaStart, DanaSwitch,
                    DanaWake, DanaTypes, Types
<1>6. SdTypes' /\ CardTypes' /\ PlanTypes' /\ Counted'
  BY <1>1, <1>2, <1>3 DEF SdTypes, CardTypes, PlanTypes, Counted, cardVars,
                          sdVars, fmtVars, planVars
<1>7. TypeOK'
  BY <1>1, <1>3, <1>5, <1>6, OrdersTyped, TypesNext
<1> QED
  BY <1>2, <1>3, <1>7, OrdersKeep DEF FormatInv, fmtVars

(* What the app, the clock and the clock thread do.                        *)
PlanStep ==
  \/ PlanThread \/ Command \/ SetTime \/ Tick
  \/ \E new \in Plans : RecPlanSet(new)

LEMMA PlanStepRest ==
  ASSUME PlanStep
  PROVE  PlanRest
  BY DEF PlanStep, PlanThread, PlanUnset, PlanOff, PlanIn, PlanOut, PlanRound,
         PlanForget, Command, RecPlanClick, RecPlanFlags, SetTime, Tick, RecPlanSet

LEMMA PlanTyped ==
  ASSUME PlanTypes, PlanStep
  PROVE  PlanTypes'
<1>1. saved.type \in Types
  BY RecordControlAssumption DEF PlanTypes
<1>2. Param(now.day, cfg) \in Cfgs /\ Looked \in Cfgs
  BY ParamTyped DEF Looked, PlanTypes
<1>3. CASE PlanUnset \/ PlanOff \/ PlanIn \/ PlanOut
  <2>1. /\ UNCHANGED <<flags, saved, command, now>>
        /\ plan' \in BOOLEAN
        /\ click' \in BOOLEAN /\ late' \in BOOLEAN /\ cfg' \in Cfgs
    BY <1>2, <1>3 DEF PlanUnset, PlanOff, PlanIn, PlanOut, PlanRound, PlanTypes
  <2> QED
    BY <2>1 DEF PlanTypes
<1>4. CASE PlanForget \/ Command
  BY <1>1, <1>4 DEF PlanForget, Command, RecPlanClick, RecPlanFlags, PlanTypes,
                    Types
<1>5. CASE SetTime \/ \E new \in Plans : RecPlanSet(new)
  BY <1>5 DEF SetTime, RecPlanSet, PlanTypes
<1>6. CASE Tick
  <2>1. now' \in Clocks
    BY <1>6 DEF Tick, Clocks
  <2> QED
    BY <1>6, <2>1 DEF Tick, PlanTypes
<1> QED
  BY <1>3, <1>4, <1>5, <1>6 DEF PlanStep, PlanThread

LEMMA PlanKeeps ==
  ASSUME FormatInv, PlanStep
  PROVE  FormatInv'
<1>1. RecTypes /\ SdTypes /\ CardTypes /\ DanaTypes /\ PlanTypes /\ Counted
  BY TypeParts DEF FormatInv
<1>2. UNCHANGED <<rec, status, cardVars, sdVars, fmtVars, dana, last, deaf,
                  overruns, troubles>>
  BY PlanStepRest DEF PlanRest
<1>3. PlanTypes'
  BY <1>1, PlanTyped
<1>4. plans' \in 0 .. MaxPlans /\ ticks' \in 0 .. MaxTicks
  <2>1. CASE PlanThread \/ Command \/ SetTime
    BY <1>1, <2>1 DEF PlanThread, PlanUnset, PlanOff, PlanIn, PlanOut, PlanRound,
       PlanForget, Command, RecPlanClick, RecPlanFlags, SetTime, Counted
  <2>2. CASE Tick
    BY <1>1, <2>2, RecordControlAssumption DEF Tick, Counted
  <2>3. CASE \E new \in Plans : RecPlanSet(new)
    BY <1>1, <2>3, RecordControlAssumption DEF RecPlanSet, Counted
  <2> QED
    BY <2>1, <2>2, <2>3 DEF PlanStep
<1>5. Orders
  BY <1>2 DEF Orders
<1>6. SdTypes' /\ CardTypes' /\ DanaTypes' /\ Counted'
  BY <1>1, <1>2, <1>4 DEF SdTypes, CardTypes, DanaTypes, Counted, cardVars,
                          sdVars, fmtVars
<1>7. TypeOK'
  BY <1>1, <1>3, <1>5, <1>6, OrdersTyped, TypesNext
<1> QED
  BY <1>2, <1>5, <1>7, OrdersKeep DEF FormatInv, fmtVars
------------------------------------------------------------------------------
(* The card and the format.                                                *)

LEMMA CardTyped ==
  ASSUME TypeOK, Insert \/ Remove \/ FormatCommand \/ Formatter
  PROVE  TypeOK'
<1> USE DEF Formatter
<1>1. RecTypes /\ SdTypes /\ CardTypes /\ DanaTypes /\ PlanTypes /\ Counted
  BY TypeParts
<1>2. UNCHANGED <<rec, unusable, sdVars, dana, last, planVars, plans, ticks>>
  BY DEF Insert, Remove, FormatCommand, FormatNoDevice, FormatStop, FormatErase,
         FormatMount, FormatMountFails, FormatDone, CardRest
<1>3. status' \in {0, 1} /\ deaf' \subseteq Recorders
  BY <1>1 DEF Insert, Remove, FormatCommand, FormatNoDevice, FormatStop,
     FormatErase, FormatMount, FormatMountFails, FormatDone, StopNormal, RecTypes
<1>4. CardTypes'
  BY <1>1 DEF Insert, Remove, FormatCommand, FormatNoDevice, FormatStop,
     FormatErase, FormatMount, FormatMountFails, FormatDone, CardTypes, fmtVars
<1>5. overruns' \in 0 .. MaxOverruns
  <2>1. overruns' = overruns \/ SleepEnds
    BY DEF Insert, Remove, FormatCommand, FormatNoDevice, FormatStop,
       FormatErase, FormatMount, FormatMountFails, FormatDone
  <2> QED
    BY <1>1, <2>1, SleepFacts DEF Counted
<1>6. troubles' \in 0 .. MaxTroubles
  <2>1. troubles' = troubles \/ Trouble
    BY DEF Insert, Remove, FormatCommand, FormatNoDevice, FormatStop,
       FormatErase, FormatMount, FormatMountFails, FormatDone
  <2> QED
    BY <1>1, <2>1, TroubleFacts DEF Counted
<1>7. RecTypes' /\ SdTypes' /\ DanaTypes' /\ PlanTypes' /\ Counted'
  BY <1>1, <1>2, <1>3, <1>5, <1>6 DEF RecTypes, SdTypes, DanaTypes, PlanTypes,
     Counted, sdVars, planVars
<1> QED
  BY <1>4, <1>7, TypesNext

LEMMA FormatStopKeeps ==
  ASSUME FormatInv, FormatStop
  PROVE  StartsDeaf' /\ StopReaches' /\ FormatAlone'
<1>1. /\ rec' = rec /\ status' = 0 /\ fmt' = "stopping"
      /\ deaf' = {r \in Recorders : rec[r] = "starting"}
  BY DEF FormatStop, StopNormal
<1> QED
  BY <1>1 DEF StartsDeaf, StopReaches, FormatAlone

(* The second of the stop: who could see it is gone, or it was too short.  *)
LEMMA FormatEraseKeeps ==
  ASSUME FormatInv, FormatErase
  PROVE  StartsDeaf' /\ StopReaches' /\ FormatAlone'
<1>1. /\ fmt = "stopping" /\ fmt' = "erasing" /\ SleepEnds
      /\ UNCHANGED <<rec, status, deaf>>
  BY DEF FormatErase
<1>2. RecTypes /\ overruns \in Nat
  BY TypeParts, RecordControlAssumption DEF FormatInv, Counted
<1>3. StartsDeaf' /\ StopReaches'
  BY <1>1 DEF FormatInv, StartsDeaf, StopReaches
<1>4. overruns' = 0 => Settled
  BY <1>1, <1>2 DEF SleepEnds
<1>5. ASSUME Settled, NEW r \in Alive PROVE r \in deaf
  <2>1. r \in Recorders /\ rec[r] \in {"idle", "filming"}
    BY <1>2, <1>5 DEF Settled, Alive, RecTypes, Places
  <2>2. status # 0
    BY <1>5, <2>1 DEF Settled, Running
  <2> QED
    BY <1>1, <1>5, <2>1, <2>2 DEF FormatInv, StopReaches
<1>6. FormatAlone'
  <2>1. Alive' = Alive
    BY <1>1 DEF Alive
  <2> QED
    BY <1>1, <1>4, <1>5, <2>1 DEF FormatAlone
<1> QED
  BY <1>3, <1>6

LEMMA CardKeeps ==
  ASSUME FormatInv, Insert \/ Remove \/ FormatCommand \/ Formatter
  PROVE  FormatInv'
<1>1. TypeOK'
  BY CardTyped DEF FormatInv
<1>2. CASE Insert \/ Remove
  <2>1. UNCHANGED <<rec, status, deaf, fmt, overruns>>
    BY <1>2 DEF Insert, Remove, fmtVars
  <2>2. Orders
    BY <2>1 DEF Orders
  <2> QED
    BY <1>1, <2>1, <2>2, OrdersKeep DEF FormatInv
<1>3. CASE \/ FormatCommand \/ FormatNoDevice \/ FormatMount
           \/ FormatMountFails \/ FormatDone
  <2>1. /\ UNCHANGED <<rec, status, deaf>>
        /\ fmt' \in {"none", "search", "mounted"}
    BY <1>3 DEF FormatCommand, FormatNoDevice, FormatMount, FormatMountFails,
                FormatDone
  <2> QED
    BY <1>1, <2>1 DEF FormatInv, StartsDeaf, StopReaches, FormatAlone
<1> QED
  BY <1>1, <1>2, <1>3, FormatStopKeeps, FormatEraseKeeps
     DEF Formatter, FormatInv
------------------------------------------------------------------------------
(* The recorders.                                                          *)

LEMMA RecorderTyped ==
  ASSUME TypeOK, NEW r \in Recorders, Recorder(r)
  PROVE  TypeOK'
<1>1. RecTypes /\ SdTypes /\ CardTypes /\ DanaTypes /\ PlanTypes /\ Counted
  BY TypeParts
<1>2. UNCHANGED <<cardVars, sdVars, fmtVars, dana, last, planVars, overruns,
                  plans, ticks>>
  BY DEF Recorder, Begin, Open, OpenFails, Rotate, Leave, End, RecorderRest,
         history
<1>3. \E place \in Places : rec' = [rec EXCEPT ![r] = place]
  BY DEF Recorder, Begin, Open, OpenFails, Rotate, Leave, End, GoTo, Places
<1>4. status' \in {0, 1} /\ deaf' \subseteq Recorders
  BY <1>1 DEF Recorder, Begin, Open, OpenFails, Rotate, Leave, End, RecTypes,
              Running, history
<1>5. RecTypes'
  BY <1>1, <1>3, <1>4 DEF RecTypes
<1>6. troubles' \in 0 .. MaxTroubles
  <2>1. troubles' = troubles \/ Trouble
    BY DEF Recorder, Begin, Open, OpenFails, Rotate, Leave, End, history
  <2> QED
    BY <1>1, <2>1, TroubleFacts DEF Counted
<1>7. SdTypes' /\ CardTypes' /\ DanaTypes' /\ PlanTypes' /\ Counted'
  BY <1>1, <1>2, <1>6 DEF SdTypes, CardTypes, DanaTypes, PlanTypes, Counted,
     cardVars, sdVars, fmtVars, planVars
<1> QED
  BY <1>5, <1>7, TypesNext

LEMMA BeginKeeps ==
  ASSUME FormatInv, NEW r \in Recorders, Begin(r)
  PROVE  StartsDeaf' /\ StopReaches' /\ FormatAlone'
<1>1. /\ rec[r] = "starting" /\ rec' = [rec EXCEPT ![r] = "idle"]
      /\ deaf' = IF status = 0 THEN deaf \cup Running ELSE deaf
      /\ fmt' = fmt /\ overruns' = overruns
  BY DEF Begin, GoTo, RecorderRest, fmtVars
<1>2. RecTypes /\ StartsDeaf /\ StopReaches /\ FormatAlone
  BY TypeParts DEF FormatInv
<1>3. r \in deaf /\ deaf \subseteq deaf'
  BY <1>1, <1>2 DEF StartsDeaf
<1>4. \A q \in Recorders : q # r => rec'[q] = rec[q]
  BY <1>1, <1>2 DEF RecTypes
<1>5. rec'[r] = "idle"
  BY <1>1, <1>2 DEF RecTypes
<1>6. Alive' = Alive
  BY <1>1, <1>4, <1>5 DEF Alive
<1>7. StartsDeaf'
  BY <1>2, <1>3, <1>4, <1>5 DEF StartsDeaf
<1>8. StopReaches'
  <2> SUFFICES ASSUME fmt = "stopping", NEW q \in Alive, q \notin deaf'
               PROVE  rec'[q] = "leaving"
    BY <1>1, <1>6 DEF StopReaches
  <2>1. q \in Recorders /\ q # r /\ q \notin deaf /\ rec[q] # "none"
    BY <1>3 DEF Alive
  <2>2. rec[q] # "starting"
    BY <1>2, <2>1 DEF StartsDeaf
  <2>3. CASE status = 0
    <3>1. q \notin Running
      BY <1>1, <2>3
    <3>2. rec[q] = "leaving"
      BY <1>2, <2>1, <2>2, <3>1 DEF Running, RecTypes, Places
    <3> QED
      BY <1>4, <2>1, <3>2
  <2>4. CASE status # 0
    BY <1>2, <1>4, <2>1, <2>4 DEF StopReaches
  <2> QED
    BY <2>3, <2>4
<1>9. FormatAlone'
  BY <1>1, <1>2, <1>3, <1>6 DEF FormatAlone
<1> QED
  BY <1>7, <1>8, <1>9

LEMMA RecorderKeeps ==
  ASSUME FormatInv, NEW r \in Recorders, Recorder(r)
  PROVE  FormatInv'
<1>1. TypeOK'
  BY RecorderTyped DEF FormatInv
<1>2. RecTypes /\ StartsDeaf /\ StopReaches /\ FormatAlone
  BY TypeParts DEF FormatInv
<1>3. fmt' = fmt /\ overruns' = overruns
  BY DEF Recorder, Begin, Open, OpenFails, Rotate, Leave, End, RecorderRest,
         fmtVars, history
<1>4. CASE Open(r) \/ Rotate(r)
  <2>1. PICK place \in {"idle", "filming"} :
          /\ rec' = [rec EXCEPT ![r] = place] /\ rec[r] \in {"idle", "filming"}
          /\ status = 1 /\ UNCHANGED <<status, deaf>>
    BY <1>4 DEF Open, Rotate, GoTo, history
  <2>2. /\ \A q \in Recorders : q # r => rec'[q] = rec[q]
        /\ rec'[r] = place
    BY <1>2, <2>1 DEF RecTypes
  <2>3. Alive' = Alive
    BY <2>1, <2>2 DEF Alive
  <2>4. StartsDeaf'
    BY <1>2, <2>1, <2>2 DEF StartsDeaf
  <2>5. StopReaches'
    BY <1>2, <1>3, <2>1, <2>2, <2>3 DEF StopReaches, Alive
  <2>6. FormatAlone'
    BY <1>2, <1>3, <2>1, <2>3 DEF FormatAlone
  <2> QED
    BY <1>1, <2>4, <2>5, <2>6 DEF FormatInv
<1>5. CASE OpenFails(r) \/ Leave(r)
  <2>1. /\ rec' = [rec EXCEPT ![r] = "leaving"]
        /\ rec[r] \in {"idle", "filming"} /\ UNCHANGED <<status, deaf>>
    BY <1>5 DEF OpenFails, Leave, GoTo, Running, history
  <2>2. /\ \A q \in Recorders : q # r => rec'[q] = rec[q]
        /\ rec'[r] = "leaving"
    BY <1>2, <2>1 DEF RecTypes
  <2>3. Alive' = Alive
    BY <2>1, <2>2 DEF Alive
  <2>4. StartsDeaf'
    BY <1>2, <2>1, <2>2 DEF StartsDeaf
  <2>5. StopReaches'
    BY <1>2, <1>3, <2>1, <2>2, <2>3 DEF StopReaches, Alive
  <2>6. FormatAlone'
    BY <1>2, <1>3, <2>1, <2>3 DEF FormatAlone
  <2> QED
    BY <1>1, <2>4, <2>5, <2>6 DEF FormatInv
<1>6. CASE End(r)
  <2>1. /\ rec' = [rec EXCEPT ![r] = "none"] /\ deaf' = deaf \ {r}
        /\ status' = 0
    BY <1>6 DEF End, GoTo
  <2>2. /\ \A q \in Recorders : q # r => rec'[q] = rec[q]
        /\ rec'[r] = "none"
    BY <1>2, <2>1 DEF RecTypes
  <2>3. \A q \in Alive' : q # r /\ q \in Alive
    BY <2>2 DEF Alive
  <2>4. StartsDeaf'
    BY <1>2, <2>1, <2>2 DEF StartsDeaf
  <2>5. StopReaches'
    BY <2>1 DEF StopReaches
  <2>6. FormatAlone'
    BY <1>2, <1>3, <2>1, <2>3 DEF FormatAlone
  <2> QED
    BY <1>1, <2>4, <2>5, <2>6 DEF FormatInv
<1> QED
  BY <1>1, <1>4, <1>5, <1>6, BeginKeeps DEF Recorder, FormatInv
------------------------------------------------------------------------------
(* Whatever starts and stops: the stop of a format reaches whoever has set *)
(* the flag before it.                                                     *)
THEOREM FormatInvariant == Spec => []FormatInv
<1>1. FormatInv /\ UNCHANGED recordVars => FormatInv'
  BY DEF FormatInv, TypeOK, StartsDeaf, StopReaches, FormatAlone, Alive,
         recordVars, cardVars, sdVars, fmtVars, planVars, history
<1>2. FormatInv /\ [Next]_recordVars => FormatInv'
  BY <1>1, SdKeeps, DanaKeeps, PlanKeeps, CardKeeps, RecorderKeeps
     DEF Next, PlanStep
<1> QED
  BY <1>2, InitFormat, PTL DEF Spec

(* The types of flags, threads and counters.                               *)
THEOREM RecordTypes == Spec => []TypeOK
<1>1. FormatInv => TypeOK
  BY DEF FormatInv
<1> QED
  BY <1>1, FormatInvariant, PTL

(* testdanavideo.c:2189: unless a sleep was too short, a card is erased    *)
(* when every recorder that could see the stop is gone.                    *)
THEOREM RecordFormatAlone == Spec => []FormatAlone
<1>1. FormatInv => FormatAlone
  BY DEF FormatInv
<1> QED
  BY <1>1, FormatInvariant, PTL
------------------------------------------------------------------------------
(* How many recorders there are, as long as no sleep was too short.        *)

NoneStarting == \A r \in Recorders : rec[r] # "starting"

AtMostOne == \A p, q \in Alive : p = q

AtMostTwo == \A p, q, r \in Alive : p = q \/ q = r \/ p = r

(* What the thread of the plan can rely on before it creates a recorder.   *)
(* The card thread needs nothing: it only creates one when there is none.  *)
Doubles ==
  overruns = 0 =>
    /\ AtMostTwo
    /\ dana \in {"poll", "pause"} /\ last # "full" => AtMostOne
    /\ dana \in {"toNo", "toAlarm"} =>
         AtMostOne \/ (NoneStarting /\ status = 0)
    /\ dana = "poll" => AtMostOne \/ NoneStarting

(* Before the card gives trouble, the thread of the plan is alone.         *)
Alone ==
  overruns = 0 /\ troubles = 0 =>
    /\ AtMostOne
    /\ dana \in {"poll", "pause"} /\ last # "full" => Alive = {}
    /\ dana \in {"toNo", "toAlarm"} => status = 0
    /\ dana # "pause" => NoneStarting
    /\ slot /\ card /\ fmt = "none" /\ ~formatted /\ ~resume /\ sd = "poll"

CountInv == Doubles /\ Alone

(* Nobody is created.                                                      *)
Shrinks == Alive' \subseteq Alive /\ (NoneStarting => NoneStarting')

LEMMA SameShrinks ==
  ASSUME rec' = rec
  PROVE  Shrinks
  BY DEF Shrinks, Alive, NoneStarting

LEMMA RecorderShrinks ==
  ASSUME TypeOK, NEW r \in Recorders, Recorder(r)
  PROVE  /\ Shrinks
         /\ status' # 0 => status # 0 \/ ~NoneStarting
<1>1. RecTypes
  BY TypeParts
<1>2. PICK place \in Places :
        rec' = [rec EXCEPT ![r] = place] /\ rec[r] # "none" /\ place # "starting"
  BY DEF Recorder, Begin, Open, OpenFails, Rotate, Leave, End, GoTo, Places,
         Running
<1>3. \A q \in Recorders : rec'[q] = rec[q] \/ (q = r /\ rec'[q] = place)
  BY <1>1, <1>2 DEF RecTypes
<1>4. Shrinks
  BY <1>2, <1>3 DEF Shrinks, Alive, NoneStarting
<1>5. status' # 0 => status # 0 \/ ~NoneStarting
  BY DEF Recorder, Begin, Open, OpenFails, Rotate, Leave, End, NoneStarting,
         history
<1> QED
  BY <1>4, <1>5

LEMMA CreateGrows ==
  ASSUME TypeOK, CreateRecorder
  PROVE  \E r \in Recorders : Alive' \subseteq Alive \cup {r}
<1>1. RecTypes
  BY TypeParts
<1>2. PICK r \in Recorders : rec' = [rec EXCEPT ![r] = "starting"]
  BY <1>1, CreateFacts
<1>3. \A q \in Recorders : q # r => rec'[q] = rec[q]
  BY <1>1, <1>2 DEF RecTypes
<1>4. Alive' \subseteq Alive \cup {r}
  BY <1>3 DEF Alive
<1> QED
  BY <1>4

LEMMA SettledFacts ==
  ASSUME TypeOK, Settled
  PROVE  NoneStarting /\ (status = 0 => Alive = {})
<1>1. RecTypes
  BY TypeParts
<1> QED
  BY <1>1 DEF Settled, Alive, NoneStarting, Running, RecTypes, Places

(* A step that creates nobody and is none of the plan's thread.            *)
LEMMA ShrinkKeeps ==
  ASSUME CountInv, Shrinks, UNCHANGED <<dana, last>>,
         status' # 0 => status # 0 \/ ~NoneStarting,
         overruns' = 0 => overruns = 0,
         troubles' = 0 =>
           /\ troubles = 0
           /\ Alone => (overruns' = 0 => /\ slot' /\ card' /\ fmt' = "none"
                                        /\ ~formatted' /\ ~resume'
                                        /\ sd' = "poll")
  PROVE  CountInv'
<1>1. Doubles'
  <2> SUFFICES ASSUME overruns' = 0
               PROVE  /\ AtMostTwo'
                      /\ dana \in {"poll", "pause"} /\ last # "full" => AtMostOne'
                      /\ dana \in {"toNo", "toAlarm"} =>
                           AtMostOne' \/ (NoneStarting' /\ status' = 0)
                      /\ dana = "poll" => AtMostOne' \/ NoneStarting'
    BY DEF Doubles
  <2>1. (AtMostOne => AtMostOne') /\ (AtMostTwo => AtMostTwo')
    BY DEF Shrinks, AtMostOne, AtMostTwo
  <2> QED
    BY <2>1 DEF CountInv, Doubles, Shrinks
<1>2. Alone'
  <2> SUFFICES ASSUME overruns' = 0, troubles' = 0
               PROVE  /\ AtMostOne'
                      /\ dana \in {"poll", "pause"} /\ last # "full" =>
                           Alive' = {}
                      /\ dana \in {"toNo", "toAlarm"} => status' = 0
                      /\ dana # "pause" => NoneStarting'
    BY DEF Alone, CountInv
  <2>1. /\ AtMostOne
        /\ dana \in {"poll", "pause"} /\ last # "full" => Alive = {}
        /\ dana \in {"toNo", "toAlarm"} => status = 0
        /\ dana # "pause" => NoneStarting
    BY DEF CountInv, Alone
  <2>2. AtMostOne'
    BY <2>1 DEF Shrinks, AtMostOne
  <2> QED
    BY <2>1, <2>2 DEF Shrinks
<1> QED
  BY <1>1, <1>2 DEF CountInv

LEMMA SdCounts ==
  ASSUME TypeOK, CountInv, SdThread
  PROVE  CountInv'
<1>1. Counted
  BY TypeParts
<1>2. UNCHANGED <<slot, card, fmt, dana, last, troubles>>
  BY DEF SdThread, SdForget, SdNoCard, SdStop, SdCard, SdResume, SdWake, SdRest
<1>3. overruns' = 0 => overruns = 0
  BY <1>1, SleepFacts DEF SdThread, SdForget, SdNoCard, SdStop, SdCard, SdResume,
     SdWake, Counted
<1>4. CASE SdForget \/ SdNoCard \/ SdStop \/ SdCard \/ SdWake
  <2>1. rec' = rec /\ (status' = status \/ status' = 0)
    BY <1>4 DEF SdForget, SdNoCard, SdStop, SdCard, SdWake, StopNormal
  <2>2. ASSUME Alone, troubles' = 0, overruns' = 0
        PROVE  ~formatted' /\ ~resume' /\ sd' = "poll"
    BY <1>2, <1>3, <1>4, <2>2
       DEF Alone, SdForget, SdNoCard, SdStop, SdCard, SdWake, SdLooks
  <2> QED
    BY <1>2, <1>3, <2>1, <2>2, SameShrinks, ShrinkKeeps DEF Alone
<1>5. CASE SdResume
  <2>1. sd = "resumeSleep" /\ SleepEnds /\ StartNormal /\ status' = status
    BY <1>5 DEF SdResume
  <2>2. troubles' # 0 \/ overruns' # 0
    BY <1>2, <1>3, <2>1 DEF CountInv, Alone
  <2>3. overruns' = 0 => Settled
    BY <1>1, <2>1 DEF SleepEnds, Counted
  <2>4. CASE CreateRecorder /\ status = 0
    <3>1. PICK r \in Recorders : Alive' \subseteq Alive \cup {r}
      BY <2>4, CreateGrows
    <3>2. overruns' = 0 => Alive = {}
      BY <2>3, <2>4, SettledFacts
    <3>3. overruns' = 0 => AtMostOne' /\ AtMostTwo'
      BY <3>1, <3>2 DEF AtMostOne, AtMostTwo
    <3> QED
      BY <2>2, <3>3 DEF CountInv, Doubles, Alone
  <2>5. CASE rec' = rec
    BY <1>2, <1>3, <2>1, <2>2, <2>5, SameShrinks, ShrinkKeeps
  <2> QED
    BY <2>1, <2>4, <2>5 DEF StartNormal
<1> QED
  BY <1>4, <1>5 DEF SdThread

LEMMA DanaCounts ==
  ASSUME TypeOK, CountInv, DanaThread
  PROVE  CountInv'
<1>1. Counted /\ DanaTypes
  BY TypeParts
<1>2. UNCHANGED <<slot, card, resume, sd, fmt, formatted, troubles>>
  BY DEF DanaThread, DanaStop, DanaStopped, DanaStart, DanaSwitch, DanaWake,
         DanaRest, cardVars, sdVars, fmtVars
<1>3. overruns' = 0 => overruns = 0
  BY <1>1, SleepFacts DEF DanaThread, DanaStop, DanaStopped, DanaStart,
     DanaSwitch, DanaWake, Counted
<1>4. CASE DanaStart
  <2>1. /\ dana = "poll" /\ last # "full" /\ StartNormal
        /\ last' = "full" /\ dana' = "pause"
    BY <1>4 DEF DanaStart
  <2>2. \E r : Alive' \subseteq Alive \cup {r}
    <3>1. CASE CreateRecorder
      BY <3>1, CreateGrows
    <3>2. CASE ~CreateRecorder
      <4>1. rec' = rec
        BY <2>1, <3>2 DEF StartNormal
      <4>2. Alive' = Alive
        BY <4>1 DEF Alive
      <4> QED
        BY <4>2
    <3> QED
      BY <3>1, <3>2
  <2>3. overruns' = 0 => AtMostTwo'
    BY <1>3, <2>1, <2>2 DEF CountInv, Doubles, AtMostOne, AtMostTwo
  <2>4. overruns' = 0 /\ troubles' = 0 => AtMostOne'
    BY <1>2, <1>3, <2>1, <2>2 DEF CountInv, Alone, AtMostOne
  <2>5. Doubles'
    BY <2>1, <2>3 DEF Doubles
  <2>6. Alone'
    BY <1>2, <1>3, <2>1, <2>4 DEF CountInv, Alone
  <2> QED
    BY <2>5, <2>6 DEF CountInv
<1>5. CASE ~DanaStart
  <2>1. rec' = rec
    BY <1>5 DEF DanaThread, DanaStop, DanaStopped, DanaSwitch, DanaWake
  <2>2. /\ Alive' = Alive /\ AtMostOne' = AtMostOne /\ AtMostTwo' = AtMostTwo
        /\ NoneStarting' = NoneStarting
    BY <2>1 DEF Alive, AtMostOne, AtMostTwo, NoneStarting
  <2>3. CASE DanaStop
    <3>1. /\ dana = "poll" /\ status' = 0 /\ dana' \in {"toNo", "toAlarm"}
      BY <2>3 DEF DanaStop, StopNormal
    <3> QED
      BY <1>2, <1>3, <2>2, <3>1 DEF CountInv, Doubles, Alone
  <2>4. CASE DanaStopped
    <3>1. /\ dana \in {"toNo", "toAlarm"} /\ SleepEnds /\ dana' = "pause"
          /\ status' = status
      BY <2>4 DEF DanaStopped
    <3>2. overruns' = 0 => NoneStarting /\ (status = 0 => Alive = {})
      BY <1>1, <3>1, SettledFacts DEF SleepEnds, Counted
    <3>3. Alive = {} => AtMostOne
      BY DEF AtMostOne
    <3> QED
      BY <1>2, <1>3, <2>2, <3>1, <3>2, <3>3 DEF CountInv, Doubles, Alone
  <2>5. CASE DanaSwitch
    <3>1. dana = "poll" /\ dana' = "pause" /\ last # "full" /\ status' = status
      BY <2>5 DEF DanaSwitch
    <3> QED
      BY <1>2, <1>3, <2>2, <3>1 DEF CountInv, Doubles, Alone
  <2>6. CASE DanaWake
    <3>1. /\ dana = "pause" /\ SleepEnds /\ dana' = "poll"
          /\ last' = last /\ status' = status
      BY <2>6 DEF DanaWake
    <3>2. overruns' = 0 => NoneStarting
      BY <1>1, <3>1, SettledFacts DEF SleepEnds, Counted
    <3> QED
      BY <1>2, <1>3, <2>2, <3>1, <3>2 DEF CountInv, Doubles, Alone
  <2> QED
    BY <1>5, <2>3, <2>4, <2>5, <2>6 DEF DanaThread
<1> QED
  BY <1>4, <1>5

LEMMA CardCounts ==
  ASSUME TypeOK, CountInv, Insert \/ Remove \/ FormatCommand \/ Formatter
  PROVE  CountInv'
<1> USE DEF Formatter
<1>1. Counted
  BY TypeParts
<1>2. UNCHANGED <<rec, sd, resume, dana, last>>
  BY DEF Insert, Remove, FormatCommand, FormatNoDevice, FormatStop, FormatErase,
         FormatMount, FormatMountFails, FormatDone, CardRest, sdVars
<1>3. status' = status \/ status' = 0
  BY DEF Insert, Remove, FormatCommand, FormatNoDevice, FormatStop, FormatErase,
         FormatMount, FormatMountFails, FormatDone, StopNormal
<1>4. overruns' = 0 => overruns = 0
  BY <1>1, SleepFacts DEF Insert, Remove, FormatCommand, FormatNoDevice,
     FormatStop, FormatErase, FormatMount, FormatMountFails, FormatDone, Counted
<1>5. CASE Remove \/ FormatCommand
  <2>1. troubles' # 0
    BY <1>1, <1>5 DEF Remove, FormatCommand, Trouble, Counted
  <2> QED
    BY <1>2, <1>3, <1>4, <2>1, SameShrinks, ShrinkKeeps
<1>6. CASE Insert \/ Formatter
  <2>1. /\ troubles' = troubles
        /\ ~slot \/ fmt # "none"
    BY <1>6 DEF Insert, FormatNoDevice, FormatStop, FormatErase, FormatMount,
                FormatMountFails, FormatDone
  <2>2. overruns' # 0 \/ troubles' # 0
    BY <1>4, <2>1 DEF CountInv, Alone
  <2> QED
    BY <1>2, <1>3, <1>4, <2>1, <2>2, SameShrinks, ShrinkKeeps
<1> QED
  BY <1>5, <1>6

LEMMA RestCounts ==
  ASSUME TypeOK, CountInv,
         \/ \E r \in Recorders : Recorder(r)
         \/ PlanStep \/ UNCHANGED recordVars
  PROVE  CountInv'
<1>1. CASE \E r \in Recorders : Recorder(r)
  <2>1. UNCHANGED <<slot, card, sd, resume, fmt, formatted, dana, last, overruns>>
    BY <1>1 DEF Recorder, Begin, Open, OpenFails, Rotate, Leave, End,
                RecorderRest, history, cardVars, sdVars, fmtVars
  <2>2. troubles' = 0 => troubles = 0
    <3>1. troubles' = troubles \/ Trouble
      BY <1>1 DEF Recorder, Begin, Open, OpenFails, Rotate, Leave, End, history
    <3> QED
      BY <3>1, TypeParts DEF Trouble, Counted
  <2> QED
    BY <1>1, <2>1, <2>2, RecorderShrinks, ShrinkKeeps DEF Alone
<1>2. CASE PlanStep \/ UNCHANGED recordVars
  <2>1. UNCHANGED <<rec, status, slot, card, sd, resume, fmt, formatted, dana,
                    last, overruns, troubles>>
    BY <1>2, PlanStepRest DEF PlanRest, cardVars, sdVars, fmtVars, recordVars,
                              history
  <2> QED
    BY <2>1, SameShrinks, ShrinkKeeps DEF Alone
<1> QED
  BY <1>1, <1>2

LEMMA InitCounts == Init => CountInv
<1> SUFFICES ASSUME Init PROVE CountInv
  OBVIOUS
<1>1. /\ rec = [r \in Recorders |-> "none"] /\ status = 0
      /\ slot \in BOOLEAN /\ card = slot /\ sd = "poll" /\ resume = FALSE
      /\ fmt = "none" /\ formatted = FALSE /\ dana = "poll" /\ last = "no"
      /\ mounted \in BOOLEAN /\ (mounted => slot)
      /\ troubles = IF mounted THEN 0 ELSE 1
  BY DEF Init
<1>2. Alive = {} /\ NoneStarting
  BY <1>1 DEF Alive, NoneStarting
<1> QED
  BY <1>1, <1>2 DEF CountInv, Doubles, Alone, AtMostOne, AtMostTwo

LEMMA CountOne ==
  ASSUME AtMostOne
  PROVE  Cardinality(Alive) <= 1
<1>1. CASE Alive = {}
  BY <1>1, FS_EmptySet
<1>2. CASE Alive # {}
  <2>1. PICK p : Alive = {p}
    BY <1>2 DEF AtMostOne
  <2> QED
    BY <2>1, FS_Singleton
<1> QED
  BY <1>1, <1>2

LEMMA CountTwo ==
  ASSUME AtMostTwo
  PROVE  Cardinality(Alive) <= 2
<1>1. CASE Alive = {}
  BY <1>1, FS_EmptySet
<1>2. CASE AtMostOne /\ Alive # {}
  <2>1. PICK p : Alive = {p}
    BY <1>2 DEF AtMostOne
  <2> QED
    BY <2>1, FS_Singleton
<1>3. CASE ~AtMostOne
  <2>1. PICK p, q \in Alive : p # q
    BY <1>3 DEF AtMostOne
  <2>2. Alive = {p} \cup {q}
    BY <2>1 DEF AtMostTwo
  <2>3. IsFiniteSet({p}) /\ Cardinality({p}) = 1
    BY FS_Singleton
  <2>4. Cardinality({p} \cup {q}) = Cardinality({p}) + 1
    BY <2>1, <2>3, FS_AddElement
  <2> QED
    BY <2>2, <2>3, <2>4
<1> QED
  BY <1>1, <1>2, <1>3

(* Whatever starts and stops: the thread of the plan starts a recorder only *)
(* beside one that was there, and before any trouble beside none.          *)
THEOREM CountInvariant == Spec => []CountInv
<1>1. TypeOK /\ CountInv /\ [Next]_recordVars => CountInv'
  BY SdCounts, DanaCounts, CardCounts, RestCounts DEF Next, PlanStep
<1> QED
  BY <1>1, InitCounts, RecordTypes, PTL DEF Spec

(* record.c:750: unless a sleep was too short there is one recorder, and   *)
(* two at most once the card has given trouble.                            *)
THEOREM RecordRecordersCounted == Spec => []RecordersCounted
<1>1. TypeOK /\ CountInv => RecordersCounted
  BY CountOne, CountTwo DEF CountInv, Doubles, Alone, RecordersCounted
<1> QED
  BY <1>1, RecordTypes, CountInvariant, PTL
==============================================================================

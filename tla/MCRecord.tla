------------------------------- MODULE MCRecord ------------------------------
(* The instance of RecordControl that TLC checks.  A behaviour is of one   *)
(* of two kinds: the app and the clock do what they like while the card    *)
(* gives no trouble and no sleep is too short; or card and sleeps give     *)
(* trouble while the app switches a plan on and off.                       *)
EXTENDS RecordControl

CONSTANTS r1, r2, r3, mon, tue

MCRecorders == {r1, r2, r3}
MCDays == {mon, tue}
MCHours == 0 .. 1

(* A part of one day, the whole of one day by a span over midnight, a part *)
(* of both days, no day at all, alarms only, and none.                     *)
MCPlans ==
  {[type |-> "full", days |-> {mon}, begin |-> 0, end |-> 0],
   [type |-> "full", days |-> {mon}, begin |-> 1, end |-> 0],
   [type |-> "full", days |-> {mon, tue}, begin |-> 0, end |-> 0],
   [type |-> "full", days |-> {}, begin |-> 0, end |-> 1],
   [type |-> "alarm", days |-> {mon}, begin |-> 0, end |-> 1],
   [type |-> "no", days |-> {mon}, begin |-> 0, end |-> 0]}

(* What the app switches between while the card gives trouble.             *)
SwitchPlans ==
  {[type |-> type, days |-> {mon}, begin |-> 0, end |-> 0] :
     type \in {"full", "no"}}

VARIABLE part

MCInit ==
  /\ Init
  /\ \/ part = "plan" /\ mounted
     \/ /\ part = "card"
        /\ saved \in SwitchPlans /\ saved.type = "full"
        /\ now.day = mon /\ now.hour = 0 /\ cfg.begin = 0

(* The bounds of the two kinds.  For the card the clock is set once, into  *)
(* the span, and a plan is set when the one before has taken effect.       *)
PlanBounds == UNCHANGED <<overruns, troubles>> /\ plans' <= 1

CardBounds ==
  /\ saved' \in SwitchPlans
  /\ now'.day = mon /\ now'.hour = 0 /\ ticks' <= 1
  /\ click' => click \/ command = "click"
  /\ plans' > plans => saved' # saved /\ plan = (saved.type = "full")

MCNext ==
  /\ Next /\ UNCHANGED part
  /\ part = "plan" => PlanBounds
  /\ part = "card" => CardBounds

MCSpec == MCInit /\ [][MCNext]_<<part, recordVars>> /\ Fairness
==============================================================================

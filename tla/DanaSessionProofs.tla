--------------------------- MODULE DanaSessionProofs ---------------------------
(***************************************************************************)
(* Proofs about the clients of the cloud, for every number of connections, *)
(* recordings and failures: no thread of a live stream outlives its        *)
(* session, and a playback that is alone plays what was asked for.         *)
(***************************************************************************)
EXTENDS DanaSession, TLAPS

(* An abort joins the video first, then the sound.                         *)
AbortsInOrder ==
  \A s \in ending :
    /\ joining[s] \in Streams
    /\ joining[s] = "audio" => stream[s]["video"] = "none"

SessionInv == StreamsKnown /\ AbortsInOrder

LEMMA InitSession == SessionInit => SessionInv
<1> SUFFICES ASSUME SessionInit PROVE SessionInv
  OBVIOUS
<1> USE SessionAssumption
<1>1. /\ up \subseteq Sessions /\ ending \subseteq up
      /\ run \in [Sessions -> SUBSET Kinds]
      /\ known \in [Sessions -> SUBSET Kinds]
  BY DEF SessionInit
<1>2. stream \in [Sessions -> [Streams -> {"none", "live", "done"}]]
  BY DEF SessionInit
<1>3. play \in [Players -> {"none", "created", "playing", "done"}]
        /\ joining \in [Sessions -> Kinds \cup {"none"}]
  BY DEF SessionInit
<1>4. /\ event \in Films \cup {"none"} /\ handle \in Films \cup {"none"}
      /\ dangling \subseteq Players
      /\ paused \in BOOLEAN /\ broken \in BOOLEAN
      /\ crowds \in Nat /\ faults \in 0 .. MaxFaults
  <2>1. event = "none" /\ handle = "none" /\ dangling = {}
          /\ paused = FALSE /\ broken = FALSE
    BY DEF SessionInit
  <2>2. crowds = 0 /\ faults = 0
    BY DEF SessionInit
  <2>3. crowds \in Nat /\ faults \in 0 .. MaxFaults
    BY <2>2
  <2>4. event \in Films \cup {"none"} /\ handle \in Films \cup {"none"}
          /\ dangling \subseteq Players
    BY <2>1
  <2> QED
    BY <2>1, <2>3, <2>4
<1>5. SessionTypeOK
  BY <1>1, <1>2, <1>3, <1>4 DEF SessionTypeOK
<1>6. \A s \in Sessions, k \in Streams : stream[s][k] = "none"
  BY DEF SessionInit
<1>7. AbortsInOrder
  BY DEF SessionInit, AbortsInOrder
<1> QED
  BY <1>5, <1>6, <1>7 DEF SessionInv, StreamsKnown

(* What the sessions say of themselves does not depend on the playbacks.   *)
PlayTypes ==
  /\ play \in [Players -> {"none", "created", "playing", "done"}]
  /\ event \in Films \cup {"none"} /\ handle \in Films \cup {"none"}
  /\ dangling \subseteq Players
  /\ paused \in BOOLEAN /\ broken \in BOOLEAN
  /\ crowds \in Nat

LEMMA FaultTyped ==
  ASSUME SessionTypeOK, faults' = faults \/ Fault
  PROVE  faults' \in 0 .. MaxFaults
  BY SessionAssumption DEF SessionTypeOK, Fault

LEMMA PlayTyped ==
  ASSUME SessionTypeOK, UNCHANGED playVars
  PROVE  PlayTypes'
  BY DEF SessionTypeOK, PlayTypes, playVars

(* Sessions and live streams as they were.                                 *)
LEMMA PlayOnly ==
  ASSUME SessionInv, UNCHANGED <<up, joining, ending, stream>>,
         run' \in [Sessions -> SUBSET Kinds],
         known' \in [Sessions -> SUBSET Kinds],
         \A s \in Sessions : known'[s] \cap Streams = known[s] \cap Streams,
         PlayTypes', faults' = faults \/ Fault
  PROVE  SessionInv'
<1>1. SessionTypeOK /\ AbortsInOrder
  BY DEF SessionInv, StreamsKnown
<1>2. SessionTypeOK'
  BY <1>1, FaultTyped DEF SessionTypeOK, PlayTypes
<1>3. ASSUME NEW s \in Sessions, NEW k \in Streams, stream'[s][k] # "none"
      PROVE  s \in up' /\ k \in known'[s]
  BY <1>3 DEF SessionInv, StreamsKnown
<1>4. AbortsInOrder'
  BY <1>1 DEF AbortsInOrder
<1> QED
  BY <1>2, <1>3, <1>4 DEF SessionInv, StreamsKnown

LEMMA DestroyTyped ==
  ASSUME SessionTypeOK, NEW p \in Players, Destroy(p)
  PROVE  /\ play' \in [Players -> {"none", "created", "playing", "done"}]
         /\ handle' \in Films \cup {"none"} /\ dangling' \subseteq Players
         /\ broken' \in BOOLEAN
  BY DEF SessionTypeOK, Destroy, Break, PlayOver

LEMMA PlayerKeeps ==
  ASSUME SessionInv, NEW p \in Players, Player(p)
  PROVE  SessionInv'
<1>1. SessionTypeOK
  BY DEF SessionInv, StreamsKnown
<1>2. UNCHANGED <<up, run, known, joining, ending, stream, event, paused,
                  crowds>>
  BY DEF Player, PlayStart, PlayStartFails, PlayStops, PlayFinishes,
         PlayDangling, PlayRest, sessionVars
<1>3. faults' = faults \/ Fault
  BY DEF Player, PlayStart, PlayStartFails, PlayStops, PlayFinishes,
         PlayDangling
<1>4. /\ play' \in [Players -> {"none", "created", "playing", "done"}]
      /\ handle' \in Films \cup {"none"} /\ dangling' \subseteq Players
      /\ broken' \in BOOLEAN
  <2>1. CASE PlayStart(p)
    BY <1>1, <2>1 DEF PlayStart, SessionTypeOK
  <2>2. CASE PlayStartFails(p)
    BY <1>1, <2>2 DEF PlayStartFails, PlayOver, Break, SessionTypeOK
  <2>3. CASE PlayStops(p) \/ PlayFinishes(p)
    BY <1>1, <2>3, DestroyTyped DEF PlayStops, PlayFinishes
  <2>4. CASE PlayDangling(p)
    BY <1>1, <2>4 DEF PlayDangling, Break, SessionTypeOK
  <2> QED
    BY <2>1, <2>2, <2>3, <2>4 DEF Player
<1>5. PlayTypes'
  BY <1>1, <1>2, <1>4 DEF PlayTypes, SessionTypeOK
<1> QED
  BY <1>1, <1>2, <1>3, <1>5, PlayOnly DEF SessionTypeOK

(* The commands about playbacks.                                           *)
LEMMA PlayCommandKeeps ==
  ASSUME SessionInv, NEW s \in Sessions, NEW f \in Films,
         \/ RecPlay(s, f) \/ RecPlayRunning(s, f) \/ RecPlayFails(s, f)
         \/ RecAction(s)
  PROVE  SessionInv'
<1>1. SessionTypeOK
  BY DEF SessionInv, StreamsKnown
<1>2. s \in Players
  BY DEF Players
<1>3. /\ UNCHANGED <<up, joining, ending, stream>>
      /\ faults' = faults \/ Fault
  BY DEF RecPlay, RecPlayRunning, RecPlayFails, RecAction, Choose, sessionVars
<1>4. /\ run' = run \/ run' = [run EXCEPT ![s] = run[s] \cup {"playback"}]
      /\ known' = known \/ known' = [known EXCEPT ![s] = @ \cup {"playback"}]
  BY DEF RecPlay, RecPlayRunning, RecPlayFails, RecAction, SetRun, sessionVars
<1>5. /\ run' \in [Sessions -> SUBSET Kinds]
      /\ known' \in [Sessions -> SUBSET Kinds]
      /\ \A t \in Sessions : known'[t] \cap Streams = known[t] \cap Streams
  <2>1. run \in [Sessions -> SUBSET Kinds] /\ known \in [Sessions -> SUBSET Kinds]
          /\ "playback" \in Kinds /\ "playback" \notin Streams
    BY <1>1 DEF SessionTypeOK, Kinds, Streams
  <2>2. run' \in [Sessions -> SUBSET Kinds]
    BY <1>4, <2>1
  <2>3. known' \in [Sessions -> SUBSET Kinds]
    BY <1>4, <2>1
  <2>4. ASSUME NEW t \in Sessions
        PROVE  known'[t] \cap Streams = known[t] \cap Streams
    BY <1>4, <2>1
  <2> QED
    BY <2>2, <2>3, <2>4
<1>6. play' \in [Players -> {"none", "created", "playing", "done"}]
  BY <1>1, <1>2 DEF RecPlay, RecPlayRunning, RecPlayFails, RecAction,
                    SessionTypeOK
<1>7. PlayTypes'
  <2>1. CASE Choose(s, f)
    <3>1. event' = f /\ crowds' \in {crowds, crowds + 1}
            /\ UNCHANGED <<handle, dangling, paused, broken>>
      BY <2>1 DEF Choose
    <3> QED
      BY <1>1, <1>6, <3>1 DEF SessionTypeOK, PlayTypes
  <2>2. CASE RecAction(s)
    <3>1. paused' \in BOOLEAN
            /\ UNCHANGED <<event, handle, dangling, broken, crowds>>
      BY <2>2 DEF RecAction
    <3> QED
      BY <1>1, <1>6, <3>1 DEF SessionTypeOK, PlayTypes
  <2> QED
    BY <2>1, <2>2 DEF RecPlay, RecPlayRunning, RecPlayFails
<1> QED
  BY <1>3, <1>5, <1>7, PlayOnly
------------------------------------------------------------------------------
(* The commands about live streams, and the threads.                       *)

LEMMA NotEnding ==
  ASSUME SessionInv, NEW s \in Sessions, joining[s] \notin Streams
  PROVE  s \notin ending
  BY DEF SessionInv, AbortsInOrder

LEMMA CreatedKeeps ==
  ASSUME SessionInv, NEW s \in Sessions, Created(s)
  PROVE  SessionInv'
<1>1. SessionTypeOK /\ AbortsInOrder
  BY DEF SessionInv, StreamsKnown
<1>2. /\ s \notin up /\ up' = up \cup {s}
      /\ run' = [run EXCEPT ![s] = {}] /\ known' = [known EXCEPT ![s] = {}]
      /\ UNCHANGED <<joining, ending, stream, playVars, faults>>
  BY DEF Created
<1>3. SessionTypeOK'
  BY <1>1, <1>2, PlayTyped DEF SessionTypeOK, PlayTypes
<1>4. ASSUME NEW t \in Sessions, NEW k \in Streams, stream'[t][k] # "none"
      PROVE  t \in up' /\ k \in known'[t]
  <2>1. t \in up /\ k \in known[t]
    BY <1>2, <1>4 DEF SessionInv, StreamsKnown
  <2> QED
    BY <1>1, <1>2, <2>1 DEF SessionTypeOK
<1>5. AbortsInOrder'
  BY <1>1, <1>2 DEF AbortsInOrder
<1> QED
  BY <1>3, <1>4, <1>5 DEF SessionInv, StreamsKnown

LEMMA StartStreamKeeps ==
  ASSUME SessionInv, NEW s \in Sessions, NEW k \in Streams,
         StartStream(s, k) \/ StartStreamFails(s, k)
  PROVE  SessionInv'
<1>1. SessionTypeOK /\ AbortsInOrder
  BY DEF SessionInv, StreamsKnown
<1>2. /\ s \in up /\ joining[s] = "none" /\ k \in Kinds
      /\ UNCHANGED <<up, joining, ending, playVars>>
  BY DEF StartStream, StartStreamFails, Asked, Kinds
<1>3. s \notin ending
  BY <1>2, NotEnding DEF Streams
<1>4. run' \in [Sessions -> SUBSET Kinds]
  BY <1>1, <1>2 DEF StartStream, StartStreamFails, SetRun, SessionTypeOK
<1>5. /\ known' \in [Sessions -> SUBSET Kinds]
      /\ \A t \in Sessions : known[t] \subseteq known'[t]
  <2>1. known' = known \/ known' = [known EXCEPT ![s] = @ \cup {k}]
    BY DEF StartStream, StartStreamFails
  <2> QED
    BY <1>1, <1>2, <2>1 DEF SessionTypeOK
<1>6. stream' = stream \/ stream' = [stream EXCEPT ![s][k] = "live"]
  BY DEF StartStream, StartStreamFails
<1>7. stream' \in [Sessions -> [Streams -> {"none", "live", "done"}]]
  BY <1>1, <1>6 DEF SessionTypeOK
<1>8. faults' \in 0 .. MaxFaults
  BY <1>1, FaultTyped DEF StartStream, StartStreamFails
<1>9. SessionTypeOK'
  BY <1>1, <1>2, <1>4, <1>5, <1>7, <1>8, PlayTyped DEF SessionTypeOK, PlayTypes
<1>10. ASSUME NEW t \in Sessions, NEW j \in Streams, stream'[t][j] # "none"
       PROVE  t \in up' /\ j \in known'[t]
  <2>1. CASE t = s /\ j = k /\ StartStream(s, k)
    BY <1>1, <1>2, <2>1 DEF StartStream, SessionTypeOK
  <2>2. CASE ~(t = s /\ j = k /\ StartStream(s, k))
    <3>1. stream'[t][j] = stream[t][j]
      BY <1>1, <2>2 DEF StartStream, StartStreamFails, SessionTypeOK
    <3>2. t \in up /\ j \in known[t]
      BY <1>10, <3>1 DEF SessionInv, StreamsKnown
    <3> QED
      BY <1>2, <1>5, <3>2
  <2> QED
    BY <2>1, <2>2
<1>11. AbortsInOrder'
  <2>1. \A t \in ending : t \in Sessions /\ stream'[t] = stream[t]
    BY <1>1, <1>3, <1>6 DEF SessionTypeOK
  <2> QED
    BY <1>1, <1>2, <2>1 DEF AbortsInOrder
<1> QED
  BY <1>9, <1>10, <1>11 DEF SessionInv, StreamsKnown

LEMMA StopKeeps ==
  ASSUME SessionInv, NEW s \in Sessions,
         (\E k \in Kinds : Stop(s, k)) \/ Aborted(s)
  PROVE  SessionInv'
<1>1. SessionTypeOK /\ AbortsInOrder
  BY DEF SessionInv, StreamsKnown
<1>2. PICK k \in Kinds, j \in Kinds \cup {"none"} :
        /\ run' = [run EXCEPT ![s] = run[s] \ {k}]
        /\ joining' = [joining EXCEPT ![s] = j]
        /\ UNCHANGED <<up, known, stream, playVars, faults>>
        /\ joining[s] = "none"
        /\ \/ ending' = ending
           \/ s \in up /\ j = "video" /\ ending' = ending \cup {s}
  BY DEF Stop, Aborted, SetRun, Asked, Kinds, Streams
<1>3. s \notin ending
  BY <1>2, NotEnding DEF Streams
<1>4. SessionTypeOK'
  BY <1>1, <1>2, PlayTyped DEF SessionTypeOK, PlayTypes
<1>5. \A t \in Sessions, i \in Streams :
        stream'[t][i] # "none" => t \in up' /\ i \in known'[t]
  BY <1>2 DEF SessionInv, StreamsKnown
<1>6. AbortsInOrder'
  <2>1. \A t \in ending : joining'[t] = joining[t]
    BY <1>1, <1>2, <1>3 DEF SessionTypeOK
  <2>2. CASE ending' = ending
    BY <1>1, <1>2, <2>1, <2>2 DEF AbortsInOrder
  <2>3. CASE j = "video" /\ ending' = ending \cup {s}
    <3>1. joining'[s] = "video"
      BY <1>1, <1>2, <2>3 DEF SessionTypeOK
    <3> QED
      BY <1>1, <1>2, <2>1, <2>3, <3>1 DEF AbortsInOrder, Streams
  <2> QED
    BY <1>2, <2>2, <2>3
<1> QED
  BY <1>4, <1>5, <1>6 DEF SessionInv, StreamsKnown

LEMMA StreamEndsKeeps ==
  ASSUME SessionInv, NEW s \in Sessions, NEW k \in Streams, StreamEnds(s, k)
  PROVE  SessionInv'
<1>1. SessionTypeOK /\ AbortsInOrder
  BY DEF SessionInv, StreamsKnown
<1>2. /\ stream[s][k] = "live" /\ stream' = [stream EXCEPT ![s][k] = "done"]
      /\ UNCHANGED <<up, run, known, joining, ending, playVars>>
      /\ faults' = faults \/ Fault
  BY DEF StreamEnds, sessionVars
<1>3. SessionTypeOK'
  BY <1>1, <1>2, PlayTyped, FaultTyped DEF SessionTypeOK, PlayTypes
<1>4. \A t \in Sessions, j \in Streams :
        stream'[t][j] = "none" <=> stream[t][j] = "none"
  BY <1>1, <1>2 DEF SessionTypeOK
<1>5. AbortsInOrder'
  BY <1>1, <1>2, <1>4 DEF AbortsInOrder, SessionTypeOK, Streams
<1> QED
  BY <1>2, <1>3, <1>4, <1>5 DEF SessionInv, StreamsKnown

(* A thread that was joined is gone, and with it its id.                   *)
LEMMA JoinedFacts ==
  ASSUME SessionInv, NEW s \in Sessions, NEW k \in Streams,
         stream' = [stream EXCEPT ![s][k] = "none"],
         known' = [known EXCEPT ![s] = @ \ {k}]
  PROVE  /\ stream' \in [Sessions -> [Streams -> {"none", "live", "done"}]]
         /\ known' \in [Sessions -> SUBSET Kinds]
         /\ stream'[s][k] = "none"
         /\ \A t \in Sessions, j \in Streams :
              stream'[t][j] # "none" => /\ stream[t][j] # "none"
                                        /\ t \in up /\ j \in known'[t]
<1>1. SessionTypeOK
  BY DEF SessionInv, StreamsKnown
<1>2. /\ stream' \in [Sessions -> [Streams -> {"none", "live", "done"}]]
      /\ known' \in [Sessions -> SUBSET Kinds]
      /\ stream'[s][k] = "none"
  BY <1>1 DEF SessionTypeOK
<1>3. ASSUME NEW t \in Sessions, NEW j \in Streams, stream'[t][j] # "none"
      PROVE  stream[t][j] # "none" /\ t \in up /\ j \in known'[t]
  <2>1. ~(t = s /\ j = k)
    BY <1>2, <1>3
  <2>2. stream'[t][j] = stream[t][j]
    BY <1>1, <2>1 DEF SessionTypeOK
  <2>3. t \in up /\ j \in known[t]
    BY <1>3, <2>2 DEF SessionInv, StreamsKnown
  <2> QED
    BY <1>1, <1>3, <2>1, <2>2, <2>3 DEF SessionTypeOK
<1> QED
  BY <1>2, <1>3

LEMMA JoinStreamKeeps ==
  ASSUME SessionInv, NEW s \in Sessions, NEW k \in Streams, JoinStream(s, k)
  PROVE  SessionInv'
<1>1. SessionTypeOK /\ AbortsInOrder
  BY DEF SessionInv, StreamsKnown
<1>2. /\ s \notin ending
      /\ stream' = [stream EXCEPT ![s][k] = "none"]
      /\ known' = [known EXCEPT ![s] = @ \ {k}]
      /\ joining' = [joining EXCEPT ![s] = "none"]
      /\ UNCHANGED <<up, run, ending, playVars, faults>>
  BY DEF JoinStream
<1>3. SessionTypeOK'
  BY <1>1, <1>2, JoinedFacts, PlayTyped DEF SessionTypeOK, PlayTypes
<1>4. AbortsInOrder'
  <2>1. \A t \in ending : joining'[t] = joining[t] /\ stream'[t] = stream[t]
    BY <1>1, <1>2 DEF SessionTypeOK
  <2> QED
    BY <1>1, <1>2, <2>1 DEF AbortsInOrder
<1> QED
  BY <1>2, <1>3, <1>4, JoinedFacts DEF SessionInv, StreamsKnown

LEMMA JoinPlaybackKeeps ==
  ASSUME SessionInv, NEW s \in Sessions, JoinPlayback(s)
  PROVE  SessionInv'
<1>1. SessionTypeOK /\ AbortsInOrder
  BY DEF SessionInv, StreamsKnown
<1>2. /\ joining[s] = "playback"
      /\ play' = [play EXCEPT ![s] = "none"]
      /\ known' = [known EXCEPT ![s] = @ \ {"playback"}]
      /\ joining' = [joining EXCEPT ![s] = "none"]
      /\ UNCHANGED <<up, run, ending, stream, event, handle, dangling, paused,
                     broken, crowds, faults>>
  BY DEF JoinPlayback
<1>3. s \notin ending
  BY <1>2, NotEnding DEF Streams
<1>4. SessionTypeOK'
  BY <1>1, <1>2 DEF SessionTypeOK
<1>5. ASSUME NEW t \in Sessions, NEW j \in Streams, stream'[t][j] # "none"
      PROVE  t \in up' /\ j \in known'[t]
  <2>1. t \in up /\ j \in known[t]
    BY <1>2, <1>5 DEF SessionInv, StreamsKnown
  <2> QED
    BY <1>1, <1>2, <2>1 DEF SessionTypeOK, Streams
<1>6. AbortsInOrder'
  <2>1. \A t \in ending : joining'[t] = joining[t]
    BY <1>1, <1>2, <1>3 DEF SessionTypeOK
  <2> QED
    BY <1>1, <1>2, <2>1 DEF AbortsInOrder
<1> QED
  BY <1>4, <1>5, <1>6 DEF SessionInv, StreamsKnown

LEMMA AbortAudioKeeps ==
  ASSUME SessionInv, NEW s \in Sessions, AbortAudio(s)
  PROVE  SessionInv'
<1> DEFINE k == "video"
<1>1. SessionTypeOK /\ AbortsInOrder
  BY DEF SessionInv, StreamsKnown
<1>2. /\ stream' = [stream EXCEPT ![s][k] = "none"]
      /\ known' = [known EXCEPT ![s] = @ \ {k}]
      /\ run' = [run EXCEPT ![s] = run[s] \ {"audio"}]
      /\ joining' = [joining EXCEPT ![s] = "audio"]
      /\ UNCHANGED <<up, ending, playVars, faults>>
  BY DEF AbortAudio, Joined, SetRun
<1>3. k \in Streams
  BY DEF Streams
<1>4. SessionTypeOK'
  <2>1. joining' \in [Sessions -> Kinds \cup {"none"}]
          /\ run' \in [Sessions -> SUBSET Kinds]
    BY <1>1, <1>2 DEF SessionTypeOK, Kinds, Streams
  <2> HIDE DEF k
  <2> QED
    BY <1>1, <1>2, <1>3, <2>1, JoinedFacts, PlayTyped
       DEF SessionTypeOK, PlayTypes
<1>5. AbortsInOrder'
  <2>1. \A t \in ending : t # s => joining'[t] = joining[t]
                                     /\ stream'[t] = stream[t]
    BY <1>1, <1>2 DEF SessionTypeOK
  <2>2. joining'[s] = "audio" /\ stream'[s]["video"] = "none"
    BY <1>1, <1>2, <1>3 DEF SessionTypeOK
  <2> QED
    BY <1>1, <1>2, <2>1, <2>2 DEF AbortsInOrder, Streams
<1> HIDE DEF k
<1> QED
  BY <1>2, <1>3, <1>4, <1>5, JoinedFacts DEF SessionInv, StreamsKnown

LEMMA LeavePlaybackTyped ==
  ASSUME SessionTypeOK, NEW s \in Sessions, LeavePlayback(s)
  PROVE  /\ play' \in [Players -> {"none", "created", "playing", "done"}]
         /\ dangling' \subseteq Players /\ crowds' \in Nat
<1>1. s \in Players /\ Strays \subseteq Players
  BY DEF Players
<1>2. CASE s \in Live
  <2>1. PICK p \in Strays :
          /\ play' = [play EXCEPT ![p] = play[s], ![s] = "none"]
          /\ dangling' = IF s \in dangling THEN (dangling \ {s}) \cup {p}
                                           ELSE dangling
          /\ crowds' = crowds + 1
    BY <1>2 DEF LeavePlayback
  <2>2. p \in Players /\ play[s] \in {"none", "created", "playing", "done"}
    BY <1>1 DEF SessionTypeOK
  <2>3. play' \in [Players -> {"none", "created", "playing", "done"}]
    BY <2>1, <2>2 DEF SessionTypeOK
  <2>4. dangling' \subseteq Players /\ crowds' \in Nat
    BY <2>1, <2>2 DEF SessionTypeOK
  <2> QED
    BY <2>3, <2>4
<1>3. CASE s \notin Live
  BY <1>1, <1>3 DEF LeavePlayback, SessionTypeOK
<1> QED
  BY <1>2, <1>3

LEMMA FreeKeeps ==
  ASSUME SessionInv, NEW s \in Sessions, Free(s)
  PROVE  SessionInv'
<1> DEFINE k == "audio"
<1>1. SessionTypeOK /\ AbortsInOrder
  BY DEF SessionInv, StreamsKnown
<1>2. /\ s \in ending /\ joining[s] = "audio"
      /\ stream' = [stream EXCEPT ![s][k] = "none"]
      /\ known' = [known EXCEPT ![s] = @ \ {k}]
      /\ up' = up \ {s} /\ ending' = ending \ {s}
      /\ joining' = [joining EXCEPT ![s] = "none"]
      /\ UNCHANGED <<run, event, handle, paused, broken, faults>>
      /\ LeavePlayback(s)
  BY DEF Free, Joined, Gone
<1>3. k \in Streams
  BY DEF Streams
<1>4. \A j \in Streams : stream'[s][j] = "none"
  <2>1. stream[s]["video"] = "none"
    BY <1>1, <1>2 DEF AbortsInOrder
  <2> QED
    BY <1>1, <1>2, <2>1 DEF SessionTypeOK, Streams
<1>5. SessionTypeOK'
  <2>1. /\ joining' \in [Sessions -> Kinds \cup {"none"}]
        /\ up' \subseteq Sessions /\ ending' \subseteq up'
    BY <1>1, <1>2 DEF SessionTypeOK
  <2> HIDE DEF k
  <2> QED
    BY <1>1, <1>2, <1>3, <2>1, JoinedFacts, LeavePlaybackTyped
       DEF SessionTypeOK
<1>6. ASSUME NEW t \in Sessions, NEW j \in Streams, stream'[t][j] # "none"
      PROVE  t \in up' /\ j \in known'[t]
  <2>1. t # s
    BY <1>4, <1>6
  <2> HIDE DEF k
  <2> QED
    BY <1>2, <1>3, <1>6, <2>1, JoinedFacts
<1>7. AbortsInOrder'
  <2>1. \A t \in ending' : joining'[t] = joining[t] /\ stream'[t] = stream[t]
    BY <1>1, <1>2 DEF SessionTypeOK
  <2> QED
    BY <1>1, <1>2, <2>1 DEF AbortsInOrder
<1> QED
  BY <1>5, <1>6, <1>7 DEF SessionInv, StreamsKnown
------------------------------------------------------------------------------
LEMMA NextSession == SessionInv /\ [SessionNext]_danaVars => SessionInv'
<1> SUFFICES ASSUME SessionInv, [SessionNext]_danaVars PROVE SessionInv'
  OBVIOUS
<1>1. ASSUME NEW s \in Sessions, Session(s) PROVE SessionInv'
  <2>1. CASE Created(s)
    BY <2>1, CreatedKeeps
  <2>2. CASE Aborted(s) \/ \E k \in Kinds : Stop(s, k)
    BY <2>2, StopKeeps
  <2>3. CASE \E k \in Streams : StartStream(s, k) \/ StartStreamFails(s, k)
    BY <2>3, StartStreamKeeps
  <2>4. CASE \E f \in Films : RecPlay(s, f) \/ RecPlayRunning(s, f)
                                \/ RecPlayFails(s, f)
    BY <2>4, PlayCommandKeeps
  <2>5. CASE RecAction(s)
    <3>1. UNCHANGED <<up, joining, ending, stream, run, known, faults>>
      BY <2>5 DEF RecAction, sessionVars
    <3>2. SessionTypeOK
      BY DEF SessionInv, StreamsKnown
    <3>3. PlayTypes'
      BY <2>5, <3>2 DEF RecAction, SessionTypeOK, PlayTypes
    <3> QED
      BY <3>1, <3>2, <3>3, PlayOnly DEF SessionTypeOK
  <2> QED
    BY <1>1, <2>1, <2>2, <2>3, <2>4, <2>5 DEF Session
<1>2. ASSUME NEW s \in Sessions, Returns(s) PROVE SessionInv'
  BY <1>2, JoinStreamKeeps, JoinPlaybackKeeps, AbortAudioKeeps, FreeKeeps
     DEF Returns
<1>3. CASE UNCHANGED danaVars
  <2>1. SessionTypeOK
    BY DEF SessionInv, StreamsKnown
  <2>2. UNCHANGED <<up, joining, ending, stream, run, known, faults, playVars>>
    BY <1>3 DEF danaVars, sessionVars
  <2> QED
    BY <2>1, <2>2, PlayOnly, PlayTyped DEF SessionTypeOK
<1> QED
  BY <1>1, <1>2, <1>3, StreamEndsKeeps, PlayerKeeps DEF SessionNext

(* Whatever clients and threads do: the ids of the streams are known and   *)
(* an abort joins them in order.                                           *)
THEOREM SessionInvariant == SessionSpec => []SessionInv
  BY InitSession, NextSession, PTL DEF SessionSpec

(* danavideoconn_aborted: no thread of a live stream outlives its session  *)
(* or has an id the session has forgotten.                                 *)
THEOREM DanaStreamsKnown == SessionSpec => []StreamsKnown
<1>1. SessionInv => StreamsKnown
  BY DEF SessionInv
<1> QED
  BY <1>1, SessionInvariant, PTL
------------------------------------------------------------------------------
(* While nobody asks for a playback beside another there is one at most;   *)
(* it owns the handle, and has asked for what is shown.                    *)
Alone ==
  /\ \A p \in Strays : play[p] = "none"
  /\ \A p, q \in Live : p = q
  /\ dangling = {}
  /\ \A p \in Players :
       play[p] = "playing" => handle = event /\ handle # "none"
  /\ handle # "none" => \E p \in Players : play[p] = "playing"
  /\ Live # {} => event # "none"
  /\ broken => faults > 0

PlayInv == crowds = 0 => Alone

LEMMA InitPlay == SessionInit => PlayInv
  BY DEF SessionInit, PlayInv, Alone, Live, Players

(* What Alone speaks of is as it was.                                      *)
LEMMA AloneKept ==
  ASSUME SessionTypeOK, PlayInv,
         UNCHANGED <<play, event, handle, dangling, broken, crowds>>,
         faults' = faults \/ Fault
  PROVE  PlayInv'
<1>1. faults' = faults \/ faults' = faults + 1
  BY DEF Fault
<1>2. faults \in Nat
  BY SessionAssumption DEF SessionTypeOK
<1>3. Live' = Live
  BY DEF Live
<1>4. faults > 0 => faults' > 0
  BY <1>1, <1>2
<1> QED
  BY <1>3, <1>4 DEF PlayInv, Alone

LEMMA DestroyAlone ==
  ASSUME SessionTypeOK, Alone, NEW p \in Players, play[p] = "playing",
         Destroy(p), UNCHANGED <<event, faults>>
  PROVE  Alone'
<1>1. handle # "none"
  BY DEF Alone
<1>2. /\ handle' = "none" /\ broken' = broken
      /\ dangling' = {q \in Players : play[q] = "playing"} \ {p}
      /\ play' = [play EXCEPT ![p] = IF p \in Sessions THEN "done" ELSE "none"]
  BY <1>1 DEF Destroy, PlayOver
<1>3. \A q \in Players : play[q] \in {"created", "playing"} => q = p
  BY DEF Alone, Live
<1>4. \A q \in Players : play'[q] \notin {"created", "playing"}
  BY <1>2, <1>3 DEF SessionTypeOK
<1>5. Live' = {}
  BY <1>4 DEF Live
<1>6. dangling' = {}
  BY <1>2, <1>3
<1>7. \A q \in Strays : play'[q] = "none"
  BY <1>2, SessionAssumption DEF Alone, SessionTypeOK, Players
<1> QED
  BY <1>2, <1>4, <1>5, <1>6, <1>7 DEF Alone

LEMMA StartAlone ==
  ASSUME SessionTypeOK, Alone, NEW p \in Players, PlayStart(p)
  PROVE  Alone'
<1>1. /\ play[p] = "created" /\ p \in Live
      /\ play' = [play EXCEPT ![p] = "playing"]
      /\ UNCHANGED <<dangling, broken, faults, event>>
  BY DEF PlayStart, PlayRest, Live
<1>2. \A q \in Players : play[q] # "playing"
  BY <1>1 DEF Alone, Live
<1>3. handle = "none" /\ handle' = event /\ event # "none"
  BY <1>1, <1>2 DEF Alone, PlayStart
<1>4. p \notin Strays
  BY <1>1 DEF Alone
<1>5. \A q \in Strays : play'[q] = "none"
  BY <1>1, <1>4 DEF Alone, SessionTypeOK, Players
<1>6. Live' = Live
  BY <1>1 DEF Live, SessionTypeOK
<1>7. play'[p] = "playing"
  BY <1>1 DEF SessionTypeOK
<1> QED
  BY <1>1, <1>3, <1>5, <1>6, <1>7 DEF Alone

LEMMA StartFailsAlone ==
  ASSUME SessionTypeOK, Alone, NEW p \in Players, PlayStartFails(p)
  PROVE  Alone'
<1>1. /\ play[p] = "created" /\ p \in Live /\ handle = "none" /\ event' = event
      /\ UNCHANGED <<handle, dangling>>
  BY DEF PlayStartFails, PlayRest, Break, Live
<1>2. faults' > 0
  BY SessionAssumption DEF PlayStartFails, Fault, SessionTypeOK
<1>3. play' = play \/ play' = [play EXCEPT ![p] =
                                 IF p \in Sessions THEN "done" ELSE "none"]
  BY DEF PlayStartFails, PlayOver, Break
<1>4. p \notin Strays
  BY <1>1 DEF Alone
<1>5. \A q \in Strays : play'[q] = "none"
  BY <1>3, <1>4 DEF Alone, SessionTypeOK, Players
<1>6. /\ Live' \subseteq Live
      /\ \A q \in Players : play'[q] = "playing" => play[q] = "playing"
  BY <1>3 DEF Live, SessionTypeOK
<1> QED
  BY <1>1, <1>2, <1>5, <1>6 DEF Alone

LEMMA PlayerAlone ==
  ASSUME SessionTypeOK, PlayInv, NEW p \in Players, Player(p)
  PROVE  PlayInv'
<1> SUFFICES ASSUME crowds' = 0 PROVE Alone'
  BY DEF PlayInv
<1>1. crowds = 0 /\ event' = event
  BY DEF Player, PlayStart, PlayStartFails, PlayStops, PlayFinishes,
         PlayDangling, PlayRest
<1>2. Alone
  BY <1>1 DEF PlayInv
<1>3. CASE PlayStops(p) \/ PlayFinishes(p)
  BY <1>1, <1>2, <1>3, DestroyAlone DEF PlayStops, PlayFinishes
<1>4. CASE PlayDangling(p)
  BY <1>2, <1>4 DEF PlayDangling, Alone
<1> QED
  BY <1>2, <1>3, <1>4, StartAlone, StartFailsAlone DEF Player

LEMMA ChooseAlone ==
  ASSUME SessionTypeOK, PlayInv, NEW s \in Sessions, NEW f \in Films,
         RecPlay(s, f) \/ RecPlayRunning(s, f) \/ RecPlayFails(s, f)
  PROVE  PlayInv'
<1> SUFFICES ASSUME crowds' = 0 PROVE Alone'
  BY DEF PlayInv
<1>1. /\ event' = f /\ crowds' = IF Live = {} THEN crowds ELSE crowds + 1
      /\ UNCHANGED <<handle, dangling, broken>>
  BY DEF RecPlay, RecPlayRunning, RecPlayFails, Choose
<1>2. crowds \in Nat /\ faults \in Nat /\ f # "none"
  BY SessionAssumption DEF SessionTypeOK
<1>3. Live = {} /\ crowds = 0
  BY <1>1, <1>2
<1>4. Alone
  BY <1>3 DEF PlayInv
<1>5. \A q \in Players : play[q] \notin {"created", "playing"}
  BY <1>3 DEF Live
<1>6. handle = "none"
  BY <1>4, <1>5 DEF Alone
<1>7. play' = play \/ play' = [play EXCEPT ![s] = "created"]
  BY DEF RecPlay, RecPlayRunning, RecPlayFails
<1>8. \A q \in Players : q # s => play'[q] = play[q]
  BY <1>7 DEF SessionTypeOK
<1>9. s \in Players /\ play'[s] # "playing"
  BY <1>5, <1>7 DEF Players, SessionTypeOK
<1>10. \A q \in Strays : play'[q] = "none"
  BY <1>4, <1>8, SessionAssumption DEF Alone, Players
<1>11. Live' \subseteq {s}
  BY <1>5, <1>8 DEF Live
<1>12. \A q \in Players : play'[q] # "playing"
  BY <1>5, <1>8, <1>9
<1>13. faults' = faults \/ faults' = faults + 1
  BY DEF RecPlay, RecPlayRunning, RecPlayFails, Fault
<1>14. broken' => faults' > 0
  BY <1>1, <1>2, <1>4, <1>13 DEF Alone
<1> QED
  BY <1>1, <1>2, <1>4, <1>6, <1>10, <1>11, <1>12, <1>14 DEF Alone

(* A playback that is over leaves its session.                             *)
LEMMA OverAlone ==
  ASSUME SessionTypeOK, PlayInv, NEW s \in Sessions, s \notin Live,
         play' = [play EXCEPT ![s] = "none"],
         UNCHANGED <<event, handle, dangling, broken, crowds, faults>>
  PROVE  PlayInv'
<1>1. Live' = Live
  BY DEF Live, SessionTypeOK
<1>2. \A p \in Players : play'[p] = "playing" <=> play[p] = "playing"
  BY DEF Live, SessionTypeOK
<1>3. \A p \in Strays : play'[p] = play[p]
  BY SessionAssumption DEF SessionTypeOK, Players
<1> QED
  BY <1>1, <1>2, <1>3 DEF PlayInv, Alone

LEMMA FreeAlone ==
  ASSUME SessionTypeOK, PlayInv, NEW s \in Sessions, Free(s)
  PROVE  PlayInv'
<1>1. CASE s \in Live
  <2>1. crowds' = crowds + 1 /\ crowds \in Nat
    BY <1>1 DEF Free, Gone, LeavePlayback, SessionTypeOK
  <2> QED
    BY <2>1 DEF PlayInv
<1>2. CASE s \notin Live
  <2>1. /\ play' = [play EXCEPT ![s] = "none"]
        /\ UNCHANGED <<event, handle, dangling, broken, crowds, faults>>
    BY <1>2 DEF Free, Gone, LeavePlayback
  <2> QED
    BY <1>2, <2>1, OverAlone
<1> QED
  BY <1>1, <1>2

LEMMA NextPlay ==
  SessionTypeOK /\ PlayInv /\ [SessionNext]_danaVars => PlayInv'
<1> SUFFICES ASSUME SessionTypeOK, PlayInv, [SessionNext]_danaVars
             PROVE  PlayInv'
  OBVIOUS
<1>1. ASSUME NEW s \in Sessions, Session(s) PROVE PlayInv'
  <2>1. CASE \E f \in Films : RecPlay(s, f) \/ RecPlayRunning(s, f)
                                \/ RecPlayFails(s, f)
    BY <2>1, ChooseAlone
  <2>2. CASE Created(s) \/ Aborted(s) \/ \E k \in Kinds : Stop(s, k)
    BY <2>2, AloneKept DEF Created, Aborted, Stop, playVars
  <2>3. CASE \E k \in Streams : StartStream(s, k) \/ StartStreamFails(s, k)
    BY <2>3, AloneKept DEF StartStream, StartStreamFails, playVars
  <2>4. CASE RecAction(s)
    BY <2>4, AloneKept DEF RecAction
  <2> QED
    BY <1>1, <2>1, <2>2, <2>3, <2>4 DEF Session
<1>2. ASSUME NEW s \in Sessions, Returns(s) PROVE PlayInv'
  <2>1. CASE (\E k \in Streams : JoinStream(s, k)) \/ AbortAudio(s)
    BY <2>1, AloneKept DEF JoinStream, AbortAudio, playVars
  <2>2. CASE JoinPlayback(s)
    BY <2>2, OverAlone DEF JoinPlayback, Live
  <2> QED
    BY <1>2, <2>1, <2>2, FreeAlone DEF Returns
<1>3. CASE \E s \in Sessions, k \in Streams : StreamEnds(s, k)
  BY <1>3, AloneKept DEF StreamEnds, playVars
<1>4. CASE UNCHANGED danaVars
  BY <1>4, AloneKept DEF danaVars, playVars
<1> QED
  BY <1>1, <1>2, <1>3, <1>4, PlayerAlone DEF SessionNext

(* Whatever clients and threads do: a playback that is alone owns handle   *)
(* and choice.                                                             *)
THEOREM PlayInvariant == SessionSpec => []PlayInv
<1>1. SessionInv => SessionTypeOK
  BY DEF SessionInv, StreamsKnown
<1> QED
  BY <1>1, InitPlay, NextPlay, SessionInvariant, PTL DEF SessionSpec

(* pDanaAvEvent and gs_pPBHandle: a playback that is alone shows the film  *)
(* asked for last and, without a failure, uses no handle that is gone.     *)
THEOREM DanaPlaybackSound == SessionSpec => []PlaybackSound
<1>1. PlayInv => PlaybackSound
  BY DEF PlayInv, Alone, PlaybackSound
<1> QED
  BY <1>1, PlayInvariant, PTL
==============================================================================

----------------------------- MODULE DanaSession ------------------------------
(***************************************************************************)
(* The clients of the cloud (testdanavideo.c).  For each connection the    *)
(* library calls danavideoconn_created, the command handler and            *)
(* danavideoconn_aborted, one call at a time.  Commands start a thread     *)
(* each for live video, live sound and the playback of a recording; to     *)
(* stop one clears its flag and joins it.                                  *)
(*                                                                         *)
(* Live streams belong to their session.  Playbacks do not: what to play   *)
(* (pDanaAvEvent), the open file (gs_pPBHandle) and the pause are shared   *)
(* by all sessions, and an aborted session leaves its playback running.    *)
(* Where the C code uses a handle that is gone the model says "broken" and *)
(* ends; the properties say what it takes to get there.                    *)
(***************************************************************************)
EXTENDS Integers, FiniteSets

CONSTANTS
  Sessions,   \* connections
  Strays,     \* playbacks that go on without their session
  Films,      \* recordings on the card
  Wants,      \* what each client may ask for
  MaxCrowds,  \* bound: playbacks that are asked for or left beside another
  MaxFaults   \* bound: threads that cannot be created, memory and files

Streams == {"video", "audio"}
Kinds == Streams \cup {"playback"}

Players == Sessions \cup Strays

ASSUME SessionAssumption ==
  /\ IsFiniteSet(Sessions) /\ IsFiniteSet(Strays)
  /\ Sessions \cap Strays = {}
  /\ "none" \notin Films
  /\ Wants \in [Sessions -> SUBSET Kinds]
  /\ MaxCrowds \in Nat /\ MaxFaults \in Nat

VARIABLES
  up,        \* sessions with a MYDATA
  run,       \* run_media, run_audio_media, run_history_media
  known,     \* the threads whose id is not 0
  stream,    \* the threads of the live streams
  play,      \* the threads of the playbacks
  joining,   \* what the handler of a session waits for
  ending,    \* sessions whose abort is under way
  event,     \* pDanaAvEvent: what was asked for last
  handle,    \* gs_pPBHandle: NULL or the film that is open
  dangling,  \* playbacks whose pPBHandle was freed by another
  paused,    \* gsi_danale_recplayback_pause
  broken,    \* a freed or NULL handle was used
  crowds,    \* history: playbacks asked for or left beside another
  faults     \* history: failures

sessionVars == <<up, run, known, joining, ending>>
playVars == <<play, event, handle, dangling, paused, broken, crowds>>

danaVars == <<sessionVars, stream, playVars, faults>>

SessionInit ==
  /\ up = {} /\ ending = {}
  /\ run = [s \in Sessions |-> {}] /\ known = [s \in Sessions |-> {}]
  /\ stream = [s \in Sessions |-> [k \in Streams |-> "none"]]
  /\ play = [p \in Players |-> "none"]
  /\ joining = [s \in Sessions |-> "none"]
  /\ event = "none" /\ handle = "none" /\ dangling = {}
  /\ paused = FALSE /\ broken = FALSE
  /\ crowds = 0 /\ faults = 0

Fault ==
  faults < MaxFaults /\ faults' = faults + 1

Live == {p \in Players : play[p] \in {"created", "playing"}}

------------------------------------------------------------------------------
(* danavideoconn_created                                                   *)

Created(s) ==
  /\ s \notin up
  /\ up' = up \cup {s}
  /\ run' = [run EXCEPT ![s] = {}] /\ known' = [known EXCEPT ![s] = {}]
  /\ UNCHANGED <<joining, ending, stream, playVars, faults>>

------------------------------------------------------------------------------
(* danavideoconn_command_handler: the live streams                         *)

Asked(s, k) == s \in up /\ joining[s] = "none" /\ k \in Wants[s]

SetRun(s, ks) == run' = [run EXCEPT ![s] = ks]

(* DANAVIDEOCMD_STARTVIDEO and STARTAUDIO, unless it is started already.   *)
StartStream(s, k) ==
  /\ Asked(s, k) /\ k \notin run[s]
  /\ SetRun(s, run[s] \cup {k})
  /\ known' = [known EXCEPT ![s] = @ \cup {k}]
  /\ stream' = [stream EXCEPT ![s][k] = "live"]
  /\ UNCHANGED <<up, joining, ending, playVars, faults>>

(* No thread: the flag of the sound stays, that of the video does not.     *)
StartStreamFails(s, k) ==
  /\ Asked(s, k) /\ k \notin run[s] /\ Fault
  /\ SetRun(s, IF k = "audio" THEN run[s] \cup {k} ELSE run[s])
  /\ UNCHANGED <<up, known, joining, ending, stream, playVars>>

(* Mutant: the thread is joined but not told to end.                       *)
StopJoinsOnly(s, k) ==
  /\ Asked(s, k) /\ k \in run[s]
  /\ joining' = [joining EXCEPT ![s] = IF k \in known[s] THEN k ELSE "none"]
  /\ UNCHANGED <<up, run, known, ending, stream, playVars, faults>>

(* DANAVIDEOCMD_STOPVIDEO, STOPAUDIO and RECSTOP.                          *)
Stop(s, k) ==
  /\ Asked(s, k)
  /\ SetRun(s, run[s] \ {k})
  /\ joining' = [joining EXCEPT ![s] = IF k \in known[s] THEN k ELSE "none"]
  /\ UNCHANGED <<up, known, ending, stream, playVars, faults>>

JoinStream(s, k) ==
  /\ joining[s] = k /\ s \notin ending
  /\ stream[s][k] = "done"
  /\ stream' = [stream EXCEPT ![s][k] = "none"]
  /\ known' = [known EXCEPT ![s] = @ \ {k}]
  /\ joining' = [joining EXCEPT ![s] = "none"]
  /\ UNCHANGED <<up, run, ending, playVars, faults>>

JoinPlayback(s) ==
  /\ joining[s] = "playback"
  /\ play[s] = "done"
  /\ play' = [play EXCEPT ![s] = "none"]
  /\ known' = [known EXCEPT ![s] = @ \ {"playback"}]
  /\ joining' = [joining EXCEPT ![s] = "none"]
  /\ UNCHANGED <<up, run, ending, stream, event, handle, dangling, paused,
                 broken, crowds, faults>>

(* th_media and th_audio_media: out of the loop, or no buffer for it.      *)
StreamEnds(s, k) ==
  /\ stream[s][k] = "live"
  /\ \/ k \notin run[s] /\ UNCHANGED faults
     \/ Fault
  /\ stream' = [stream EXCEPT ![s][k] = "done"]
  /\ UNCHANGED <<sessionVars, playVars>>

------------------------------------------------------------------------------
(* DANAVIDEOCMD_RECPLAY and RECACTION                                      *)

(* Every playback may still be left beside another: so much stays free.    *)
MayCrowd == crowds + Cardinality(Live \cap Sessions) + 2 <= MaxCrowds

Choose(s, f) ==
  /\ Asked(s, "playback") /\ MayCrowd
  /\ event' = f
  /\ crowds' = IF Live = {} THEN crowds ELSE crowds + 1
  /\ UNCHANGED <<up, joining, ending, stream, handle, dangling, paused,
                 broken>>

RecPlay(s, f) ==
  /\ Choose(s, f) /\ "playback" \notin run[s]
  /\ SetRun(s, run[s] \cup {"playback"})
  /\ known' = [known EXCEPT ![s] = @ \cup {"playback"}]
  /\ play' = [play EXCEPT ![s] = "created"]
  /\ UNCHANGED faults

(* Its playback has not been stopped, even if it has ended: the film is    *)
(* chosen but not played.                                                  *)
RecPlayRunning(s, f) ==
  /\ Choose(s, f) /\ "playback" \in run[s]
  /\ UNCHANGED <<run, known, play, faults>>

RecPlayFails(s, f) ==
  /\ Choose(s, f) /\ "playback" \notin run[s] /\ Fault
  /\ UNCHANGED <<run, known, play>>

RecAction(s) ==
  /\ Asked(s, "playback")
  /\ paused' = ~paused
  /\ UNCHANGED <<sessionVars, stream, play, event, handle, dangling, broken,
                 crowds, faults>>

------------------------------------------------------------------------------
(* th_history_media                                                        *)

PlayRest == UNCHANGED <<sessionVars, stream, event, paused, crowds>>

Break == broken' = TRUE /\ UNCHANGED <<play, handle, dangling>>

(* A stray reads its flag in memory that was freed.                        *)
StopSeen(p) == p \in Sessions => "playback" \notin run[p]
GoesOn(p) == p \in Sessions => "playback" \in run[p]

(* dana_playback_handle_create: a handle of another is used as it is.      *)
PlayStart(p) ==
  /\ play[p] = "created"
  /\ handle' = IF handle = "none" THEN event ELSE handle
  /\ play' = [play EXCEPT ![p] = "playing"]
  /\ UNCHANGED <<dangling, broken, faults>> /\ PlayRest

PlayOver(p) ==
  play' = [play EXCEPT ![p] = IF p \in Sessions THEN "done" ELSE "none"]

(* The file cannot be opened: its own new handle is destroyed.  Without    *)
(* memory for the handle there is none to destroy.  The result of the read *)
(* of header and index is not looked at: without an index the playback     *)
(* reads through a null pointer and the program ends.                      *)
PlayStartFails(p) ==
  /\ play[p] = "created" /\ handle = "none" /\ Fault
  /\ \/ PlayOver(p) /\ UNCHANGED <<handle, dangling, broken>>
     \/ Break
  /\ PlayRest

(* Mutant: only a playback that ends by itself destroys the handle.        *)
PlayStopsOnly(p) ==
  /\ play[p] = "playing" /\ StopSeen(p)
  /\ PlayOver(p)
  /\ dangling' = dangling \ {p}
  /\ UNCHANGED <<handle, broken, faults>> /\ PlayRest

(* dana_playback_handle_destroy: whosever handle it is.                    *)
Destroy(p) ==
  IF handle = "none"
  THEN Break
  ELSE /\ handle' = "none"
       /\ dangling' = {q \in Players : play[q] = "playing"} \ {p}
       /\ PlayOver(p)
       /\ UNCHANGED broken

(* The flag was cleared.                                                   *)
PlayStops(p) ==
  /\ play[p] = "playing" /\ StopSeen(p)
  /\ Destroy(p)
  /\ UNCHANGED faults /\ PlayRest

(* The film is over; until RECSTOP the flag says that it is played.        *)
PlayFinishes(p) ==
  /\ play[p] = "playing" /\ GoesOn(p) /\ ~paused /\ p \notin dangling
  /\ Destroy(p)
  /\ UNCHANGED faults /\ PlayRest

(* Another destroyed the handle it reads from.                             *)
PlayDangling(p) ==
  /\ p \in dangling /\ GoesOn(p) /\ ~paused
  /\ Break
  /\ UNCHANGED faults /\ PlayRest

Player(p) ==
  PlayStart(p) \/ PlayStartFails(p) \/ PlayStops(p) \/ PlayFinishes(p)
    \/ PlayDangling(p)

------------------------------------------------------------------------------
(* danavideoconn_aborted: video first, then the sound, then the memory.    *)

Aborted(s) ==
  /\ s \in up \ ending /\ joining[s] = "none"
  /\ ending' = ending \cup {s}
  /\ SetRun(s, run[s] \ {"video"})
  /\ joining' = [joining EXCEPT ![s] = "video"]
  /\ UNCHANGED <<up, known, stream, playVars, faults>>

Joined(s, k) ==
  /\ s \in ending /\ joining[s] = k
  /\ k \in known[s] => stream[s][k] = "done"
  /\ stream' = [stream EXCEPT ![s][k] = "none"]
  /\ known' = [known EXCEPT ![s] = @ \ {k}]

AbortAudio(s) ==
  /\ Joined(s, "video")
  /\ SetRun(s, run[s] \ {"audio"})
  /\ joining' = [joining EXCEPT ![s] = "audio"]
  /\ UNCHANGED <<up, ending, playVars, faults>>

(* A playback is neither stopped nor joined.                               *)
LeavePlayback(s) ==
  IF s \in Live
  THEN \E p \in Strays :
         /\ play[p] = "none"
         /\ play' = [play EXCEPT ![p] = play[s], ![s] = "none"]
         /\ dangling' = IF s \in dangling THEN (dangling \ {s}) \cup {p}
                                          ELSE dangling
         /\ crowds' = crowds + 1
  ELSE /\ play' = [play EXCEPT ![s] = "none"]
       /\ UNCHANGED <<dangling, crowds>>

Gone(s) ==
  /\ up' = up \ {s} /\ ending' = ending \ {s}
  /\ joining' = [joining EXCEPT ![s] = "none"]
  /\ LeavePlayback(s)
  /\ UNCHANGED <<run, event, handle, paused, broken, faults>>

(* Mutant: the sound is told to end but not joined.                        *)
FreeAtOnce(s) ==
  /\ s \in ending /\ joining[s] = "audio"
  /\ Gone(s)
  /\ UNCHANGED <<known, stream>>

Free(s) == Joined(s, "audio") /\ Gone(s)

------------------------------------------------------------------------------
Session(s) ==
  \/ Created(s) \/ Aborted(s)
  \/ \E k \in Streams : StartStream(s, k) \/ StartStreamFails(s, k)
  \/ \E k \in Kinds : Stop(s, k)
  \/ \E f \in Films : RecPlay(s, f) \/ RecPlayRunning(s, f)
                        \/ RecPlayFails(s, f)
  \/ RecAction(s)

Returns(s) ==
  \/ \E k \in Streams : JoinStream(s, k)
  \/ JoinPlayback(s) \/ AbortAudio(s) \/ Free(s)

SessionNext ==
  /\ ~broken
  /\ \/ \E s \in Sessions : Session(s) \/ Returns(s)
     \/ \E s \in Sessions, k \in Streams : StreamEnds(s, k)
     \/ \E p \in Players : Player(p)

SessionSpec == SessionInit /\ [][SessionNext]_danaVars

(* Threads that are told to end and handlers go on; clients need not, and  *)
(* nothing has to fail.                                                    *)
SessionFairness ==
  /\ \A s \in Sessions : WF_danaVars(~broken /\ Returns(s))
  /\ \A s \in Sessions, k \in Streams :
       WF_danaVars(~broken /\ k \notin run[s] /\ StreamEnds(s, k))
  /\ \A p \in Players : WF_danaVars(~broken /\ Player(p))

------------------------------------------------------------------------------
(* Properties.                                                             *)

SessionTypeOK ==
  /\ up \subseteq Sessions /\ ending \subseteq up
  /\ run \in [Sessions -> SUBSET Kinds]
  /\ known \in [Sessions -> SUBSET Kinds]
  /\ stream \in [Sessions -> [Streams -> {"none", "live", "done"}]]
  /\ play \in [Players -> {"none", "created", "playing", "done"}]
  /\ joining \in [Sessions -> Kinds \cup {"none"}]
  /\ event \in Films \cup {"none"} /\ handle \in Films \cup {"none"}
  /\ dangling \subseteq Players
  /\ paused \in BOOLEAN /\ broken \in BOOLEAN
  /\ crowds \in Nat /\ faults \in 0 .. MaxFaults

(* danavideoconn_aborted frees what the threads read: no thread of a live  *)
(* stream may outlive its session, and none may run whose id the session   *)
(* has forgotten, for nobody could join it any more.                       *)
StreamsKnown ==
  /\ SessionTypeOK
  /\ \A s \in Sessions, k \in Streams :
       stream[s][k] # "none" => s \in up /\ k \in known[s]

(* As long as nobody asks for a playback beside another and no session     *)
(* with one is aborted, the film that is open is the one asked for last,   *)
(* and without a failure no playback uses a handle that is gone.           *)
PlaybackSound ==
  crowds = 0 =>
    /\ \A p \in Players : play[p] = "playing" => handle = event
    /\ broken => faults > 0

(* Whatever the handler waits for ends, and it returns to the library.     *)
SessionsReturn ==
  \A s \in Sessions : joining[s] # "none" ~> joining[s] = "none" \/ broken
==============================================================================

# Verification of the camera's frame rings, recordings and cloud sessions

TLA+ models, TLC runs and TLAPS proofs for the program under `src/source`: an IP
camera whose encoder process publishes video and audio frames through shared
memory (`libshmav`) to recorders and to the client of a cloud (`main_engine`).
Modelled are the rings themselves, where processes meet; who starts and stops
the recording to the SD card; the AVI file a recorder writes; and the cloud's
sessions with their playbacks and uploads, where the threads of one process
meet.

## The system

| part | state it keeps | operations | hard behaviour |
|---|---|---|---|
| ring and writer (`shm_write_class.cpp`, `shm_base_class.*`) | the segment: `ShmHead` (magic, newest position and sequence number), frames with heads that link forward and back; the writer's next position and number | constructor (formats), `WriteFrame`, detach | wrap at the end of the segment, stale laps that are never cleared, death inside `WriteFrame`, restart under readers |
| reader operations (`shm_read_class.cpp`) | a position and a number the caller keeps | `ReadFrame`, `MoveBack`, `MoveForward`, `Refresh`, `GetExtras`, `Distance2Newest` | the position may have been overwritten, formatted, or be the place the writer fills next |
| reader interface (`shm_read.cpp`) | table of ids per media type, one shared `ShmRead` per profile, a mutex per media type | init, copy, remove, read, refresh, back, forward, compare, distance, extras | a call takes the semaphore once per step; the writer goes on between the steps |
| semaphore (`SemLock` in `shm_base_class.cpp`) | a System V semaphore, the kernel's undo counts | `Lock`, `UnLock` | processes that end inside, interrupted waits whose failure is only printed |
| capture threads (`shm_write.cpp`) | maps of writers per profile | init, write, detach, capture loops | maps changed without a lock |
| recording (`main_engine/storage/src/record.c`, `storage.c`) | `g_normal_status`, the recorder threads | start, stop, the recorder's loop | the recorder sets and clears the flag itself; a stop sleeps a second instead of joining |
| SD card (`mmc_api.c`, format command) | `g_sd_tats`, `g_format_SDcard`, `SD_CARD_FORMATING`, `/var/log/has_sd_card` | detection loop, format | card pulled or erased while recording; what was interrupted must go on |
| AVI file (`grd_avi_rec_api.c`) | two file handles, frame buffer, index array, counters | open, write a frame, close | writes that fail at any place, index and frames that must still agree |
| cloud sessions (`danale/src/testdanavideo.c`) | per connection: flags and thread ids; for all of them: `pDanaAvEvent`, `gs_pPBHandle`, the pause | created, commands, aborted | threads that outlive what they use, playbacks that share one handle, joins in a callback |
| cloud upload (same file) | run flags, `alarm_cloud_last_file_uploaded` | mode callback, upload threads, answer callback | mode changes while a thread sleeps; answers before they are waited for |
| recording plan (same file) | the saved parameters, `record_flags`, `SHCEDULE_PLAN_RECODER`, the click flags, the clock thread's cached `FLAG` and span | plan and time commands, clock thread, status thread | three threads over unguarded flags; what the plan says is computed only now and then |
| events (`main/src/event.c`, `event_handle.c`, `stream_cb.c`), event recorder | `pir_event` flags, alarm times | motion and PIR threads | not started by this build |
| messages, time, keep-alive, watchdog, upgrade (`main/src`) | parameters, sockets | request handlers, loops | mostly I/O |
| the rest of `danale`, P2P (`tutk`), `adapt`, `network`, `grain_codec`, `misc`, `x86_tool` | clients, parameters, devices | glue around closed libraries and devices | streaming threads that are clients of the rings |
| `goahead`, root file system, headers and binary libraries | | vendored | not the program's own logic |

The parts interact as follows. The encoder's process constructs a `ShmWrite` per
stream and calls `WriteFrame`. Any process opens a ring by an id, reads at its own
pace and is never waited for: a slow reader loses frames. All of them go through
the semaphore of the ring, one `ShmRead` or `ShmWrite` operation at a time; the
threads of one process also share a mutex, held over a whole call. The recorders
poll a video and an audio id and cut files at key frames. Four parties start and
stop them through one flag: the thread that follows the recording plan, the
thread that watches the SD card, a format of the card, and the recorders
themselves, which clear the flag when they leave. Whether a file can be created
or written depends on a second flag, `g_sd_tats`, that only the card thread
changes. The cloud's library calls the client back, one call after the other
for a connection; the client answers with threads, one for live video, one for
live sound, one for a playback from the card, and with the two upload threads.

What makes each part correct: for the ring, that whoever follows its links sees
whole frames in the order written; for a reader, that it misses nothing within a
known window, and resynchronises outside it; for the interface, that moves and
comparisons mean frames, whatever the writer does meanwhile; for the semaphore,
mutual exclusion that survives dead processes; for recording, that there is one
recorder at a time, that nobody records when the plan says no and somebody does
when it says yes, and that nobody writes to a card that is erased; for a file,
that a player finds through its index the frames that were handed over, and that
failures cost a bounded number of descriptors; for a session, that no thread
outlives what it reads and every join returns; for the upload, that the two modes
exclude each other and a film is waited for only when its answer can still come.

## Modules

| module | models | checked or proved by |
|---|---|---|
| `ShmRing` | segment and writer | runs `ring`, all `Api*` runs; proofs in `ShmRingProofs` |
| `ShmRead` | operations of a `ShmRead`, as functions on the ring | the `Api*` runs; proofs in `ShmApiProofs` |
| `ShmApi` | ids and calls, composed with writer and ring | runs `moves`, `reads`, `keyed`, `shared`, `polling`, `key_flag`; proofs in `ShmApiProofs` |
| `FrameLog` | abstract: an endless log of frames with readers | refined by `ShmApi` in run `shared` and by a theorem |
| `SemLock` | semaphore with undo, signals, exits | runs `semaphore`, `sem_signal`; proofs in `SemLockProofs` |
| `Mutex` | abstract: a lock that outlives its owner | refined by `SemLock` in run `semaphore` and by a theorem |
| `RecordControl` | recorders, plan, card thread, format | run `recording`; proofs in `RecordControlProofs` |
| `AviFile` | a recorder's file | run `avi`; proofs in `AviFileProofs` |
| `Film` | abstract: a film that starts with a key frame and grows | refined by `AviFile` in run `avi` and by a theorem |
| `DanaSession` | connections, their threads and playbacks | run `dana`; proofs in `DanaSessionProofs` |
| `CloudUpload` | upload modes and threads | run `dana`; proofs in `CloudUploadProofs` |
| `ShmRingProofs`, `SemLockProofs`, `ShmApiProofs`, `RecordControlProofs`, `AviFileProofs`, `DanaSessionProofs`, `CloudUploadProofs` | theorems | tlapm |
| `DataInduction` | lemmas: induction over sets of numbers, sums tabulated by a recursive function | tlapm |
| `MCShmRing`, `MCShmApi`, `MCSemLock`, `MCRecord`, `MCAvi`, `MCDana` | values for TLC | |

### The rings

**Memory.** A cell of `shm` is the alignment unit of `WriteFrame` (4 bytes); the
complement it adds after a frame is part of the frame's length here. Cell 0 stands
for the `ShmHead`, so position 0 is `SHM_FRAME_INITIAL_POSITION`. A head occupies
`HEAD` cells, the first of which carries magic and fields. A cell remembers which
frame wrote it (`frame`, a history field); that is what "the payload is whole" is
stated with. The bytes of a payload are taken never to equal the magic number at
a place a reader looks at. `HeadInPart` keeps the history of the cell a half-stored
head lies over. Positions outside of the frames are readable too: `FrameAt`
gives what a reader finds that follows position 0 or a link into the `ShmHead`, as
it does when it attached before the writer formatted the segment.

**Steps.** An operation that holds the semaphore is one step (`WriteFrame`,
`RefreshStep`, `MoveStep`, `ReadStep`, ...). `SHM_EMPTY_CHECK` reads before it
takes the semaphore and is a step of its own (`ReadEmptyStep`, `MoveEmptyStep`).
A call of the interface is a record `call` that holds the mutex from `Begin` to
`Return`; `SHM_GetFrameExtras` takes no mutex and may run in between. A writer may
die in `WriteFrame` between any two of its steps (`CrashInWriteFrame`), which leaves
part of its payload, a cleared next head, a half-stored or a whole head. Deaths
between the single stores of a head (`shm_write_class.cpp:99-102`), or inside the
`memset` before them, are not told apart: a head stored in part is one value
(`HeadInPart`), the new fields with or without the magic number over a payload that
is not known to be whole, and the place of that head is excepted by the
properties (`cutAt`). Constructing a
`ShmWrite` is two steps, because `InitShm` releases the semaphore before the
constructor formats the ring.

**History.** `frameNo`, `base`, `starts`, `cutAt` (the head a writer died over),
`seen` (the last frame an id got, 0 after it was repositioned) and `ret` (the call
that returned with this step) exist only for the properties.

### The recording

`RecordControl` has one process for each recorder thread (`rec`: starting, idle,
filming, leaving), for the card thread (`sd`), the format command (`fmt`), the
thread that follows the plan (`dana`), and the thread that watches the clock.
`status` is `g_normal_status`. It is set by the recorder that was created (`Begin`),
cleared by a stop and by the recorder that leaves (`End`); nobody joins anybody.
Each sleep of the code is a step that ends the sleep (`SleepEnds`). It assumes that
a second or more is enough for the recorders to look at the flag or to close
their file (`Settled`), or else counts an overrun; properties say how much they
need. `resume` is the local variable of the card thread that remembers an
interrupted recording, `last` what the plan's thread acted on last. `mounted` tells a
card that is in from one that a file can be created on: the hotplug script writes
`has_sd_card` even if no mount worked (`Insert`). `deaf` is
history: the recorders that the stop of a format cannot reach, because they set
the flag only after it or saw it set again by another.

What the plan says reaches the recorders in three stages. The command of the app
stores the parameters, the click and the type one after the other (`RecPlanSet`,
`RecPlanClick`, `RecPlanFlags`), and the clock thread may look between any two of
them. That thread decides each round by what it has cached (`cfg`: `FLAG`, here
whether today was planned, and the span); `get_param_recoder_cfg` (`Param`)
computes it again only after a click of the plan or time command (`Looked`), and
in a round that found today unplanned (`PlanOff`, for the next round). `IsInTimeSpan`
compares the time of day alone, over midnight too. `PlanIn`, `PlanOut` and
`PlanForget`, which clears the type in a store of its own, are the rest of the
round; before the clock is set (`PlanUnset`) it only clears the plan flag. `now` is
the clock: `Tick` lets it jump anywhere, as the time command, the network's time
and the hours do. The thread that follows plan and type (`dana`) is the last stage.

`AviFile` is the file of one recorder. A frame stands for its bytes, and takes its
size and one unit of headers, in the buffer (`buffer`, `bufOffset`) and in the film
(`data`, `offset`). `idxArray` and `entries` are the index entries in memory and in the
temporary file, `indexCount` and `videoCount` the counters that `avi_add_index` and
`update_avi_header` trust. A write that fails does so before or after the entries
are written (`FlushFails`); `CloseShort` is the close that finds fewer entries than
it counted. `leaked` counts handles that are overwritten while open. The
abstract `Film` knows frames and key frames only; `AviFile` implements it with
`film` being the frames found through the index of a finished file.

### The cloud

`DanaSession`: `up` are the sessions with a `MYDATA`, `run` its `run_*` flags, `known`
its thread ids that are not 0, `stream` and `play` the threads. A handler that joins
stands still (`joining`), and the session takes no other command meanwhile,
because the library calls it back one call at a time per connection.
`danavideoconn_aborted` joins video, then sound, then frees the memory (`Aborted`,
`AbortAudio`, `Free`). It leaves a playback alone, which then goes on without a session
(`Strays`). Playbacks share `event`, `handle` and `paused`; whose handle another
has destroyed is in `dangling`. Use of a freed or NULL handle is undefined, so
the model sets `broken` and stops there. `crowds` counts playbacks that are asked for
or left beside another.

`CloudUpload`: the mode callback is a sequence of steps (`changing`) that joins the
thread of the old mode and enters the new one. The alarm thread hands over a
film (`HandOver`) and only in a later step says that it waits (`Waits`), so `Answer` may
come in between (`early`). The two modules share no state; `MCDana` composes them
so that a behaviour belongs to either one (`part`).

## Runs

| run | instance | shows |
|---|---|---|
| `ring` | 21 cells of frames, heads of 2, payloads 0, 1, 2, 4, 5 of which 0 and 5 are refused, 8 frames, 2 starts, `MAX_SEQUENCE` 5 | the layout properties: `FramesIntact`, `NewestValid`, `NextHeadClear`, `LinksGoForward`, `NeighboursLinked`, and with `NewestKept` how far back frames survive |
| `moves` | 17 cells, 7 frames, moves by 1 and 2 | `MovesExactly`, `DistanceIsExact`, `ReadsEveryFrame`; a failed move puts the id back |
| `reads` | 9 cells, two buffer lengths, 6 frames, 2 starts, deaths in `WriteFrame` | `ReadsInOrder`, `TornOnlyAfterCrash`, `ReadsEveryFrame` while being lapped, restarted and cut short |
| `keyed` | H264 ring, 6 frames | `StartsAtNewestKey`, `KeyedMovesEndOnKey` |
| `shared` | two ids, copies, 6 frames, 2 starts | `BehavesAsLog` (refinement of `FrameLog`) and `ComparesAsFrames` |
| `polling` | fairness, 5 frames | `CatchesUp` |
| `semaphore` | 3 processes, 2 interruptions, 3 exits | `IsAMutex`, `HeldBySomeone`, `OverlapsCounted`, `WaitersGetIn` |
| `recording` | 3 recorders, 2 days of 2 hours; either 6 plans, of which one is set, and 4 steps of the clock; or 1 sleep too short, 2 troubles with the card, and a plan switched off or on twice | `RecordersCounted`, `FormatAlone`, and under fairness `StopsAsPlanned`, `RecordsAsPlanned`, `ResumesAfterPull` |
| `avi` | writes every 3 frames, a buffer of 6 units, frames of size 1 and 2, 6 frames, 2 files, 2 faults | `StartsWithKeyFrame`, `HeaderExact`, `ArrayCounted`, `LeaksCounted`, `IsAFilm` (refinement of `Film`) |
| `dana` | 2 clients, of which one only plays recordings, 2 playbacks without session, 2 films, up to 3 crowds, 1 fault, 1 early answer | `StreamsKnown`, `PlaybackSound`, `UploadsSound`, `JoinsReturn` |
| `key_flag` | as `keyed`, a smaller ring | finding: `KeyedMovesFindAKey` is violated |
| `sem_signal` | as `semaphore`, no exits | finding: `OneInside` is violated |

**Bounds.** The rings hold two to four of the longest frames, where the program's
hold dozens: every property is about positions that meet, and they meet sooner in
a small ring. The number of frames lets the writer go round at least twice, with
frames of different lengths, so laps lie over each other with their heads
shifted, and lets it lap a reader in the middle of a call. One restart more than
the first start is enough for a reader of an old ring to meet a new one. What these
runs show is proved for all sizes (below), but for polling. Reader runs
keep sequence numbers below `MAX_SEQUENCE`; the `ring` run lets them start over.

`recording`: three recorders, because two are what the properties allow and the
third shows that they hold. Two troubles are the least with which a card is
pulled and formatted, or pulled again while it is taken back. One sleep too
short is enough to explore what follows it, although most properties ask that
there be none. `MCRecord` lets a behaviour be of one of two kinds, because the two
liveness properties of the plan are about calm cards and sleeps. In the first
the saved plan is any of a part of a day, a whole day by a span over midnight, a
part of every day, no day, alarms and none; another is set once, the time is set
at will, and the clock moves four times, enough to be set, to leave the span, to
enter it again and to change the day. In the second cards and sleeps give
trouble, and a plan that takes effect at once is switched off and on, which is
all the card thread and the recorders can see of it. `avi`: three frames take six to nine units, so the buffer is full before,
with or after the third; two faults with two files let a failed write meet a
card that is gone and a reopen.
`dana`: two clients and two films are the least that can take a film or a
handle from each other; two strays are both of them aborted. The theorems
hold for all these numbers.

`CHECK_DEADLOCK FALSE` is set everywhere because the bounds stop the writer and
the clients, and a process that only waits may stop; a `broken` process ends.

**The window.** A reader is promised nothing once it is too far behind. `Kept` is
how many of the newest frames are certain to be in the ring whatever their
lengths: one lap of longest frames less the one that may be left out at the end
and the one being written. Run `ring` checks that number (`NewestKept`), and the
properties of readers are conditional on being inside it and exact there.

**Fairness.** `polling`: a call that holds the mutex runs on, and a reading thread
polls for ever, as the loops of `record.c` and `testdanavideo.c` do. Nothing is
assumed of the writer; the bound makes it stop, and the property says the reader
then has everything. `semaphore`: whoever is inside leaves (no operation on the
ring waits for anything else), and a waiter that could enter again and again
does, as the kernel's queue of sleepers provides. `recording`: every thread goes
on, recorders too, because the encoder never stops delivering key frames, and a
plan command that has begun is carried through; the
app, the clock and whoever pulls the card do as they please. `dana`: a live stream
that was told to end ends (its loop looks at the flag with every frame), a
playback goes on, a handler whose thread has ended goes on; clients need not do
anything, no stream ends by itself, and the library need not answer an upload.
Nothing ever has to fail.

## Proofs

Each theorem holds for all values of the constants its module's `ASSUME` allows.

`ShmRingProofs` proves, for every segment size, head size, largest frame, set of
lengths, `MAX_SEQUENCE` and both bounds, from `RingAssumption` alone (the segment
holds the longest frame and two heads, which the callers' sizes satisfy by far and the
code does not check):

* `RingInvariant`: `Spec => []IInv`, the inductive invariant;
* `TypeCorrect`, `MagicMeansWholeFrame`, `HeadNamesNewest`, `CaughtUpSeesNothing`,
  `ReadingGoesForward`, `ConsecutiveFramesLinked`, `NewestFramesKept`: the
  invariants that run `ring` checks.

The argument. None of these is inductive alone. `FramesIntact` survives a
`WriteFrame` because the first cell the writer stores to is cleared memory
(`NextHeadClear`): a frame below it that reached over it would own that cell
(lemma `Untouched`), and a frame above it either has its head stored over, or
begins behind everything stored (`Apart`). At a wrap the writer stands at `START`,
where nothing lies below, and `HeadsApart` says that no old head begins inside
the head at `START`. The next head lies behind the payload or at `START`
(`Placement`). So the memory afterwards keeps every remaining frame as it was
except for the patched link (`KeepsFrames`, shown for every point at which
the writer may die: `PayloadKeeps`, `ClearedKeeps`, `FilledKeeps`). The links
follow from the numbering of the frames (`FramesNumbered`, `FramesUnique`) and from
`NewestValid`. A writer that dies leaves one head that is excepted (`cutAt`),
until a constructor formats the ring (`CutHealed`). `IInv` was model-checked on
the instance of run `ring` before it was proved.

`NewestFramesKept` needs to know where a frame lies, and not only that it is there.
`KeptNear` measures it from the writer in rooms of a longest frame and its head
(`Near`): the frame that d others were written after begins at most d + 1 rooms
below the writer; or it is of the lap before and begins above it, with as many
rooms between as may still be written before it may go. A step of the writer
moves each frame one d further, a wrap turns the one case into the other.

`RingNumbers` relates sequence numbers to frames. It has the hypothesis
`FewFrames`: fewer frames are written than half of `MAX_SEQUENCE`, so the numbers do
not start over and a difference of two is not taken for one the other way
round. With the program's 2^31 and 25 frames a second that is more than a year
between two starts of the camera; the instances of the reader runs satisfy it.
What happens when the numbers do start over is left to run `ring`, and the
reader's disagreement with the writer about it is listed below.

`SemLockProofs` proves, for every set of processes and both bounds, `SemTypes`, and what
holds as long as no `Lock` was interrupted: `SemInvariant` (type correctness, and `Clean`: either
nobody is inside, the semaphore is free and the kernel has nothing to undo, or
one process is inside, the semaphore is taken and exactly that process's end
would free it), from it `NeverLeftTaken`, and `ImplementsMutex`, the refinement of
`Mutex`. Lemma `StepOfMutex` is the core: each action enters the mutex, leaves it
or changes nothing of it. `NoMoreThanSignals` is about what comes after an
interruption, when the value of the semaphore, the undo counts and the places of
the processes drift apart. `Owed` is the set of units that processes can still
give back: one `UnLock` for being inside, or what the kernel undoes at the end of
the process, whichever is more. `Covered` says that each is held by the semaphore
or was let in by a signal. Every step keeps that, and whoever is inside owes one.

`ShmApiProofs` carries the ring's invariant over to the composed system
(`ApiRingInvariant`: a step of it is a step of the ring or none) and proves
`NoTornFrames`: whatever position and number an id was left with, a read hands
over the bytes of one frame unless a writer died inside `WriteFrame`. It needs
`FramesIntact`, and that the `ShmHead`, which passes for a frame at position 0, is as
large as the segment and therefore never copied. It also proves, and without any
hypothesis, `ApiTypeCorrect` and `KeyCallsEndOnKey`, and under `FewFrames` the following.

* `FramesInOrder`. `Past` says of an id that has read frame s that where it stands
  no frame up to s is found again: the place holds a later frame, or none, or the
  id's number says it has caught up. The memory below a reader may be written
  over, formatted or cut short and `Past` holds still (`PastStays`), because
  frames only get newer; the same is claimed of the place a failed call goes
  back to.
* `NoFrameMissed`. `Awaits` says where a reader in the window stands: where frame
  s + 1 is, or where the writer will put it; or frame s + 1 did not fit there and
  went to `START`, and the place was left without a head. With `NewestFramesKept` the
  next read therefore finds frame s + 1, or its error is a true one.
* `DistancesExact` and `ComparingIsExact`: numbers count frames (`RingNumbers`), and an id
  that stands on no frame has a number that is no frame's (`Unplaced`).
* `FirstReadIsNewestKey`. While nothing is written, an id that goes back from the
  newest frame has passed over no key frame (`GoingBack`), and the loop of
  `SHM_BackNFrame` ends at a key frame or where nothing older is linked (`BackLinks`).
* `MovesAreExact`, for a ring that is started once (`MaxStarts <= 1`). Two invariants
  carry it. `Placing` says that a position and a number that belong together stay
  so: frame n of the kept window is at the position of whoever has number n, or
  the writer will put it there, or it went to `START` past an end left without a
  head. Reads and moves keep it because kept neighbours link to each other
  (`NeighboursLinked`), the writer because it fills the place that waits. `Steady` says of a call that has k of its steps behind it that
  its id has number n - k or n + k, where n is the frame it set out from, and that
  what it would put back is n. Both were model-checked first, with writers that
  die. The hypothesis is needed: TLC finds the move that fails in a ring formatted
  during the call, and what the id is put back to is of the ring before.
* `ImplementsLog`, the refinement of `FrameLog`, for a writer that does not die
  inside `WriteFrame` (`~Crashes`, as in run `shared`: the log knows no half
  frames). Every step of a call is a stutter or one read, move, copy or removal
  of the log; that a read takes a later entry of the log is `FramesInOrder`.

`RecordControlProofs`, for every finite set of recorders and every number of
overruns, troubles, plans and steps of the clock, for any days, hours and plans: `FormatInvariant` (types, `StartsDeaf`,
`StopReaches`: whoever was in its loop when the format stopped it is leaving, or
will see the cleared flag, or another has set the flag before it looked) gives
`RecordFormatAlone`. `CountInvariant` gives `RecordRecordersCounted`: one recorder
before the card gives trouble, two after it, while no sleep is too short. Here a
count alone is not inductive. `Doubles` says what the plan's thread may rely on when it
starts a recorder (at most one is there, because its own last stop was slept
out); the card thread needs nothing, for `Settled` and a cleared flag mean that
nobody is there when it starts one; `Alone` says that before any trouble the card
thread has nothing to start.

`AviFileProofs`: `AviInvariant` (types; `KeyKept`: buffer and film begin with a key frame;
`Waiting`: entries in memory are those since the last write and at most `SaveNum`
for each fault) gives `AviTypes`, `AviStartsWithKeyFrame` and `AviArrayCounted`.
`AviLeaksCounted` is an accounting: `Dropped` is what leaked, what a lost file still
holds, and what the state is bound to lose later without another fault (`Owed`: the
film a restart opens a second time, both handles if the close will find too few
entries). A step drops nothing or pays three for a fault (`Pays`). `LeakInv` was
model-checked before it was proved.

What a finished file shows is in two more theorems, both for as long as no write
failed. `FilmInvariant` (model-checked first) accounts for every frame that found room:
it is in the film or in the buffer (`Taken`), its entry in the temporary file or in
the array, and `offset`, `indexCount` and `videoCount` are what `Taken` says. From it follow
`AviHeaderExact` and `ImplementsFilm`: an entry of the index finds its own frame and no
other, because the places of frames increase by their sizes (`FoundByEntry`). The
sums are tables filled by a recursive function; `DataInduction` proves what is needed of
such tables by taking the set of lengths for which it holds and showing that it
is all of `Nat` (a least element of what is missing would contradict it).

`DanaSessionProofs`: `SessionInvariant` (every stream's id is known to its session, and an
abort that joins the sound has joined the video) gives `DanaStreamsKnown`;
`PlayInvariant` (a playback that is alone owns handle and choice, and without one there
is no handle) gives `DanaPlaybackSound`. `CloudUploadProofs`: `CloudInvariant` (a thread's flag
is set or the callback is joining it; who waits can be answered) gives
`DanaUploadsSound`. Both theorems are about the component's own specification.

Only model-checked: what happens when
sequence numbers start over under a reader; and liveness (`CatchesUp`, `WaitersGetIn`,
`StopsAsPlanned`, `RecordsAsPlanned`, `ResumesAfterPull`, `JoinsReturn`), which tlapm cannot prove.

## Where code and documentation differ

Two are runs with an expected violation:

* `key_flag`: `SHM_BackNFrameNolock` (`shm_read.cpp:119`) ignores what `GetExtras`
  returns. If the frame was overwritten since the last step, the flag left in
  `structExtraData` (of an earlier frame, or never set) is taken for this one's
  and the call reports a key frame where there is none.
* `sem_signal`: `SemLock::Lock` (`shm_base_class.cpp:35`) only prints when `semop`
  fails. An interrupted wait lets the caller in beside the owner.
  `OverlapsCounted` (run `semaphore`) shows how far this goes: each interruption
  lets in one process more and later ones do not multiply it. After one, the
  undo counts may also leave the semaphore taken with nobody inside.

Others were seen with TLC while modelling, and are part of the models' behaviour.
In the rings:

* `MoveBack` from a position that was overwritten by a head of another lap moves to
  the frame before that one, which may be newer (doc: `shm_read_class.cpp:177`).
* `SHM_BackNFrame` from the initial state counts the newest frame as the first
  step (`shm_read.cpp:586` counts from the newest).
* `Distance2Newest` returns -1 for a reader that has caught up; its comment
  (`shm_read_class.cpp:142`) says -1 is a covered frame, which returns -2.
* `SHM_GetFrameExtras` on a fresh id succeeds with bytes of the `ShmHead`.
* A frame larger than the caller's buffer is not passed over
  (`shm_read_class.cpp:97`), so a caller that never offers a larger one stays there
  until it is lapped; `shm_read.h:143` says the frame is discarded.
* After a restart of the writer a reader may be told that there is no new frame
  while there are some, when the new numbers happen to be just below its own.
* When the sequence numbers start over the writer goes on with 1, but the reader
  expects 0 (`shm_write_class.cpp:89`, `shm_read_class.cpp:122`): a caught-up reader
  gets an error and is reset.
* A lapped reader is given a later frame without being told of the loss.

In the recording:

* A recorder sets `g_normal_status` itself, and clears it when it leaves
  (`record.c:324`, `:448`). A recorder that was stopped and has not looked yet goes on if
  another one sets the flag first (`:778` only clears it and sleeps), and a
  recorder that leaves stops one that was started meanwhile.
* After trouble with the card, two recorders can run even if no sleep is too
  short; with sleeps that are, more.
* The plan's thread stores full time as reached although the start did nothing,
  for want of a card or because of a flag not yet cleared, and does not try again
  (`testdanavideo.c:4782`).
* A day that ends is not noticed inside a span. The clock thread keeps `FLAG` while
  it says that today is planned (`testdanavideo.c:4678-4720`), and `IsInTimeSpan`
  (`:4529`) knows no days. A plan for one weekday from 00:00 to 23:59 is never
  outside its span, so its recording goes on through the days that follow, until
  the app sets a plan or the time. TLC finds this at once if `StopsAsPlanned` is
  asked to hold for a weekday that ends by itself; no comment or document of the
  repository says that it should. `StopsAsPlanned` claims what does hold: a recording
  ends if the plan that is set says no by its type or its hours, or by its days
  when it, or the time, is set.
* At boot the clock stands in 1970, and `FLAG` is computed for the weekday it has
  there (`:4665`). If the plan names that day, it is not computed again when the
  clock is set from the network, so the first day is taken for a planned one.
* Outside a span the clock thread clears the type of the plan too (`:4716`), so
  inside the next span nothing is recorded until a plan is set again. A type that
  the plan command stores between the look at the clock and that store is lost
  with it. `RecordsAsPlanned` is therefore about a type that was not cleared.
* A recorder that is only being created when a format stops the recordings, or
  that needs more than the second to close its file, writes to the card while it
  is erased (`mmc_api.c:99`). `FormatAlone` is about all others.
* The card thread clears what it remembers of an interrupted recording before
  the start that may do nothing (`mmc_api.c:940`), and when a format was asked for
  (`:893`).
* A format whose mount fails leaves `SD_CARD_FORMATING` (`mmc_api.c:115`), and the card
  thread then waits for ever.

In the files:

* A failed write restarts the film at the next key frame, but leaves entries
  and counters of the frames before (`grd_avi_rec_api.c:1440`, `:1396`), so its index
  tells of frames that are not there, or the close finds too few entries and
  gives up.
* A close while the card is gone closes nothing (`grd_avi_rec_api.c:1577`), and the next
  open forgets the handles.

In the cloud client:

* Playbacks of all connections share the handle and the choice of a film
  (`testdanavideo.c:1139`, `:1524`). A client may be shown what another asked for, and the
  first to end destroys the handle under the other.
* A playback that has come to its end keeps its flag: until `RECSTOP` a new `RECPLAY` of
  the same client is accepted and does nothing.
* A sound thread that cannot be created leaves its flag set, so that client gets
  no sound until it stops and starts it.
* A playback does not look at the result of the read of header and index
  (`testdanavideo.c:1295`): without an index it reads through a null pointer. In the
  model the program may end there (`PlayStartFails`).
* An answer between the hand-over of a film and the line that says so
  (`testdanavideo.c:683`) is overwritten; uploads of alarms then stand still until the mode
  changes.

## Assumptions

The cloud's library makes one call at a time for a connection. A recorder uses
its file alone: two recorders would share one buffer, and `RecordControl` says when
there are two. Threads that read a flag see what was stored last. The reading of
frames by a recorder is that of `ShmApi`; `AviFile` begins with the frame it got.

## Not modelled, and the plan

Left out because the build does not run it: event recordings with the motion and PIR
threads (the calls in `main.c` and `event.c` are compiled out, so nobody asks for
one), the restart of recordings on a change of time zone (its command is compiled
out), and the P2P server `tutk` with the storage library's playback, which only it uses.

Left out because it is I/O over directories, devices or sockets without state
that threads share: eviction of old files, directory scans, repair of files that
were never closed, commands that read or store parameters, talk-back,
messages, keep-alive and watchdog, devices, network set-up, codecs, tools of the
build host. Closed libraries, the web server and everything else that is vendored
are not the program's own. Capture threads and writer maps of `libshmav` loop over a
callback outside the repository and change C++ library memory.
`SHM_GetStreamInfo` and the `SHM_Debug_*` calls only read. Of a playback's film only
beginning and end are modelled: at its normal end the loop reads one entry past
`idx_array` before it leaves (`testdanavideo.c:1334-1342`, the comparison is `>`), which
no state of the sessions depends on.

What would come next, in this order:

1. The recorder's loop as a client of `ShmApi`: file cuts at key frames and the
   pairing of video and audio.
2. The theorems about readers without `FewFrames`, with distances modulo
   `MAX_SEQUENCE`.
3. The wifi connection thread.

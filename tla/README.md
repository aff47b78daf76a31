# AlsaCAE in TLA+

AlsaCAE records audio from a Bluetooth or USB sound card through tinyalsa,
resamples it and feeds it to a closed speech engine (CAE) that calls back into
Java. This directory models its native code under
`src/sdk/src/main/cpp/src/`: who writes and reads the audio queue, who opens and
closes the device, and how a recording session starts, ends and fails. Paths
below are relative to that directory unless they begin with `src/`.

## The system

| Part | State | Operations | Modelled by |
|---|---|---|---|
| Audio queue, `util/queue/AudioQueue.c` | a block of memory: mutex, condition, `front`, `rear`, `capacity`, `more`, data | `queue_init`, `queue_write`, `queue_read`, lengths, accessors | `AudioQueue`, `AudioQueueData`, `ByteStream` |
| PCM capture, `recorder/alsa/alsa_recorder.cpp` | `g_pcm`, `g_audio_queue`, `g_queue_base`, `g_is_recording`, `g_mutex`, one capture thread per accepted start | `PcmOpen`, `PcmStartRecord`, `PcmBufferSize`, `PcmRead`, `PcmClose`, `RecordThreadFunc`; `AddPcmMicNumber` | `AlsaRecorder`; `AddPcmMicNumber`: `MicNumber` |
| Card lookup, same file | none (the cards of the system) | `get_snd_card_number`, `get_snd_card_name` | `CardLookup` |
| Session, `Recorder.cpp` | `isInit_`, `isRecording_`, `clearBuffer_`, `caeHandle_`, `recordCallback_`, two debug files, one record thread per accepted start | `init`, `destroy`, `startRecord`, `stopRecord`, `setClearBuffer`, `record` | `RecordSession`, `SessionRequests`; what it promises: `SessionLife` |
| Resampling, same file | `isFirst` of `record`, a global counter | `checkStart`, `getChannelIndex`, `ReSamples` | `Resample` |
| JNI bridge, `cae/com_iflytek_iflyos_AlsaCAE.cpp`, `util/jvm/jvm.cpp` | `g_ListenerRef`, method ids, the callback object and its two counters | one function per Java method; callbacks; `Process` | order of `init`/`destroy` and the reports: `RecordSession`; `getEnv` and the callbacks: `JniBridge`; `Process`: `SoundHealth` |
| Engine (`apr_inf.h`), tinyalsa (`asoundlib.h`) | external | `CAENew`, `CAEAudioWrite`, `CAEDestroy`; `pcm_open`, `pcm_read_es`, `pcm_close` | only as the code uses them |
| CPU load helper, `cae/cpu/android_cpu.c` (not in the build) | `running`, the last three threads | create, destroy | `CpuBurner` |
| Java API | none | declarations | their documentation is what findings quote |
| Demo application | a file | buttons; `PcmFileUtil` | the buttons: `RecordSession!Ui`; the writing side of `PcmFileUtil`: `PcmFile` |
| Command-line test program, `cae/exec/main.cpp` (not in the build) | | | not modelled |

Three kinds of thread meet. The *user interface's thread* calls the JNI
functions (the demo calls all of them from there but one that has no effect on
the session). Each accepted `startRecord` creates a *record thread*, which runs
`Recorder::record`: open the device, start capturing, then loop reading blocks
from the queue, resampling and feeding the engine, until `isRecording_` or
`g_is_recording` is false. `PcmStartRecord` creates a *capture thread*, which
loops reading the device and writing the queue. None of them is ever joined.
They communicate through plain global and member variables; the only locks are
the queue's mutex, which the writer does not take, and `g_mutex`, which only
`PcmClose` takes.

What is hard about it: the lock-free writer against the locking reader; the
overflow reset by the writer and the clear by `PcmRead`, both unlocked; two
loads of one pointer between which it becomes null; a device failure that makes
the capture thread close everything under the record thread; flags that a new
thread sets for itself, so that a second start or a stop can come first; and
steps that fail half-way. `PROJECT.json` lists these as hazards, each at its
line with the properties aimed at it.

What makes the parts correct: the queue is a byte stream without loss or repetition
whose copies stay in its block, and whose reads return; every device and block is
released exactly once and none is used after that; a session that is started answers,
one that is stopped ends, and the next one can start; what it reports to its listener
comes in order and neither a failure nor a stop is left out; the thread that reports is
attached to the Java VM while it does and detached when it ends.

## Modules

**`AudioQueue`** is the control state of the ring buffer. `front` and `rear` are
the indices; `mutex` and `waiters` the mutex and condition; `w` and `rd[r]` the
writer and reader, each a program counter with the locals of its call (`begin`,
the lengths of its two `memcpy` calls, the new index). Every load or store that
another thread can separate from the next is an action: `WEnter` ... `WSignal`
are `queue_write`, `RCall` and `RClear...` the clear of `PcmRead`, `RLock` ...
`RStore` `queue_read`. `Clearing` says whether callers pass `shouldClear`,
`Paced` that readers keep up. The mutex is modelled by its holder; a condition
wait releases it, may wake spuriously, and takes it again.

**`AudioQueueData`** extends it with the data area and the bytes. A byte is its
position in the captured stream, so loss, repetition and reordering are visible.

**`ByteStream`** is the abstract specification: a bounded stream delivered in
blocks. `AudioQueueData` implements it (`ImplementsStream`) under the mapping
sent = captured, got = taken, block = the reader's buffer, room = capacity - 1.

**`AlsaRecorder`** is `alsa_recorder.cpp`. A thread `t` is `th[t]`: a program
counter, a pointer it has loaded (the device it is reading, the queue it is in)
and an argument or result. Handles and blocks are never reused, so a stale
pointer is told from a new one, and `closes` and `frees` count what was done to
each. The queue is reduced to one bit per block: whether it holds enough for a
read. A null pointer that is used ends the process (`Crash`); a deleted block
that is used does nothing definite (a read of it may return or not).

**`RecordSession`** composes it with `Recorder.cpp` and the JNI functions: `ui` is where
the user interface's thread is, `rec[r]` where record thread `r` is in `record()`, what
it is about to report and what it has reported; the record threads are the users of
`AlsaRecorder`. `Waits` is a set of calls before which the application waits: before
`init`, `destroy` and `start` until all earlier threads have ended, before `stop` until
the session has reported its start; an application that calls at any moment has `Waits =
{}`. `pcmFileBefore` and `pcmFileAfter` are handled alike and are one file. A refused
`startRecord` changes nothing but what the listener is told, and so is no action here; a
`stopRecord` always clears the flag. A report, an alarm or an engine callback tests the
callback pointer and then loads it again, and the callback object uses the listener
without a test: both are in `CanTell`, and a use that fails ends the process (`Fault`).

**`SessionRequests`** adds two history variables: what the application last asked for,
and what its last call was answered at once, which changes no state of the program.
`AskInVain` is a refused `startRecord` (`CAE_ERROR_UNINIT`, `CAE_ERROR_RECORDING`),
`Unask` a `stopRecord`, answered `CAE_ERROR_NOT_RECORDING` when the flag was clear, or a
`destroy`. **`MCAlsaRecorder`** declares the symmetry of the users for TLC.

**`Resample`** is what `ReSamples` does with a block, over the high bits of its
bytes: `CheckStart` and `ChannelIndex` are the helpers of the same name, `Take`
counts the frames without a mark, `Discard`, `FirstBlock` and `NextBlock` are the
three ways through the function. The first index found is applied to the first
block only, and the counter outlives the session, as in the code.

**`SoundHealth`** is `RecordCallback::Process`: two counters of bad buffers, a
silent buffer that returns early unless it is the one that tells, and a new
callback at each `init`. **`CardLookup`** is the loop over the card numbers, one
turn an action, while cards are plugged and unplugged.

**`JniBridge`** is how a callback reaches Java: `getEnv` attaches its thread
unless it is attached, and tells so by a flag of the call; the engine's callbacks
always attach and detach. `depth[t]` counts the callbacks thread `t` is in (the
listener may call `startRecord`, whose refusal is a report on the same thread),
`detaches[t]` which of them will detach it.

**`CpuBurner`** is `android_cpu.c`: `create` overwrites the handles it finds and
sets the flag last; `destroy` clears it and joins what the handles name.

**`PcmFile`** is `PcmFileUtil.java` of the demo: `createPcmFile` outside the
monitor, `write` and `closeWriteFile` inside, each load of `mFos` a step. It models
the class, whose methods any thread may call; the demo creates and closes its files
on one thread (`MainActivity.java:168-177`) and has its calls of `write` commented
out (`:48`, `:54`), so none of its own behaviours is at risk.
**`MicNumber`** is the double loop of `AddPcmMicNumber`, one sample an action, for at
least one channel: with `channel_count` 0 the outer loop (`alsa_recorder.cpp:216-217`)
would never end. Nobody calls it.

**`MCParts`** puts these seven (from `Resample` on), which share no state with
anything else, into one run: each behaviour exercises one of them, `part`.

**`SessionLife`** is the abstract specification of a session as its listener sees
it: phases none, created, starting, recording, ending, over; `asked`, whether
recording is asked for; `Say` is a report, which reaches `told` if somebody listens
and is lost otherwise; `Pass` goes on without one. `RecordSession` implements it
(`ImplementsLife`) under the mapping `PhaseOf` (a session that stands before a report
is still in the phase the report ends), `told` of each record, listening = `CanTell`
and asked = `isRecording_`. The two places where a report may be left out although
somebody listens have guards, and they are what the specification is for. A session
may pass from recording to ending without telling of a failure only if *another one
has begun*, since the flag that suppresses the report can be set by nobody else. It
may pass from ending to over without telling that it was stopped only while recording
is *asked for*: nobody has stopped it and it left its loop because the device failed or
another session closed it, or a session that began after the stop asks again (`Begin`
is the only step that sets `asked`). So a session that is alone tells its failure, and
one that was stopped tells so unless another start came in between.

Eight modules hold the theorems: **`AudioQueueProofs`** and
**`AudioQueueDataProofs`** about the queue, **`AlsaRecorderProofs`** about the
capture, **`RecordSessionProofs`**, **`SessionLifeProofs`** and
**`SessionReleaseProofs`** about the session, **`ResampleProofs`** about `Resample`,
and **`PartsProofs`** about the other six parts that work alone.

Definitions whose comment starts with "Mutant" are not part of a specification:
each is a plausible slip in the definition below it, kept to show that the
property it is listed with in `PROJECT.json` would catch it.

## Runs

| Run | Checks | Instance |
|---|---|---|
| `queue_fifo` | `DataTypeOK`, `CopiesDisjoint`, `ReadInBlock`, `WriteInBlock`, `LenExact`, `ImplementsStream` | one reader that keeps up, no clearing, 40 bytes (10 buffers) |
| `queue_live` | `LagBounded`, `ReadsWholeHead` | one reader, the program's timing |
| `queue_clear_live` | `TypeOK`, `ReadCompletes` | the same with clearing, and so with overflow |
| `alsa_any` | `AlsaTypeOK`, `ReleasedOnce` | two users, one capture thread, two handles, two blocks, every failure |
| `session_patient` | `AllReleased`, `EndTold`, `StartAnswered` | two sessions of an application that waits, every failure |
| `session_destroy` | `StopEnds`, `ImplementsLife` | one session, every call at any moment, every failure of the device, the threads and the files |
| `session_any` | `SessionTypeOK`, `FlagHasThread`, `EngineWhileRunning`, `ImplementsLife` | two overlapping sessions of an application that waits before `init` and `destroy`, every failure, files that roll over |
| `parts` | `TypeOK`, `FoundIsStart`, `NoFalseAlarm`, `SlipNoticed` | ten phases of a frame, six kinds of sound |
| | `HealthTypeOK`, `AlarmsFounded`, `BadSoundTold` | three levels of sound |
| | `LookupTypeOK`, `FoundWasThere`, `StayingCardFound` | three card numbers |
| | `JavaIsAttached`, `EndsDetached` | a thread of the VM and a record thread, callbacks three deep |
| | `DestroyWaits`, `DestroyReturns` | two handles, five threads |
| | `WritesToOpenStream`, `StreamsKept` | three streams, two writers |
| | `MicNumbersRight` | up to six samples and channels |

Between them the runs reach every action. Deadlock is checked for the queue and
the parts; the device and session runs switch it off, because there the
application may stop calling, a crash ends everything and the pools of handles,
blocks and threads run out.

What the passing runs show, in short: a single reader gets every byte once, in order,
although the writer takes no lock; a lost signal costs at most one buffer and never the
place of a waiting read; a reader is left waiting by no clear; the device and the queue
are released once by whoever closes them; an application that waits between its calls
gets an answer to each start and finds everything released, unless a start failed; a
stop ends the session unless the flag is set again, the process dies, or the device
fails while the record thread waits in the queue (then it stays there, the finding
`FailureReported`); the flag that refuses a second start never outlives its threads; a
session that begins on a frame is taken from there and raises no false alarm, one that
begins inside a frame is noticed; bad sound is told, sound that is good is not; a sound
card that stays is found. A session that ends has told how it started and, if it did,
that it ended; while somebody listens, whatever the application does, its failure is
left out only when another session has begun and its stop only when recording is asked
for again; the engine, the callback and the listener stay for as long as it runs, if
`destroy` is called only between sessions. No thread is detached under Java code nor
ends attached; `destroy` of the CPU load helper waits for its threads and returns;
`PcmFileUtil` neither writes to a closed file nor, if one thread creates, loses an open
one.

Four runs refute what a comment or a message says of the program:

| Run | Refuted | What happens |
|---|---|---|
| `queue_lost_wakeup` | `WaitsOnlyForData` | store and signal fall between a reader's test and its wait; it sleeps with data in the queue if the device stalls |
| `session_lost_stop` | `StopObeyed` | a stop before the new thread sets its flag is answered "not recording" and forgotten |
| `session_false_error` | `ErrorMeansFailure` | each normal stop reports "recording failed" as well |
| `session_silent_failure` | `FailureReported` | the device fails while the record thread waits: it waits for ever in a deleted queue and nothing is reported |

The exact statements, the quoted lines and the code they contradict are in
`PROJECT.json` under `findings`. Where the code departs from what one would hope
but no comment, test or document claims it (the double delivery after an
overflow, two record threads after two quick starts, what a failed start leaves
open), the hazard's note says so and no property pretends otherwise.

### Bounds

The queue's sizes are scaled down from 24576-byte buffers, 3072-byte blocks and
a capacity of 64 buffers + 1. Capacity 9, buffer 4 and block 2 keep what
matters: the data area is not a multiple of the buffer, so the writer wraps at
every offset, `front` and `rear` reach every index, and two buffers fill the
queue. `queue_live` needs room for two buffers and a block that do not fill the
queue: 17, 5 and 2, where a block may straddle two buffers. `MaxCaptured` = 40
bytes is more than four times round. The overflow reset is taken in
`queue_clear_live`, where a clear can undo what the reader has taken; that the
writer stays in its block when it overflows is proved, for any sizes.

In `AlsaRecorder` and `RecordSession` the numbers of threads, handles, blocks
and files are bounds: when none is left the step that needs one is not taken. Two
sessions are the least in which one meets what another left behind. In
`session_any` one capture thread, one handle and one block serve both record
threads: a second `PcmOpen` after the handle is spent can only fail, and a second
`PcmStartRecord` that gets as far as creating its block or thread stops there.
What two handles and blocks add is in `alsa_any`, and `FlagHasThread` and
`ReleasedOnce` are proved for any number of each.

`session_any` and `session_destroy` split what `ImplementsLife` is checked for: in the
first the listener is there as long as a session runs, and the second session is what
may set `g_is_recording` or `isRecording_` under the first; in the second `destroy`
comes in the middle of a session. `StopEnds` is checked with one session, where nothing
sets the flag again; what a second one does to the first's flag is in `session_any`.
`CAENew` does not fail in `session_destroy` (it does in the two other session runs):
whether there is an engine only decides whether it is fed. For any number of sessions
and any application it is proved.

In `parts` sessions begin at ten of the 24 bytes of a frame: the first four, both ends
of the next two words, and bytes of others. A block has 4 frames (128 in the program;
`getChannelIndex` needs two from each candidate, so 4 leaves it candidates in every
phase), the alarm comes at 10 unmarked frames (1024), so that it takes several blocks
and the counter carries over between sessions, `Patience` is 2 (1024), and there are 3
card numbers (32). Callbacks nest three deep: one detaches, one is below another that
does, and one more. The CPU load helper has `TdNum` = 2 handles (3) and five threads,
enough for a create that fails half-way between two that do not. Of streams there are
three, so that one is opened after one was closed, twice. `MaxSamples` = 6 has buffers
of whole rounds of two and three channels and such that end inside one; there is at
least one channel.

### Fairness and timing

`RecordSession!Spec` assumes that record threads and capture threads are
scheduled (weak fairness on each), that the device keeps delivering or fails,
and that a JNI call that has begun goes on. It does not assume that the
application makes any call, nor that a thread waiting in a queue whose memory
was deleted ever wakes.

`AudioQueue!StallSpec` only assumes that a call that has begun goes on; the
device may stop delivering. `AudioQueue!PromptSpec` assumes the timing of the
program: a buffer takes the device 128 ms, eight blocks' worth, so when the next
`queue_write` begins, the readers have drained the queue or are asleep because
they missed a signal. Spurious wakeups are possible but nobody counts on them.

`MCParts!PartsSpec` only assumes that a recording session keeps resampling, that
the threads of `android_cpu.c` run, and that a join returns when its thread has
ended.

## Proofs

`AudioQueueProofs`, for every capacity, buffer and block size allowed by
`QueueAssumption` (both lengths positive and smaller than the capacity) and any
set of readers:

* `TypeCorrect`: `Spec => []TypeOK`. `TypeOK` is inductive; the arithmetic it needs are
  the lemmas `LenRange` and `ForwardRange` (a length and an advanced index are in `0 ..
  Capacity - 1`) and `LocalsUpdate`.
* `WriterStaysInBlock`: without clearing, `Spec => []WriteInBlock`. `WriteInBlock` is
  not inductive: that the copy fits follows from where the writer was when it tested the
  length. The invariant `BlockInv` adds that no reader is clearing and `WriterInv`:
  while the writer is between `begin` and its store, `rear` is still what it loaded,
  because only the writer stores it. `LenCases` turns the modulus into two linear cases.
  The assumption is necessary: a clear between the writer's loads of `rear` breaks it.
* `EmptyAndFullAgree`: the four length functions agree on every pair of indices.
* `ReaderStaysInBlock`, `CopiesNeverOverlap`: without clearing and overflow and with one
  reader, its copy stays in the block and meets no byte of the writer's. Neither is
  inductive: each depends on what the lengths were when the two calls tested them.
  `FlowInv` adds to `BlockInv` that the writer's room and a reader's data, once found,
  are still there (`WriterFlow`, `ReaderFlow`), because only the other side's progress
  can change them and that adds; `HeadInv` that `front` is what the reader loaded, which
  two readers would break.
* `LagStaysBounded`: with the program's timing and any number of readers, the queue
  holds less than two buffers and a block. `LagInv` says which buffer may find everybody
  asleep over the data of the one before, and that it then wakes somebody.
* `PromptReaderReadsHead`: so the only reader, however often it waits and whatever
  signals it misses, copies a whole block from the head it computed before its wait.
  `HeadInv` and `FlowInv` say so as long as the writer does not drop the queue under the
  reader, and `LagInv` that it does not.
* `PromptReadersLoseNothing`: so a queue with room for that much never overflows. In the
  program that room is there: a capacity of 64 buffers + 1, blocks of 3072 bytes
  (`Recorder.cpp:308`, `:319`, `alsa_recorder.cpp:135`).

`AudioQueueDataProofs`, for the same sizes and any length of the stream:

* `DataTypeCorrect` and, while the queue does not overflow, `EveryByteCounted`, for any
  number of readers. `LenInv` counts the block a reader has copied and not yet
  released, which `LenExact` leaves open.
* `QueueIsByteStream`: `DataSpec => ImplementsStream` for one reader that keeps up. The
  store of `rear` is the abstract `Put`, the copy of the reader the `Take`, all else
  stutters. What the copy yields follows from `ContentInv`: the kth cell from
  `front` holds the kth byte not yet released, and after the writer's copy the next
  buffer lies behind `rear`. `StoredBuffer` and `FetchedBlock` are the two pairs of
  `memcpy`, with their wrap.
* `PromptQueueIsByteStream`: the same with the program's timing and room for two
  buffers and a block in place of `Paced`, the assumption that the writer never finds
  the queue too full. With one byte less room TLC finds a buffer dropped.

`AlsaRecorderProofs`, for any number of users, capture threads, handles and
blocks and every failure the constants admit:

* `AlsaTypeCorrect`: `AlsaSpec => []AlsaTypeOK`. A user's step and a capture
  thread's step change one record of `th` and some globals; `GotoOK`, `ReturnOK`
  and their companions say once what each kind of step does to `th`.
* `NothingReleasedTwice`: `AlsaSpec => []ReleasedOnce`. `ReleasedOnce` is not
  inductive: nothing in it says why the next `pcm_close` is not a second one.
  `ReleaseInv` adds that a thread in the closing region holds `g_mutex`
  (`HolderInv`), that a handle already closed is still in `g_pcm` only while a
  thread stands between `pcm_close` and the null assignment (`PcmInv`), likewise
  for the block (`BaseInv`), and that after a crash nobody moves (`CrashInv`). With
  two threads in that region excluded by the mutex, the next close finds null.

`RecordSessionProofs`, for any number of sessions, whatever the application waits
for and whatever fails:

* `SessionAlsaStep`: each step of a session is a step of `AlsaRecorder`, leaves it
  alone, or ends the process. So `SessionReleasesOnce`, `Spec => []ReleasedOnce`,
  follows from `ReleaseInv`.
* `SessionTypeCorrect`: `Spec => []SessionTypeOK`.
* `FlagIsHeld`: `Spec => []FlagHasThread`. That some thread is running is not
  inductive, since a thread may end while the flag is set. `FlagInv` says that
  a set flag has a thread that *answers* for it: one between its first assignment
  to the flag and its last, not counting the reports of a start that failed. A
  step either leaves its thread answering or has cleared the flag.

`SessionLifeProofs`, for the same sessions:

* `EngineIsHeld`: `Spec => []EngineWhileRunning`. The invariant `EngineInv` adds what
  `isInit_` vouches for at each step of a call of JNI (`InitMeans`: it is set only with
  a callback, an engine and, but for the end of `init` itself, a listener, and is clear
  throughout `destroy`), and that a running session or an accepted start implies it
  (`InitHeld`). Assumed is only that `"destroy" \in Waits`; without it the property says
  nothing, and the hazard at `Recorder.cpp:126` is real.
* `SessionsKeepTheirPromise`: `Spec => ImplementsLife`, the refinement, with no
  assumption on the application. `PhaseTable` computes the mapping; each step of a
  record thread then moves only its own session (`MovesOn`, `MakesReport`). The report
  of a stop is left out on the flag that `asked` maps to. One step needs an invariant:
  after `PcmClose` the report of a failure is left out when `g_is_recording` is set.
  `LifeInv` says that a thread sets the flag only on its way into its loop (`SetterInv`)
  and is nowhere else in `alsa_recorder.cpp` while it calls `PcmClose` (`CloserInv`), so
  that whoever set it is another session, one that has begun (`AloneInv`).

* `NothingEndsSilently`: `Spec => []EndTold`, if `destroy` and `start` are called only
  between sessions. `RestInv` says that then one session runs at a time; `ToldInv`
  what a session has reported at each of its steps, and that one that left its loop
  has something to tell, since whoever cleared the flag it saw was not undone.

`SessionReleaseProofs`, for any number of sessions, capture threads, handles, blocks
and files and under the same assumption:

* `NothingStaysBehind`: `Spec => []AllReleased`. That everything is released at the end
  says nothing of any step before it. `ReleasingInv` says whose each resource is:
  a global that is set has a session that will still close it (`OwnersInv`); what was
  opened or allocated and not released is in its global, the mutex is held by the
  thread it names, and the two pointers to the queue are set together (`KeptInv`); and no
  capture thread is left while a session is set up (`CaptureInv`), for one would
  close what the session opens. All that holds until a start fails or the process
  dies (`Spoilt`), which stays so, and then `AllReleased` promises nothing.
  `FcloseInv` counts the closed files by the sessions that are past `fclose`. At
  rest no session is left to own anything.

`ResampleProofs`, for any block of at least four frames, any position in the frame and
any sounds: `ResampleTypeCorrect`, `FrameIsFound` (`StartsAre` turns
the test of `getChannelIndex` into one on the byte's place in the frame) and
`NoAlarmInStep` (which is inductive once the types are known: `TakeInStep` shows that a
block taken from the start of a frame adds nothing to the count).

`PartsProofs`, for any values of their constants, each part by its own `Spec`; in
`MCParts` every behaviour is one of these:

* `HealthTypeCorrect` and `AlarmsHaveReasons`.
* `LookupTypeCorrect`, `FoundCardWasThere` and `CardThatStaysIsFound`: `SearchInv` says
  what the turns of the loop so far have seen and passed.
* `DestroyJoinsAll`, an action property: `HandleInv` says that a thread that burns
  has its handle among those still to be joined, or has lost it.
* `WritesAreToOpenStreams`: `MonitorInv` says that the monitor's holder is the only
  one between a test of `mFos` and its use. `NoStreamIsForgotten` for one creator,
  for `createPcmFile` is outside the monitor; two of them would lose a stream.
* `ChannelsAreNumbered`: `RoundInv` relates the inner loop to the buffer.
* `NeverDetachedUnderJava` and `RecordThreadsEndDetached`: neither property says which
  of several nested callbacks detaches the thread; `JniInv` adds that it is always
  the outermost one of a record thread, and none of a thread of the VM.

TLC also checked each inductive invariant on the small instances.

With that every invariant, action property and refinement the passing runs check is
proved for all constants, under the assumptions named here. Only model-checked is
liveness, which is out of the prover's reach together with `ENABLED`: `ReadCompletes`,
`StartAnswered`, `StopEnds`, `SlipNoticed`, `BadSoundTold` and `DestroyReturns`; and
the four refutations, which are counterexamples.

## Not modelled

* The closed engine and tinyalsa beyond what the code relies on. A handle that
  `pcm_open` returns but that is not ready counts as a failure, its leak is not
  tracked. A use of the engine after `CAEDestroy` is not followed.
* Memory ordering: the variables are plain, so the compiler and the processor
  may reorder accesses; the models let each access take effect at once, in
  program order, and so show what goes wrong even then.
* `g_pcm_config`, thread attributes, logging (but for `LogShown`: the arguments
  of a log line are evaluated only when logging is on, and one dereferences the
  queue), and the accessors of the queue that nobody calls.
* The contents of audio beyond the high bits of its bytes (`Resample`) and the level
  of a buffer (`SoundHealth`), and the reads behind a buffer that both functions do.
* That `AttachCurrentThread` fails: `getEnv` ignores it and returns a variable that
  was never set, so there is nothing definite to model. The engine is assumed to
  call back on the thread that feeds it only.
* What a second `init` leaks (the first callback object and listener reference): the
  model keeps whether there is one, not how many were made.
* The side of `PcmFileUtil` that reads files, which nobody calls, the screen of the
  demo, the Java declarations, and `cae/exec/main.cpp`, which is not in the build and
  no longer fits `Recorder.h`.

## Plan

Done: the queue, its abstract specification and that it implements it, proved; the PCM
capture and that it releases once, proved; the session on top of it, its flag, its
engine, what it reports and what it leaves behind, proved; `SessionLife` and the
refinement, proved; the parts that work alone, proved; the runs above.

What could still be said, in this order: which of the theorems about one reader hold
for two, as after two quick starts; what of `AllReleased` remains after a start that
failed; and what of a read's return is a safety property (that a reader with a whole
block in the queue waits only if it missed the signal of the last buffer).

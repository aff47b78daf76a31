---------------------------- MODULE AlsaRecorder ----------------------------
(***************************************************************************)
(* recorder/alsa/alsa_recorder.cpp: the PCM device, the capture thread and *)
(* the globals they share with the threads that call PcmOpen,              *)
(* PcmStartRecord, PcmRead and PcmClose.                                   *)
(*                                                                         *)
(* Only the body of PcmClose holds g_mutex; every other access to a global *)
(* is unlocked, so a step here is one access that another thread can       *)
(* separate from the next.  Handles and blocks are never reused, so that a *)
(* stale pointer is told from a new one.                                   *)
(*                                                                         *)
(* Of the audio queue (AudioQueue models it) only this is kept: whether a  *)
(* block holds enough data for one queue_read.                             *)
(***************************************************************************)
EXTENDS Naturals

CONSTANTS
  Users,        \* the threads that call the functions of this file
  Captures,     \* bound: the capture threads that can be created
  Pcms,         \* bound: the device handles pcm_open can return
  Blocks,       \* bound: the memory blocks of audio queues
  None,         \* the null pointer, and no thread
  OpenMayFail,  \* TRUE: pcm_open may fail
  SpawnMayFail, \* TRUE: pthread_create may fail
  ReadMayFail,  \* TRUE: pcm_read_es of an open handle may fail
  MayOverflow,  \* TRUE: readers may fall so far behind that a queue overflows
  LogShown      \* g_show_log: whether the arguments of LOGE are evaluated

ASSUME AlsaAssumption ==
  /\ None \notin Users \union Captures \union Pcms \union Blocks
  /\ Users \intersect Captures = {}
  /\ {OpenMayFail, SpawnMayFail, ReadMayFail, MayOverflow,
      LogShown} \subseteq BOOLEAN

VARIABLES
  gPcm,        \* g_pcm
  gRecording,  \* g_is_recording
  gQueue,      \* g_audio_queue, as the block the queue is in
  gBase,       \* g_queue_base
  gMutex,      \* the holder of g_mutex, or None
  opened,      \* handles pcm_open has returned
  closes,      \* how often each handle was given to pcm_close
  allocated,   \* blocks new[] has returned
  frees,       \* how often each block was given to delete[]
  data,        \* blocks whose queue holds enough for a queue_read
  th,          \* each thread: its next step, a loaded pointer, an argument or result
  crashed      \* a null pointer was dereferenced, or an exception not caught

device == <<gPcm, opened, closes>>
memory == <<gQueue, gBase, allocated, frees, data>>
flags == <<gRecording, gMutex, crashed>>
globals == <<device, memory, flags>>
alsaVars == <<globals, th>>

Threads == Users \union Captures

ClosePc == {"close", "closeLock", "closePcm", "closeNull", "closeQueue",
            "closeFree", "closeBase", "closeUnlock"}
UserPc == ClosePc \union
  {"idle", "size", "open", "opening", "startPcm", "startFlag", "startSet", "startBase",
   "startQueue", "spawn", "read", "readClear", "readEnter", "reading"}
CapturePc == ClosePc \union
  {"unborn", "begin", "loop", "device", "deviceEnter", "inread", "write",
   "writeEnter", "writing", "logFull", "exit"}

At(t, pc) == th[t].pc = pc
Goto(t, pc) == th' = [th EXCEPT ![t].pc = pc]
Load(t, pc, p) == th' = [th EXCEPT ![t].pc = pc, ![t].ptr = p]
Return(t, ok) == th' = [th EXCEPT ![t] = [pc |-> "idle", ptr |-> None, ok |-> ok]]

\* The process dies, and every thread with it.
Crash ==
  /\ crashed' = TRUE
  /\ th' = [t \in Threads |-> [th[t] EXCEPT !.pc = "dead"]]

\* One thing of S, if there is one; which one makes no difference.
OneOf(S) == IF S = {} THEN {} ELSE {CHOOSE x \in S : TRUE}

Live(b) == b \in allocated /\ frees[b] = 0

AlsaInit ==
  /\ gPcm = None /\ gRecording = FALSE /\ gQueue = None /\ gBase = None
  /\ gMutex = None
  /\ opened = {} /\ closes = [p \in Pcms |-> 0]
  /\ allocated = {} /\ frees = [b \in Blocks |-> 0] /\ data = {}
  /\ th = [t \in Threads |->
             [pc |-> IF t \in Users THEN "idle" ELSE "unborn",
              ptr |-> None, ok |-> TRUE]]
  /\ crashed = FALSE

-----------------------------------------------------------------------------
(* A call: t enters the function that begins at step pc.  The argument is  *)
(* whether read_size is positive for PcmStartRecord, shouldClear for       *)
(* PcmRead, and nothing for the others.                                    *)

Call(t, pc, arg) ==
  /\ At(t, "idle")
  /\ th' = [th EXCEPT ![t].pc = pc, ![t].ok = arg]
  /\ UNCHANGED globals

-----------------------------------------------------------------------------
(* PcmBufferSize.                                                          *)

\* -1 when there is no handle, and then PcmStartRecord is called with
\* negative sizes.
SizeCheck(t) ==
  /\ At(t, "idle")
  /\ IF gPcm = None THEN Return(t, FALSE) ELSE Goto(t, "size")
  /\ UNCHANGED globals

\* g_pcm is loaded again for the calls of tinyalsa, which do not expect null.
SizeUse(t) ==
  /\ At(t, "size")
  /\ IF gPcm = None THEN Crash ELSE Return(t, TRUE) /\ UNCHANGED crashed
  /\ UNCHANGED <<device, memory, gRecording, gMutex>>

-----------------------------------------------------------------------------
(* PcmOpen.                                                                *)

\* An open device is success, whoever opened it.
OpenCheck(t) ==
  /\ At(t, "open")
  /\ IF gPcm # None THEN Return(t, TRUE) ELSE Goto(t, "opening")
  /\ UNCHANGED globals

OpenFails(t) ==
  /\ At(t, "opening")
  /\ OpenMayFail
  /\ Return(t, FALSE)
  /\ UNCHANGED globals

Open(t) ==
  /\ At(t, "opening")
  /\ \E p \in OneOf(Pcms \ opened) :
       /\ opened' = opened \union {p}
       /\ gPcm' = p
  /\ Return(t, TRUE)
  /\ UNCHANGED <<memory, flags, closes>>

-----------------------------------------------------------------------------
(* PcmStartRecord.                                                         *)

StartPcm(t) ==
  /\ At(t, "startPcm")
  /\ IF gPcm = None THEN Return(t, FALSE) ELSE Goto(t, "startFlag")
  /\ UNCHANGED globals

StartFlag(t) ==
  /\ At(t, "startFlag")
  /\ IF gRecording THEN Return(t, FALSE) ELSE Goto(t, "startSet")
  /\ UNCHANGED globals

StartSet(t) ==
  /\ At(t, "startSet")
  /\ gRecording' = TRUE
  /\ Goto(t, "startBase")
  /\ UNCHANGED <<device, memory, gMutex, crashed>>

\* new char[] of the queue's size; a negative size is not caught.
StartBase(t) ==
  /\ At(t, "startBase")
  /\ IF th[t].ok
       THEN /\ \E b \in OneOf(Blocks \ allocated) :
                 allocated' = allocated \union {b} /\ gBase' = b
            /\ Goto(t, "startQueue")
            /\ UNCHANGED crashed
       ELSE Crash /\ UNCHANGED <<allocated, gBase>>
  /\ UNCHANGED <<device, gRecording, gQueue, gMutex, frees, data>>

\* queue_init in the block g_queue_base points to now: an empty queue, or
\* null when PcmClose has already taken the block away.
StartQueue(t) ==
  /\ At(t, "startQueue")
  /\ gQueue' = gBase
  /\ data' = data \ {gBase}
  /\ Goto(t, "spawn")
  /\ UNCHANGED <<device, flags, gBase, allocated, frees>>

\* Nobody keeps the thread's id: it is never joined.
Spawn(t) ==
  /\ At(t, "spawn")
  /\ \E c \in OneOf({d \in Captures : At(d, "unborn")}) :
       th' = [th EXCEPT ![c].pc = "begin",
                        ![t] = [pc |-> "idle", ptr |-> None, ok |-> TRUE]]
  /\ UNCHANGED globals

\* The error is returned; g_is_recording, the block and the handle stay.
SpawnFails(t) ==
  /\ At(t, "spawn")
  /\ SpawnMayFail
  /\ Return(t, FALSE)
  /\ UNCHANGED globals

-----------------------------------------------------------------------------
(* PcmRead.                                                                *)

ReadCheck(t) ==
  /\ At(t, "read")
  /\ IF gQueue = None THEN Return(t, FALSE)
     ELSE Goto(t, IF th[t].ok THEN "readClear" ELSE "readEnter")
  /\ UNCHANGED globals

\* The indices of the queue are zeroed through g_audio_queue as it is now.
ReadClear(t) ==
  /\ At(t, "readClear")
  /\ IF gQueue = None
       THEN Crash /\ UNCHANGED data
       ELSE data' = data \ {gQueue} /\ Goto(t, "readEnter") /\ UNCHANGED crashed
  /\ UNCHANGED <<device, gRecording, gQueue, gBase, gMutex, allocated, frees>>

\* Mutant: queue_read does not check its argument.
ReadEnterAnyway(t) ==
  /\ At(t, "readEnter")
  /\ Load(t, "reading", gQueue)
  /\ UNCHANGED globals

\* The argument of queue_read, which returns 0 for null.
ReadEnter(t) ==
  /\ At(t, "readEnter")
  /\ IF gQueue = None THEN Return(t, FALSE) ELSE Load(t, "reading", gQueue)
  /\ UNCHANGED globals

\* queue_read waits for a block of data; more of them may be left.  In a
\* block that was deleted it may return or not.
ReadReturn(t) ==
  /\ At(t, "reading")
  /\ Live(th[t].ptr) => th[t].ptr \in data
  /\ data' \in {data, data \ {th[t].ptr}}
  /\ Return(t, TRUE)
  /\ UNCHANGED <<device, flags, gQueue, gBase, allocated, frees>>

-----------------------------------------------------------------------------
(* PcmClose, called by users and by a capture thread whose read failed.    *)

CloseFlag(t) ==
  /\ At(t, "close")
  /\ gRecording' = FALSE
  /\ Goto(t, "closeLock")
  /\ UNCHANGED <<device, memory, gMutex, crashed>>

\* Mutant: the mutex is not waited for.
CloseLockNot(t) ==
  /\ At(t, "closeLock")
  /\ gMutex' = t
  /\ Goto(t, "closePcm")
  /\ UNCHANGED <<device, memory, gRecording, crashed>>

CloseLock(t) ==
  /\ At(t, "closeLock")
  /\ gMutex = None
  /\ gMutex' = t
  /\ Goto(t, "closePcm")
  /\ UNCHANGED <<device, memory, gRecording, crashed>>

ClosePcm(t) ==
  /\ At(t, "closePcm")
  /\ IF gPcm = None
       THEN Goto(t, "closeQueue") /\ UNCHANGED closes
       ELSE closes' = [closes EXCEPT ![gPcm] = @ + 1] /\ Goto(t, "closeNull")
  /\ UNCHANGED <<memory, flags, gPcm, opened>>

CloseNull(t) ==
  /\ At(t, "closeNull")
  /\ gPcm' = None
  /\ Goto(t, "closeQueue")
  /\ UNCHANGED <<memory, flags, opened, closes>>

\* Mutant: the block of the queue is not deleted.
CloseQueueLeaks(t) ==
  /\ At(t, "closeQueue")
  /\ gQueue' = None
  /\ Goto(t, "closeUnlock")
  /\ UNCHANGED <<device, flags, gBase, allocated, frees, data>>

\* queue_destroy; threads still in the queue are not waited for.
CloseQueue(t) ==
  /\ At(t, "closeQueue")
  /\ gQueue' = None
  /\ Goto(t, IF gQueue = None THEN "closeUnlock" ELSE "closeFree")
  /\ UNCHANGED <<device, flags, gBase, allocated, frees, data>>

\* delete[] of null does nothing.
CloseFree(t) ==
  /\ At(t, "closeFree")
  /\ frees' = IF gBase = None THEN frees ELSE [frees EXCEPT ![gBase] = @ + 1]
  /\ Goto(t, "closeBase")
  /\ UNCHANGED <<device, flags, gQueue, gBase, allocated, data>>

CloseBase(t) ==
  /\ At(t, "closeBase")
  /\ gBase' = None
  /\ Goto(t, "closeUnlock")
  /\ UNCHANGED <<device, flags, gQueue, allocated, frees, data>>

\* Mutant: the mutex is not released.
CloseUnlockNot(t) ==
  /\ At(t, "closeUnlock")
  /\ IF t \in Users THEN Return(t, TRUE) ELSE Goto(t, "exit")
  /\ UNCHANGED <<device, memory, flags>>

\* A user returns; a capture thread leaves its loop and ends.
CloseUnlock(t) ==
  /\ At(t, "closeUnlock")
  /\ gMutex' = None
  /\ IF t \in Users THEN Return(t, TRUE) ELSE Goto(t, "exit")
  /\ UNCHANGED <<device, memory, gRecording, crashed>>

Close(t) ==
  \/ CloseFlag(t) \/ CloseLock(t) \/ ClosePcm(t) \/ CloseNull(t)
  \/ CloseQueue(t) \/ CloseFree(t) \/ CloseBase(t) \/ CloseUnlock(t)

-----------------------------------------------------------------------------
(* The capture thread: RecordThreadFunc.                                   *)

CaptureBegin(c) ==
  /\ At(c, "begin")
  /\ Goto(c, IF gPcm = None THEN "exit" ELSE "loop")
  /\ UNCHANGED globals

CaptureLoop(c) ==
  /\ At(c, "loop")
  /\ Goto(c, IF gRecording THEN "device" ELSE "exit")
  /\ UNCHANGED globals

\* Without a handle the old contents of the buffer are written once more.
CaptureDevice(c) ==
  /\ At(c, "device")
  /\ Goto(c, IF gPcm = None THEN "write" ELSE "deviceEnter")
  /\ UNCHANGED globals

\* The argument of pcm_read_es, which does not expect null.
CaptureDeviceEnter(c) ==
  /\ At(c, "deviceEnter")
  /\ IF gPcm = None THEN Crash ELSE Load(c, "inread", gPcm) /\ UNCHANGED crashed
  /\ UNCHANGED <<device, memory, gRecording, gMutex>>

CaptureRead(c) ==
  /\ At(c, "inread")
  /\ Load(c, "write", None)
  /\ UNCHANGED globals

\* An error of the device, or the outcome of reading a closed handle.
CaptureReadFails(c) ==
  /\ At(c, "inread")
  /\ ReadMayFail \/ closes[th[c].ptr] > 0
  /\ Load(c, "close", None)
  /\ UNCHANGED globals

CaptureWrite(c) ==
  /\ At(c, "write")
  /\ Goto(c, IF gQueue = None THEN "loop" ELSE "writeEnter")
  /\ UNCHANGED globals

\* The argument of queue_write, which returns false for null.
CaptureEnter(c) ==
  /\ At(c, "writeEnter")
  /\ IF gQueue = None THEN Goto(c, "logFull") ELSE Load(c, "writing", gQueue)
  /\ UNCHANGED globals

\* queue_write stores a buffer, which holds a block of data at least.
CaptureStore(c) ==
  /\ At(c, "writing")
  /\ data' = data \union {th[c].ptr}
  /\ Load(c, "loop", None)
  /\ UNCHANGED <<device, flags, gQueue, gBase, allocated, frees>>

\* queue_write drops everything; false is returned.
CaptureOverflow(c) ==
  /\ At(c, "writing")
  /\ MayOverflow /\ th[c].ptr \in data
  /\ data' = data \ {th[c].ptr}
  /\ Load(c, "logFull", None)
  /\ UNCHANGED <<device, flags, gQueue, gBase, allocated, frees>>

\* The arguments of the LOGE after a failed queue_write.
CaptureLog(c) ==
  /\ At(c, "logFull")
  /\ IF LogShown /\ gQueue = None THEN Crash ELSE Goto(c, "loop") /\ UNCHANGED crashed
  /\ UNCHANGED <<device, memory, gRecording, gMutex>>

Capture(c) ==
  \/ CaptureBegin(c) \/ CaptureLoop(c) \/ CaptureDevice(c)
  \/ CaptureDeviceEnter(c) \/ CaptureRead(c) \/ CaptureReadFails(c)
  \/ CaptureWrite(c) \/ CaptureEnter(c) \/ CaptureStore(c)
  \/ CaptureOverflow(c) \/ CaptureLog(c) \/ Close(c)

-----------------------------------------------------------------------------
(* The functions by themselves: any user calls any of them at any time.    *)

User(u) ==
  \/ \E pc \in {"open", "startPcm", "read", "close"}, arg \in BOOLEAN :
       Call(u, pc, arg)
  \/ SizeCheck(u) \/ SizeUse(u)
  \/ OpenCheck(u) \/ OpenFails(u) \/ Open(u)
  \/ StartPcm(u) \/ StartFlag(u) \/ StartSet(u) \/ StartBase(u)
  \/ StartQueue(u) \/ Spawn(u) \/ SpawnFails(u)
  \/ ReadCheck(u) \/ ReadClear(u) \/ ReadEnter(u) \/ ReadReturn(u)
  \/ Close(u)

AlsaNext == (\E u \in Users : User(u)) \/ (\E c \in Captures : Capture(c))

AlsaSpec == AlsaInit /\ [][AlsaNext]_alsaVars

-----------------------------------------------------------------------------
(* Properties.                                                             *)

\* Globals point to what was opened or allocated, and a thread that is inside
\* the device or the queue holds a pointer that is not null.
AlsaTypeOK ==
  /\ opened \subseteq Pcms /\ allocated \subseteq Blocks
  /\ gPcm \in opened \union {None}
  /\ gQueue \in allocated \union {None} /\ gBase \in allocated \union {None}
  /\ gRecording \in BOOLEAN /\ crashed \in BOOLEAN
  /\ gMutex \in Threads \union {None}
  /\ closes \in [Pcms -> Nat] /\ frees \in [Blocks -> Nat]
  /\ data \subseteq allocated
  /\ th \in [Threads -> [pc: UserPc \union CapturePc \union {"dead"},
                         ptr: Pcms \union Blocks \union {None}, ok: BOOLEAN]]
  /\ \A t \in Threads :
       /\ At(t, "inread") => th[t].ptr \in opened
       /\ At(t, "reading") \/ At(t, "writing") => th[t].ptr \in allocated

\* However the calls of PcmClose, PcmOpen and PcmStartRecord interleave, no
\* handle is given to pcm_close twice and no block to delete[] twice: the
\* mutex and the null assignments of alsa_recorder.cpp:190-207 are enough.
ReleasedOnce ==
  /\ \A p \in Pcms : closes[p] <= 1
  /\ \A b \in Blocks : frees[b] <= 1

=============================================================================

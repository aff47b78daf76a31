--------------------------- MODULE RecordSession ---------------------------
(***************************************************************************)
(* Recorder.cpp on top of AlsaRecorder: the thread of the user interface   *)
(* calls init, destroy, startRecord, stopRecord and setClearBuffer through *)
(* JNI, and each accepted startRecord creates a record thread, which runs  *)
(* Recorder::record and calls the functions of alsa_recorder.cpp.          *)
(*                                                                         *)
(* No member of Recorder is locked, so each access that another thread can *)
(* separate is a step.  The files pcmFileBefore and pcmFileAfter are       *)
(* opened, written and closed together and are one file here.              *)
(***************************************************************************)
EXTENDS AlsaRecorder, FiniteSets

CONSTANTS
  Files,        \* bound: the files fopen can return
  FileMayFail,  \* TRUE: fopen may fail
  InitMayFail,  \* TRUE: CAENew may fail
  LongFiles,    \* TRUE: the files may outgrow the limit of record()
  MayClear,     \* TRUE: the application calls setClearBuffer
  Waits         \* the calls before which the application waits, see below

ASSUME SessionAssumption ==
  /\ None \notin Files
  /\ {FileMayFail, InitMayFail, LongFiles, MayClear} \subseteq BOOLEAN
  /\ Waits \subseteq {"init", "destroy", "start", "stop"}

VARIABLES
  ui,           \* the next step of the user interface's call
  isInit,       \* isInit_
  isRecording,  \* isRecording_
  clearBuffer,  \* clearBuffer_
  callback,     \* whether recordCallback_ points to a callback
  cae,          \* whether caeHandle_ points to an engine
  listener,     \* whether g_ListenerRef refers to a listener
  file,         \* pcmFileBefore and pcmFileAfter
  fopened,      \* the files fopen has returned
  fclosed,      \* the files fclose was called for
  rec           \* each record thread: its next step, isFirst, the report it
                \* is about to make and those it has made

lib == <<callback, cae, listener>>
files == <<file, fopened, fclosed>>
sessionVars == <<ui, isInit, isRecording, clearBuffer, lib, files, rec>>
vars == <<alsaVars, sessionVars>>

\* The record threads are the users of alsa_recorder.cpp.
RecordThreads == Users

UiPc == {"idle", "initCae", "initListener", "destroyCallback", "destroyCae",
         "destroyListener", "create"}
RecPc == {"unborn", "begin", "open", "opened", "size", "start", "started",
          "loop", "check", "read", "process", "alarm", "feed", "engine", "engineTell",
          "fclose", "fnull", "close", "closed", "stopped", "finish",
          "report", "tell", "exit"}

\* Mutant: record() goes on although PcmStartRecord has failed.
AfterReportGoesOn ==
  [started |-> "loop", openFailed |-> "exit", startFailed |-> "loop",
   error |-> "stopped", stopped |-> "finish"]

\* What a record thread reports, and where it goes on afterwards:
\* onStartRecord(CAE_SUCCESS), (CAE_ERROR_OPEN_PCM), (CAE_ERROR_PCM_RECORD),
\* onStopRecord(CAE_ERROR_PCM_RECORD), (CAE_SUCCESS).
AfterReport ==
  [started |-> "loop", openFailed |-> "exit", startFailed |-> "exit",
   error |-> "stopped", stopped |-> "finish"]
Reports == DOMAIN AfterReport

UiAt(pc) == ui = pc /\ ~crashed
On(r, pc) == rec[r].pc = pc
Step(r, pc) == rec' = [rec EXCEPT ![r].pc = pc]
Report(r, what) == rec' = [rec EXCEPT ![r].pc = "report", ![r].say = what]
Running(r) == rec[r].pc \notin {"unborn", "exit"}

\* What a record thread does outside alsa_recorder.cpp it does between calls.
Between(r) == At(r, "idle") /\ UNCHANGED alsaVars

Init ==
  /\ AlsaInit
  /\ ui = "idle"
  /\ isInit = FALSE /\ isRecording = FALSE /\ clearBuffer = FALSE
  /\ callback = FALSE /\ cae = FALSE /\ listener = FALSE
  /\ file = None /\ fopened = {} /\ fclosed = {}
  /\ rec = [r \in RecordThreads |->
             [pc |-> "unborn", first |-> TRUE, say |-> "started", told |-> {}]]

-----------------------------------------------------------------------------
(* The user interface.  An application that waits calls init, destroy and  *)
(* startRecord when every thread of earlier sessions has ended, and        *)
(* stopRecord after a session has reported that it started.                *)

AtRest ==
  /\ \A r \in RecordThreads : ~Running(r)
  /\ \A c \in Captures : th[c].pc \in {"unborn", "exit"}

\* JNI init: a new callback, then the engine unless there is one, then the
\* listener.
InitCallback ==
  /\ UiAt("idle") /\ ("init" \in Waits => AtRest)
  /\ callback' = TRUE
  /\ ui' = "initCae"
  /\ UNCHANGED <<alsaVars, isInit, isRecording, clearBuffer, cae, listener,
                 files, rec>>

InitCae ==
  /\ UiAt("initCae")
  /\ \/ cae /\ UNCHANGED <<cae, isInit>>
     \/ ~cae /\ \E ok \in {TRUE, ~InitMayFail} : cae' = ok /\ isInit' = ok
  /\ ui' = "initListener"
  /\ UNCHANGED <<alsaVars, isRecording, clearBuffer, callback, listener, files,
                 rec>>

InitListener ==
  /\ UiAt("initListener")
  /\ listener' = TRUE
  /\ ui' = "idle"
  /\ UNCHANGED <<alsaVars, isInit, isRecording, clearBuffer, callback, cae,
                 files, rec>>

\* Mutant: isInit_ is not cleared.
DestroyFlagsKeepsInit ==
  /\ UiAt("idle") /\ ("destroy" \in Waits => AtRest)
  /\ isRecording' = FALSE
  /\ ui' = "destroyCallback"
  /\ UNCHANGED <<alsaVars, isInit, clearBuffer, lib, files, rec>>

\* JNI destroy: the flags, the callback, the engine, the listener.
DestroyFlags ==
  /\ UiAt("idle") /\ ("destroy" \in Waits => AtRest)
  /\ isRecording' = FALSE /\ isInit' = FALSE
  /\ ui' = "destroyCallback"
  /\ UNCHANGED <<alsaVars, clearBuffer, lib, files, rec>>

DestroyCallback ==
  /\ UiAt("destroyCallback")
  /\ callback' = FALSE
  /\ ui' = "destroyCae"
  /\ UNCHANGED <<alsaVars, isInit, isRecording, clearBuffer, cae, listener,
                 files, rec>>

DestroyCae ==
  /\ UiAt("destroyCae")
  /\ cae' = FALSE
  /\ ui' = "destroyListener"
  /\ UNCHANGED <<alsaVars, isInit, isRecording, clearBuffer, callback, listener,
                 files, rec>>

DestroyListener ==
  /\ UiAt("destroyListener")
  /\ listener' = FALSE
  /\ ui' = "idle"
  /\ UNCHANGED <<alsaVars, isInit, isRecording, clearBuffer, callback, cae,
                 files, rec>>

\* The checks of startRecord.  A start they refuse changes no state; what it
\* and a stop out of turn are answered is in SessionRequests.
StartAccepted ==
  /\ UiAt("idle") /\ ("start" \in Waits => AtRest)
  /\ isInit /\ ~isRecording
  /\ \E r \in RecordThreads : On(r, "unborn")
  /\ ui' = "create"
  /\ UNCHANGED <<alsaVars, isInit, isRecording, clearBuffer, lib, files, rec>>

\* The files are opened over the ones of another session, if there is one;
\* that pthread_create fails goes unnoticed.
StartCreate ==
  /\ UiAt("create")
  /\ \/ /\ FileMayFail
        /\ file' = None /\ UNCHANGED fopened
     \/ \E f \in OneOf(Files \ fopened) : file' = f /\ fopened' = fopened \union {f}
  /\ \/ \E r \in OneOf({q \in RecordThreads : On(q, "unborn")}) : Step(r, "begin")
     \/ SpawnMayFail /\ UNCHANGED rec
  /\ ui' = "idle"
  /\ UNCHANGED <<alsaVars, isInit, isRecording, clearBuffer, lib, fclosed>>

\* The flag is cleared, whatever it was, and if it was clear the listener is
\* told CAE_ERROR_NOT_RECORDING, by the thread that makes the call.
StopRecord ==
  /\ UiAt("idle")
  /\ "stop" \in Waits => \E r \in RecordThreads : Running(r) /\ "started" \in rec[r].told
  /\ isRecording' = FALSE
  /\ UNCHANGED <<alsaVars, ui, isInit, clearBuffer, lib, files, rec>>

SetClearBuffer ==
  /\ MayClear /\ UiAt("idle")
  /\ clearBuffer' \in BOOLEAN
  /\ UNCHANGED <<alsaVars, ui, isInit, isRecording, lib, files, rec>>

\* MainActivity.onClick, or another caller of the API: any of the calls at any
\* moment.  Its other buttons only reach the engine, and the demo's own files
\* are opened and closed but never written to.
Ui ==
  \/ InitCallback \/ InitCae \/ InitListener
  \/ DestroyFlags \/ DestroyCallback \/ DestroyCae \/ DestroyListener
  \/ StartAccepted \/ StartCreate \/ StopRecord \/ SetClearBuffer

-----------------------------------------------------------------------------
(* A record thread: Recorder::record.                                      *)

\* The members and files a record thread leaves alone, but for rec itself.
Keep == UNCHANGED <<ui, isInit, lib, fopened>>

RecBegin(r) ==
  /\ On(r, "begin") /\ Between(r)
  /\ isRecording' = TRUE
  /\ Step(r, "open")
  /\ Keep /\ UNCHANGED <<clearBuffer, file, fclosed>>

RecOpen(r) ==
  /\ On(r, "open") /\ Call(r, "open", FALSE)
  /\ Step(r, "opened")
  /\ Keep /\ UNCHANGED <<isRecording, clearBuffer, file, fclosed>>

\* On failure the files stay open.
RecOpened(r) ==
  /\ On(r, "opened") /\ Between(r)
  /\ IF th[r].ok
       THEN Step(r, "size") /\ UNCHANGED isRecording
       ELSE Report(r, "openFailed") /\ isRecording' = FALSE
  /\ Keep /\ UNCHANGED <<clearBuffer, file, fclosed>>

RecSize(r) ==
  /\ On(r, "size") /\ SizeCheck(r)
  /\ Step(r, "start")
  /\ Keep /\ UNCHANGED <<isRecording, clearBuffer, file, fclosed>>

RecStart(r) ==
  /\ On(r, "start") /\ Call(r, "startPcm", th[r].ok)
  /\ Step(r, "started")
  /\ Keep /\ UNCHANGED <<isRecording, clearBuffer, file, fclosed>>

\* Mutant: a failure of PcmStartRecord is not reported.
RecStartedSilent(r) ==
  /\ On(r, "started") /\ Between(r)
  /\ IF th[r].ok
       THEN Report(r, "started") /\ UNCHANGED isRecording
       ELSE Step(r, "exit") /\ isRecording' = FALSE
  /\ Keep /\ UNCHANGED <<clearBuffer, file, fclosed>>

\* On failure the device stays open, and so do the files.
RecStarted(r) ==
  /\ On(r, "started") /\ Between(r)
  /\ IF th[r].ok
       THEN Report(r, "started") /\ UNCHANGED isRecording
       ELSE Report(r, "startFailed") /\ isRecording' = FALSE
  /\ Keep /\ UNCHANGED <<clearBuffer, file, fclosed>>

RecLoop(r) ==
  /\ On(r, "loop") /\ Between(r)
  /\ Step(r, IF isRecording THEN "check" ELSE "fclose")
  /\ Keep /\ UNCHANGED <<isRecording, clearBuffer, file, fclosed>>

\* Mutant: record() returns when the device has failed.
RecCheckReturns(r) ==
  /\ On(r, "check") /\ Between(r)
  /\ Step(r, IF gRecording THEN "read" ELSE "exit")
  /\ Keep /\ UNCHANGED <<isRecording, clearBuffer, file, fclosed>>

RecCheck(r) ==
  /\ On(r, "check") /\ Between(r)
  /\ Step(r, IF gRecording THEN "read" ELSE "fclose")
  /\ Keep /\ UNCHANGED <<isRecording, clearBuffer, file, fclosed>>

RecRead(r) ==
  /\ On(r, "read") /\ Call(r, "read", clearBuffer)
  /\ Step(r, "process")
  /\ Keep /\ UNCHANGED <<isRecording, clearBuffer, file, fclosed>>

\* The callback object forwards to the listener and uses it unchecked.
CanTell == callback /\ listener

\* A null pointer is used: a file, the callback or the listener.
Fault ==
  /\ Crash
  /\ UNCHANGED <<device, memory, gRecording, gMutex, sessionVars>>

\* The result of PcmRead is ignored.  The block is written and resampled,
\* which may raise an alarm when there is a callback; without the start of a
\* frame in it the queue is to be cleared, and the callback is used unchecked.
RecProcess(r) ==
  /\ On(r, "process") /\ At(r, "idle")
  /\ \/ file = None /\ Fault
     \/ /\ file # None
        /\ \E pc \in {"feed"} \union (IF callback THEN {"alarm"} ELSE {}) :
             rec' = [rec EXCEPT ![r].pc = pc, ![r].first = FALSE]
        /\ Keep /\ UNCHANGED <<alsaVars, isRecording, clearBuffer, file, fclosed>>
     \/ /\ file # None /\ rec[r].first
        /\ IF CanTell
             THEN /\ clearBuffer' = TRUE
                  /\ Step(r, "loop")
                  /\ Keep /\ UNCHANGED <<alsaVars, isRecording, file, fclosed>>
             ELSE Fault

\* ReSamples loads the callback again to raise its alarm.
RecAlarm(r) ==
  /\ On(r, "alarm") /\ At(r, "idle")
  /\ IF CanTell
       THEN /\ Step(r, "feed")
            /\ Keep /\ UNCHANGED <<alsaVars, isRecording, clearBuffer, file, fclosed>>
       ELSE Fault

\* The resampled block is written; files that have become too long are
\* opened anew, without being closed, and fopen may fail.
RecFeed(r) ==
  /\ On(r, "feed") /\ At(r, "idle")
  /\ \/ file = None /\ Fault
     \/ /\ file # None
        /\ \/ UNCHANGED <<file, fopened>>
           \/ LongFiles /\ FileMayFail /\ file' = None /\ UNCHANGED fopened
           \/ /\ LongFiles
              /\ \E f \in OneOf(Files \ fopened) :
                   file' = f /\ fopened' = fopened \union {f}
        /\ Step(r, IF cae THEN "engine" ELSE "loop")
        /\ UNCHANGED <<alsaVars, ui, isInit, isRecording, clearBuffer, lib,
                       fclosed>>

\* CAEAudioWrite may call back; one call stands for all it makes.
RecEngine(r) ==
  /\ On(r, "engine") /\ Between(r)
  /\ Step(r, "loop") \/ (callback /\ Step(r, "engineTell"))
  /\ Keep /\ UNCHANGED <<isRecording, clearBuffer, file, fclosed>>

RecEngineTell(r) ==
  /\ On(r, "engineTell") /\ At(r, "idle")
  /\ IF CanTell
       THEN /\ Step(r, "loop")
            /\ Keep /\ UNCHANGED <<alsaVars, isRecording, clearBuffer, file, fclosed>>
       ELSE Fault

RecFclose(r) ==
  /\ On(r, "fclose") /\ At(r, "idle")
  /\ IF file = None
       THEN Fault
       ELSE /\ fclosed' = fclosed \union {file}
            /\ Step(r, "fnull")
            /\ Keep /\ UNCHANGED <<alsaVars, isRecording, clearBuffer, file>>

RecFnull(r) ==
  /\ On(r, "fnull") /\ Between(r)
  /\ file' = None
  /\ Step(r, "close")
  /\ Keep /\ UNCHANGED <<isRecording, clearBuffer, fclosed>>

RecClose(r) ==
  /\ On(r, "close") /\ Call(r, "close", FALSE)
  /\ Step(r, "closed")
  /\ Keep /\ UNCHANGED <<isRecording, clearBuffer, file, fclosed>>

RecClosed(r) ==
  /\ On(r, "closed") /\ Between(r)
  /\ IF gRecording THEN Step(r, "stopped") ELSE Report(r, "error")
  /\ Keep /\ UNCHANGED <<isRecording, clearBuffer, file, fclosed>>

\* Mutant: a stop is not reported.
RecStoppedSilent(r) ==
  /\ On(r, "stopped") /\ Between(r)
  /\ Step(r, "finish")
  /\ Keep /\ UNCHANGED <<isRecording, clearBuffer, file, fclosed>>

RecStopped(r) ==
  /\ On(r, "stopped") /\ Between(r)
  /\ IF isRecording THEN Step(r, "finish") ELSE Report(r, "stopped")
  /\ Keep /\ UNCHANGED <<isRecording, clearBuffer, file, fclosed>>

\* Mutant: the flag is not cleared at the end of record().
RecFinishKeeps(r) ==
  /\ On(r, "finish") /\ Between(r)
  /\ Step(r, "exit")
  /\ Keep /\ UNCHANGED <<isRecording, clearBuffer, file, fclosed>>

RecFinish(r) ==
  /\ On(r, "finish") /\ Between(r)
  /\ isRecording' = FALSE
  /\ Step(r, "exit")
  /\ Keep /\ UNCHANGED <<clearBuffer, file, fclosed>>

\* Mutant: isInit_ is tested instead of the callback.
RecReportIfInit(r) ==
  /\ On(r, "report") /\ Between(r)
  /\ Step(r, IF isInit THEN "tell" ELSE AfterReport[rec[r].say])
  /\ Keep /\ UNCHANGED <<isRecording, clearBuffer, file, fclosed>>

\* A report is made only when there is a callback, which is then loaded again.
RecReport(r) ==
  /\ On(r, "report") /\ Between(r)
  /\ Step(r, IF callback THEN "tell" ELSE AfterReport[rec[r].say])
  /\ Keep /\ UNCHANGED <<isRecording, clearBuffer, file, fclosed>>

RecTell(r) ==
  /\ On(r, "tell") /\ At(r, "idle")
  /\ IF CanTell
       THEN /\ rec' = [rec EXCEPT ![r].pc = AfterReport[rec[r].say],
                                  ![r].told = @ \union {rec[r].say}]
            /\ Keep /\ UNCHANGED <<alsaVars, isRecording, clearBuffer, file, fclosed>>
       ELSE Fault

Record(r) ==
  \/ RecBegin(r) \/ RecOpen(r) \/ RecOpened(r) \/ RecSize(r) \/ RecStart(r)
  \/ RecStarted(r) \/ RecLoop(r) \/ RecCheck(r) \/ RecRead(r) \/ RecProcess(r)
  \/ RecAlarm(r) \/ RecFeed(r) \/ RecEngine(r) \/ RecEngineTell(r) \/ RecFclose(r)
  \/ RecFnull(r) \/ RecClose(r) \/ RecClosed(r) \/ RecStopped(r)
  \/ RecFinish(r) \/ RecReport(r) \/ RecTell(r)

\* The steps a record thread makes inside alsa_recorder.cpp.
InAlsa(r) ==
  /\ \/ SizeUse(r) \/ OpenCheck(r) \/ OpenFails(r) \/ Open(r)
     \/ StartPcm(r) \/ StartFlag(r) \/ StartSet(r) \/ StartBase(r)
     \/ StartQueue(r) \/ Spawn(r) \/ SpawnFails(r)
     \/ ReadCheck(r) \/ ReadClear(r) \/ ReadEnter(r) \/ ReadReturn(r)
     \/ Close(r)
  /\ UNCHANGED sessionVars

CaptureStep(c) == Capture(c) /\ UNCHANGED sessionVars

-----------------------------------------------------------------------------
Next ==
  \/ Ui
  \/ \E r \in RecordThreads : Record(r) \/ InAlsa(r)
  \/ \E c \in Captures : CaptureStep(c)

\* Every thread is scheduled and the device keeps delivering or fails, but
\* the application need not make another call, and a thread waiting in a
\* queue whose block was deleted may wait forever.
RecordFairness ==
  \A r \in RecordThreads :
    WF_vars((At(r, "reading") => Live(th[r].ptr)) /\ (Record(r) \/ InAlsa(r)))
CaptureFairness == \A c \in Captures : WF_vars(CaptureStep(c))
UiFairness == WF_vars(ui # "idle" /\ Ui)

Spec == Init /\ [][Next]_vars /\ RecordFairness /\ CaptureFairness /\ UiFairness

-----------------------------------------------------------------------------
(* Properties.                                                             *)

SessionTypeOK ==
  /\ AlsaTypeOK
  /\ ui \in UiPc
  /\ {isInit, isRecording, clearBuffer, callback, cae, listener} \subseteq BOOLEAN
  /\ fopened \subseteq Files /\ fclosed \subseteq fopened
  /\ file \in fopened \union {None}
  /\ rec \in [RecordThreads -> [pc: RecPc, first: BOOLEAN, say: Reports,
                                told: SUBSET Reports]]

\* When all threads have ended, whatever failed on the way but the start of a
\* session, the device and the queue are released, each once, both flags allow
\* the next session, and the files of all threads are closed
\* (Recorder.cpp:374-390, alsa_recorder.cpp:190-207).
AllReleased ==
  AtRest /\ UiAt("idle")
  /\ (\A r \in RecordThreads : rec[r].told \intersect {"openFailed", "startFailed"} = {}) =>
    /\ gPcm = None /\ gQueue = None /\ gBase = None /\ gMutex = None
    /\ \A p \in opened : closes[p] = 1
    /\ \A b \in allocated : frees[b] = 1
    /\ ~gRecording /\ ~isRecording
    /\ Cardinality(fopened) = Cardinality({r \in RecordThreads : On(r, "exit")})
         => file = None /\ fclosed = fopened

\* isRecording_ is not left set behind: while it refuses a start with
\* CAE_ERROR_RECORDING (Recorder.cpp:155-160) some record thread is running,
\* however starts, stops, init, destroy and failures interleave.
FlagHasThread == isRecording /\ ~crashed => \E r \in RecordThreads : Running(r)

\* While a session runs there are the engine, the callback and the listener it
\* uses unchecked, if the application calls destroy only between sessions:
\* however many init and destroy came before, whether or not they failed, and
\* whichever calls were made while a call of JNI was half done
\* (Recorder.cpp:112-160, com_iflytek_iflyos_AlsaCAE.cpp:162-194).
EngineWhileRunning ==
  "destroy" \in Waits =>
    \A r \in RecordThreads : Running(r) => callback /\ cae /\ listener

\* When a session has ended, its listener has been told how it started, in one
\* way only, and that it ended if it did start: a failure of the device, or a
\* stop that comes at any point of a failure, is not passed over in silence
\* (Recorder.cpp:296-328, :380-389).
EndTold ==
  \A r \in RecordThreads : On(r, "exit") =>
    /\ Cardinality(rec[r].told \intersect {"started", "openFailed", "startFailed"}) = 1
    /\ "started" \in rec[r].told <=> rec[r].told \intersect {"error", "stopped"} # {}

\* What a session promises its listener, for any application (SessionLife):
\* the reports come in order and none is made to nobody; while somebody listens
\* a session tells its failure unless another one has begun, and one that ends
\* with isRecording_ clear tells that it was stopped (Recorder.cpp:289-394).
PhaseOf(r) ==
  CASE On(r, "unborn") -> "none"
    [] On(r, "begin") -> "created"
    [] rec[r].pc \in {"open", "opened", "size", "start", "started"} -> "starting"
    [] rec[r].pc \in {"report", "tell"} ->
         CASE rec[r].say = "error" -> "recording"
           [] rec[r].say = "stopped" -> "ending"
           [] OTHER -> "starting"
    [] On(r, "stopped") -> "ending"
    [] On(r, "finish") \/ On(r, "exit") -> "over"
    [] OTHER -> "recording"

Life == INSTANCE SessionLife WITH
  Sessions <- RecordThreads,
  phase <- [r \in RecordThreads |-> PhaseOf(r)],
  told <- [r \in RecordThreads |-> rec[r].told],
  listening <- CanTell,
  asked <- isRecording

ImplementsLife == Life!LifeSpec

\* A record thread that waits in a queue whose block was deleted.
Stranded(r) == At(r, "reading") /\ ~Live(th[r].ptr)

\* A session whose flag was cleared, by stopRecord, destroy or a failure, ends:
\* its record thread does unless a later session sets the flag again, its
\* capture thread unless a later one is capturing.  The process may die on the
\* way, and a record thread that waits for data when the device fails is left
\* behind, see FailureReported (Recorder.cpp:171-178, :330).
StopEnds ==
  /\ \A r \in RecordThreads :
       Running(r) /\ ~On(r, "begin") /\ ~isRecording
         ~> isRecording \/ ~Running(r) \/ crashed \/ Stranded(r)
  /\ \A c \in Captures :
       th[c].pc \notin {"unborn", "exit"} /\ ~gRecording
         ~> gRecording \/ At(c, "exit") \/ crashed

\* Whatever fails, each session reports how its start went.
StartAnswered ==
  \A r \in RecordThreads :
    On(r, "begin") ~> rec[r].told \intersect {"started", "openFailed", "startFailed"} # {}

-----------------------------------------------------------------------------
(* What comments and messages say, and a run refutes.                      *)

\* "PCM recording failed" (ErrorCode.h:21) is not reported when it did not.
ErrorMeansFailure == \A r \in RecordThreads : "error" \notin rec[r].told

\* A failure of the device is reported as "PCM recording failed"
\* (ErrorCode.h:21, Recorder.cpp:331-334 and :380-384).
FailureReported ==
  \A c \in Captures :
    At(c, "close") ~> crashed \/ \E r \in RecordThreads : "error" \in rec[r].told

=============================================================================

-------------------------- MODULE SessionLifeProofs --------------------------
(***************************************************************************)
(* What TLAPS proves about the sessions of RecordSession as their listener *)
(* and the engine see them: EngineWhileRunning and ImplementsLife, for any *)
(* number of record threads, capture threads, handles, blocks and files,   *)
(* and whatever may fail.                                                  *)
(***************************************************************************)
EXTENDS RecordSessionProofs, FiniteSetTheorems

\* The parts of the state that a record thread never changes, and its own
\* record, the only one it does.
LEMMA RecordAlone ==
  ASSUME SessionTypeOK, NEW r \in RecordThreads, Record(r)
  PROVE  /\ Running(r) /\ UNCHANGED <<ui, isInit, callback, cae, listener>>
         /\ \A q \in RecordThreads \ {r} : rec'[q] = rec[q]
  <1>1. rec \in [RecordThreads -> RecLocals]
    BY SessionTypeParts DEF RecOK
  <1>2. \A q \in RecordThreads \ {r} : rec'[q] = rec[q]
    BY <1>1 DEF Record, RecBegin, RecOpen, RecOpened, RecSize, RecStart, RecStarted,
       RecLoop, RecCheck, RecRead, RecProcess, RecAlarm, RecFeed, RecEngine,
       RecEngineTell, RecFclose, RecFnull, RecClose, RecClosed, RecStopped,
       RecFinish, RecReport, RecTell, Step, Report, Fault, sessionVars
  <1>3. Running(r)
    BY DEF Record, RecBegin, RecOpen, RecOpened, RecSize, RecStart, RecStarted,
       RecLoop, RecCheck, RecRead, RecProcess, RecAlarm, RecFeed, RecEngine,
       RecEngineTell, RecFclose, RecFnull, RecClose, RecClosed, RecStopped,
       RecFinish, RecReport, RecTell, Running, On
  <1>4. UNCHANGED <<ui, isInit, callback, cae, listener>>
    BY DEF Record, RecBegin, RecOpen, RecOpened, RecSize, RecStart, RecStarted,
       RecLoop, RecCheck, RecRead, RecProcess, RecAlarm, RecFeed, RecEngine,
       RecEngineTell, RecFclose, RecFnull, RecClose, RecClosed, RecStopped,
       RecFinish, RecReport, RecTell, Keep, Fault, sessionVars, lib
  <1> QED
    BY <1>2, <1>3, <1>4

-----------------------------------------------------------------------------
(* EngineWhileRunning.                                                     *)

\* What isInit_ vouches for, at each step of a call of JNI.
InitMeans ==
  /\ isInit => callback /\ cae /\ (listener \/ ui = "initListener")
  /\ ui = "initCae" => callback
  /\ ui \in {"destroyCallback", "destroyCae", "destroyListener"} => ~isInit

\* A session, and a start that was accepted, rely on it.
InitHeld ==
  (ui = "create" \/ \E r \in RecordThreads : Running(r)) => isInit /\ listener

EngineInv == InitMeans /\ InitHeld

LEMMA UiEngine ==
  ASSUME SessionTypeOK, EngineInv, "destroy" \in Waits, Ui
  PROVE  EngineInv'
  <1>1. CASE StartCreate
    <2>1. isInit /\ listener /\ UNCHANGED <<isInit, callback, cae, listener>> /\ ui' = "idle"
      BY <1>1 DEF StartCreate, UiAt, EngineInv, InitHeld, lib
    <2> QED
      BY <2>1 DEF EngineInv, InitMeans, InitHeld
  <1>2. CASE DestroyFlags
    <2>1. \A r \in RecordThreads : ~Running(r)
      BY <1>2 DEF DestroyFlags, AtRest
    <2>2. \A r \in RecordThreads : ~Running(r)'
      BY <1>2, <2>1 DEF DestroyFlags, Running
    <2> QED
      BY <1>2, <2>2 DEF DestroyFlags, EngineInv, InitMeans, InitHeld
  <1>3. CASE InitCae
    <2>1. CASE UNCHANGED <<cae, isInit>>
      BY <1>3, <2>1 DEF InitCae, UiAt, EngineInv, InitMeans, InitHeld, Running
    <2>2. CASE ~cae /\ isInit' = cae'
      BY <1>3, <2>2 DEF InitCae, UiAt, EngineInv, InitMeans, InitHeld, Running
    <2> QED
      BY <1>3, <2>1, <2>2 DEF InitCae
  <1>4. CASE InitCallback \/ InitListener
    BY <1>4 DEF InitCallback, InitListener, UiAt, EngineInv, InitMeans, InitHeld, Running
  <1>5. CASE StartAccepted \/ StopRecord \/ SetClearBuffer
    BY <1>5 DEF StartAccepted, StopRecord, SetClearBuffer, UiAt, lib, EngineInv,
       InitMeans, InitHeld, Running
  <1>6. CASE DestroyCallback \/ DestroyCae \/ DestroyListener
    BY <1>6 DEF DestroyCallback, DestroyCae, DestroyListener, UiAt, EngineInv,
       InitMeans, InitHeld, Running
  <1> QED
    BY <1>1, <1>2, <1>3, <1>4, <1>5, <1>6 DEF Ui

LEMMA EngineInvNext ==
  SessionTypeOK /\ "destroy" \in Waits /\ EngineInv /\ [Next]_vars => EngineInv'
  <1> SUFFICES ASSUME SessionTypeOK, "destroy" \in Waits, EngineInv, [Next]_vars
               PROVE  EngineInv'
    OBVIOUS
  <1>1. ASSUME NEW r \in RecordThreads, Record(r) PROVE EngineInv'
    <2>1. \A q \in RecordThreads : Running(q)' => Running(q)
      BY <1>1, RecordAlone DEF Running
    <2> QED
      BY <1>1, <2>1, RecordAlone DEF EngineInv, InitMeans, InitHeld
  <1>2. CASE UNCHANGED sessionVars
    BY <1>2 DEF sessionVars, lib, EngineInv, InitMeans, InitHeld, Running
  <1> QED
    BY <1>1, <1>2, UiEngine DEF Next, InAlsa, CaptureStep, vars

\* If the application calls destroy only between sessions, the engine, the
\* callback and the listener that record() uses unchecked are there as long as a
\* session runs, for any calls of init and startRecord between and during the
\* calls of JNI, and whether or not the engine could be created
\* (Recorder.cpp:112-160, com_iflytek_iflyos_AlsaCAE.cpp:162-194).
THEOREM EngineIsHeld == Spec => []EngineWhileRunning
  <1>1. CASE "destroy" \in Waits
    <2>1. Init => SessionTypeOK /\ EngineInv
      BY SessionInitTypeOK DEF Init, EngineInv, InitMeans, InitHeld, Running
    <2>2. (SessionTypeOK /\ EngineInv) /\ [Next]_vars => (SessionTypeOK /\ EngineInv)'
      BY <1>1, SessionNextTypeOK, EngineInvNext
    <2>3. EngineInv => EngineWhileRunning
      BY DEF EngineInv, InitMeans, InitHeld, EngineWhileRunning
    <2> QED
      BY <2>1, <2>2, <2>3, PTL DEF Spec
  <1>2. CASE "destroy" \notin Waits
    <2>1. EngineWhileRunning
      BY <1>2 DEF EngineWhileRunning
    <2> QED
      BY <2>1, PTL
  <1> QED
    BY <1>1, <1>2

-----------------------------------------------------------------------------
(* The steps of threads inside alsa_recorder.cpp.                          *)

\* What a step does to the place of its thread.
LEMMA PlaceOf ==
  ASSUME ThreadsOK, NEW t \in Threads
  PROVE  /\ \A pc : Goto(t, pc) =>
              th'[t].pc = pc /\ \A u \in Threads \ {t} : th'[u] = th[u]
         /\ \A pc, p : Load(t, pc, p) =>
              th'[t].pc = pc /\ \A u \in Threads \ {t} : th'[u] = th[u]
         /\ \A ok : Return(t, ok) =>
              th'[t].pc = "idle" /\ \A u \in Threads \ {t} : th'[u] = th[u]
         /\ \A pc, arg : Call(t, pc, arg) =>
              th'[t].pc = pc /\ \A u \in Threads \ {t} : th'[u] = th[u]
         /\ Crash => \A u \in Threads : th'[u].pc = "dead"
  BY DEF ThreadsOK, Locals, Goto, Load, Return, Call, Crash

\* A step leaves every record thread but r in its place, unless the process dies.
OthersStay(r) ==
  \A q \in RecordThreads \ {r} : th'[q].pc = th[q].pc \/ th'[q].pc = "dead"

Setting == {"startPcm", "startFlag", "startSet"}

LEMMA CloseMoves ==
  ASSUME AlsaTypeOK, NEW t \in Threads, Close(t)
  PROVE  /\ th[t].pc \in ClosePc /\ OthersStay(t)
         /\ th'[t].pc \in (ClosePc \ {"close"}) \union {IF t \in Users THEN "idle" ELSE "exit"}
         /\ gRecording' => gRecording /\ th[t].pc # "close"
  <1>1. ThreadsOK
    BY TypeParts
  <1>2. CASE CloseFlag(t)
    BY <1>1, <1>2, PlaceOf DEF CloseFlag, At, ClosePc, OthersStay, RecordThreads, Threads
  <1>3. CASE CloseLock(t)
    BY <1>1, <1>3, PlaceOf DEF CloseLock, At, ClosePc, OthersStay, RecordThreads, Threads
  <1>9. CASE CloseUnlock(t)
    BY <1>1, <1>9, PlaceOf DEF CloseUnlock, At, ClosePc, OthersStay, RecordThreads, Threads
  <1>4. CASE ClosePcm(t)
    <2>1. Goto(t, "closeQueue") \/ Goto(t, "closeNull")
      BY <1>4 DEF ClosePcm
    <2>2. OthersStay(t) /\ th'[t].pc \in {"closeQueue", "closeNull"}
      BY <1>1, <2>1, PlaceOf DEF OthersStay, RecordThreads, Threads
    <2> QED
      BY <1>4, <2>2 DEF ClosePcm, flags, At, ClosePc
  <1>5. CASE CloseNull(t)
    BY <1>1, <1>5, PlaceOf DEF CloseNull, flags, At, ClosePc, OthersStay,
       RecordThreads, Threads
  <1>6. CASE CloseQueue(t)
    BY <1>1, <1>6, PlaceOf DEF CloseQueue, flags, At, ClosePc, OthersStay,
       RecordThreads, Threads
  <1>7. CASE CloseFree(t)
    BY <1>1, <1>7, PlaceOf DEF CloseFree, flags, At, ClosePc, OthersStay,
       RecordThreads, Threads
  <1>8. CASE CloseBase(t)
    BY <1>1, <1>8, PlaceOf DEF CloseBase, flags, At, ClosePc, OthersStay,
       RecordThreads, Threads
  <1> QED
    BY <1>2, <1>3, <1>4, <1>5, <1>6, <1>7, <1>8, <1>9 DEF Close

\* What a record thread does inside PcmBufferSize, PcmOpen, PcmStartRecord and
\* PcmRead.
Inner(r) ==
  \/ SizeUse(r) \/ OpenCheck(r) \/ OpenFails(r) \/ Open(r)
  \/ StartPcm(r) \/ StartFlag(r) \/ StartSet(r) \/ StartBase(r)
  \/ StartQueue(r) \/ Spawn(r) \/ SpawnFails(r)
  \/ ReadCheck(r) \/ ReadClear(r) \/ ReadEnter(r) \/ ReadReturn(r)

LEMMA InnerMoves ==
  ASSUME AlsaTypeOK, NEW r \in RecordThreads, Inner(r)
  PROVE  /\ th[r].pc \notin ClosePc \union {"idle", "dead"} /\ OthersStay(r)
         /\ th'[r].pc \in Setting => th[r].pc \in Setting
         /\ gRecording' => gRecording \/ th[r].pc = "startSet"
  <1>1. ThreadsOK /\ r \in Threads
    BY TypeParts DEF RecordThreads, Threads
  <1>2. CASE OpenCheck(r)
    BY <1>1, <1>2, PlaceOf DEF OpenCheck, globals, flags, At, ClosePc, Setting, OthersStay,
       RecordThreads, Threads
  <1>3. CASE OpenFails(r)
    BY <1>1, <1>3, PlaceOf DEF OpenFails, globals, flags, At, ClosePc, Setting, OthersStay,
       RecordThreads, Threads
  <1>4. CASE Open(r)
    BY <1>1, <1>4, PlaceOf DEF Open, flags, At, ClosePc, Setting, OthersStay,
       RecordThreads, Threads
  <1>5. CASE StartPcm(r)
    BY <1>1, <1>5, PlaceOf DEF StartPcm, globals, flags, At, ClosePc, Setting, OthersStay,
       RecordThreads, Threads
  <1>6. CASE StartFlag(r)
    BY <1>1, <1>6, PlaceOf DEF StartFlag, globals, flags, At, ClosePc, Setting, OthersStay,
       RecordThreads, Threads
  <1>7. CASE SpawnFails(r)
    BY <1>1, <1>7, PlaceOf DEF SpawnFails, globals, flags, At, ClosePc, Setting, OthersStay,
       RecordThreads, Threads
  <1>8. CASE StartSet(r) \/ StartQueue(r)
    BY <1>1, <1>8, PlaceOf DEF StartSet, StartQueue, flags, At, ClosePc, Setting, OthersStay,
       RecordThreads, Threads
  <1>9. CASE StartBase(r)
    BY <1>1, <1>9, PlaceOf DEF StartBase, At, ClosePc, Setting, OthersStay,
       RecordThreads, Threads
  <1>10. CASE Spawn(r)
    <2>1. PICK c \in Captures :
            th' = [th EXCEPT ![c].pc = "begin",
                             ![r] = [pc |-> "idle", ptr |-> None, ok |-> TRUE]]
      BY <1>10, OneOfIsOne DEF Spawn
    <2>2. th'[r].pc = "idle" /\ \A q \in RecordThreads \ {r} : th'[q] = th[q]
      BY <1>1, <2>1, AlsaAssumption DEF ThreadsOK, RecordThreads, Threads
    <2> QED
      BY <1>10, <2>2 DEF Spawn, globals, flags, At, ClosePc, Setting, OthersStay
  <1>11. CASE ReadCheck(r)
    <2>1. Return(r, FALSE) \/ Goto(r, "readClear") \/ Goto(r, "readEnter")
      BY <1>11 DEF ReadCheck
    <2>2. OthersStay(r) /\ th'[r].pc \in {"idle", "readClear", "readEnter"}
      BY <1>1, <2>1, PlaceOf DEF OthersStay, RecordThreads, Threads
    <2> QED
      BY <1>11, <2>2 DEF ReadCheck, globals, flags, At, ClosePc, Setting
  <1>12. CASE ReadEnter(r)
    <2>1. Return(r, FALSE) \/ Load(r, "reading", gQueue)
      BY <1>12 DEF ReadEnter
    <2>2. OthersStay(r) /\ th'[r].pc \in {"idle", "reading"}
      BY <1>1, <2>1, PlaceOf DEF OthersStay, RecordThreads, Threads
    <2> QED
      BY <1>12, <2>2 DEF ReadEnter, globals, flags, At, ClosePc, Setting
  <1>13. CASE ReadClear(r)
    <2>1. Crash \/ Goto(r, "readEnter")
      BY <1>13 DEF ReadClear
    <2>2. OthersStay(r) /\ th'[r].pc \in {"readEnter", "dead"}
      BY <1>1, <2>1, PlaceOf DEF OthersStay, RecordThreads, Threads
    <2> QED
      BY <1>13, <2>2 DEF ReadClear, At, ClosePc, Setting
  <1>14. CASE ReadReturn(r)
    BY <1>1, <1>14, PlaceOf DEF ReadReturn, flags, At, ClosePc, Setting, OthersStay,
       RecordThreads, Threads
  <1>15. CASE SizeUse(r)
    <2>1. Crash \/ Return(r, TRUE)
      BY <1>15 DEF SizeUse
    <2>2. OthersStay(r) /\ th'[r].pc \in {"idle", "dead"}
      BY <1>1, <2>1, PlaceOf DEF OthersStay, RecordThreads, Threads
    <2> QED
      BY <1>15, <2>2 DEF SizeUse, At, ClosePc, Setting
  <1> QED
    BY <1>2, <1>3, <1>4, <1>5, <1>6, <1>7, <1>8, <1>9, <1>10, <1>11, <1>12, <1>13, <1>14,
       <1>15 DEF Inner

LEMMA CaptureMoves ==
  ASSUME AlsaTypeOK, NEW c \in Captures, Capture(c)
  PROVE  /\ \A q \in RecordThreads : th'[q].pc = th[q].pc \/ th'[q].pc = "dead"
         /\ gRecording' => gRecording
  <1>1. ThreadsOK /\ c \in Threads /\ c \notin RecordThreads
    BY TypeParts, AlsaAssumption DEF RecordThreads, Threads
  <1>2. CASE Close(c)
    BY <1>1, <1>2, CloseMoves DEF OthersStay
  <1>3. CASE CaptureBegin(c) \/ CaptureLoop(c) \/ CaptureDevice(c) \/ CaptureRead(c)
             \/ CaptureReadFails(c) \/ CaptureWrite(c) \/ CaptureEnter(c)
    BY <1>1, <1>3, PlaceOf DEF CaptureBegin, CaptureLoop, CaptureDevice, CaptureRead,
       CaptureReadFails, CaptureWrite, CaptureEnter, globals, flags, RecordThreads, Threads
  <1>4. CASE CaptureDeviceEnter(c) \/ CaptureStore(c) \/ CaptureOverflow(c) \/ CaptureLog(c)
    BY <1>1, <1>4, PlaceOf DEF CaptureDeviceEnter, CaptureStore, CaptureOverflow,
       CaptureLog, flags, RecordThreads, Threads
  <1> QED
    BY <1>2, <1>3, <1>4 DEF Capture

-----------------------------------------------------------------------------
(* A session that is alone reports its failure.                            *)

\* A record thread sets g_is_recording only on its way into its loop, and while
\* it calls PcmClose it is nowhere else in alsa_recorder.cpp.  So a flag that is
\* found set after PcmClose was set by another session.
SetterInv == \A r \in RecordThreads : th[r].pc \in Setting => On(r, "started")
CloserInv ==
  \A r \in RecordThreads :
    On(r, "closed") => th[r].pc \in ClosePc \union {"idle", "dead"}
Begun(r) == ~On(r, "unborn") /\ ~On(r, "begin")
AloneInv ==
  \A r \in RecordThreads :
    On(r, "closed") /\ th[r].pc \notin {"close", "dead"} /\ gRecording =>
      \E q \in RecordThreads \ {r} : Begun(q)

LifeInv == SetterInv /\ CloserInv /\ AloneInv

\* A record thread that has begun does not begin again.
LEMMA StaysBegun ==
  ASSUME SessionTypeOK, NEW r \in RecordThreads, Record(r), Begun(r)
  PROVE  Begun(r)'
  <1>0. RecOK
    BY SessionTypeParts
  <1>1. CASE Plain(r)
    <2>1. \/ \E pc \in RecPc \ {"unborn", "begin"} : Step(r, pc)
          \/ \E what \in Reports : Report(r, what)
      BY <1>1, AfterReportOK DEF Plain, RecBegin, RecOpen, RecOpened, RecSize, RecStart,
         RecStarted, RecLoop, RecCheck, RecRead, RecEngine, RecFnull, RecClose,
         RecClosed, RecStopped, RecFinish, RecPc
    <2> QED
      BY <1>0, <2>1, StepOK, ReportOK DEF Begun, On
  <1>2. CASE Fault
    BY <1>2 DEF Fault, sessionVars, Begun, On
  <1>3. CASE /\ ~Fault
             /\ RecProcess(r) \/ RecAlarm(r) \/ RecFeed(r) \/ RecEngineTell(r) \/ RecFclose(r)
    BY <1>3, RiskyAnswers DEF Answers, Begun, On, RecPc
  <1>4. CASE (RecReport(r) \/ RecTell(r)) /\ ~Fault
    <2>1. rec[r].say \in Reports /\ AfterReport[rec[r].say] \in {"loop", "exit", "stopped", "finish"}
      BY <1>0 DEF RecOK, RecLocals, Reports, AfterReport
    <2>2. rec'[r].pc \in {"tell", AfterReport[rec[r].say]}
      BY <1>0, <1>4 DEF RecReport, RecTell, Step, RecOK, RecLocals
    <2> QED
      BY <2>1, <2>2 DEF Begun, On
  <1> QED
    BY <1>1, <1>2, <1>3, <1>4 DEF Record, Plain

LEMMA RecordLifeInv ==
  ASSUME SessionTypeOK, LifeInv, NEW r \in RecordThreads, Record(r)
  PROVE  LifeInv'
  <1>0. RecOK /\ ThreadsOK /\ r \in Threads
    BY SessionTypeParts, TypeParts DEF RecordThreads, Threads
  <1>1. \A q \in RecordThreads \ {r} : rec'[q] = rec[q]
    BY RecordAlone
  <1>2. \A q \in RecordThreads : Begun(q) => Begun(q)'
    BY <1>1, StaysBegun DEF Begun, On
  <1>3. CASE Fault
    <2>1. \A q \in RecordThreads : th'[q].pc = "dead"
      BY <1>0, <1>3, PlaceOf DEF Fault, RecordThreads, Threads
    <2> QED
      BY <2>1 DEF LifeInv, SetterInv, CloserInv, AloneInv, Setting
  <1>4. ASSUME NEW pc \in {"idle", "size", "open", "startPcm", "read", "close"},
               th'[r].pc = pc, gRecording' = gRecording,
               \A q \in RecordThreads \ {r} : th'[q] = th[q],
               pc = "startPcm" => On(r, "started")',
               pc # "close" => ~On(r, "closed")'
        PROVE  LifeInv'
    <2>1. \A q \in RecordThreads \ {r} : \A p : On(q, p)' = On(q, p)
      BY <1>1 DEF On
    <2>2. SetterInv' /\ CloserInv'
      BY <1>4, <2>1 DEF LifeInv, SetterInv, CloserInv, Setting, ClosePc
    <2>3. AloneInv'
      BY <1>2, <1>4, <2>1 DEF LifeInv, AloneInv
    <2> QED
      BY <2>2, <2>3 DEF LifeInv
  <1>5. CASE RecOpen(r) \/ RecStart(r) \/ RecRead(r) \/ RecClose(r)
    <2>1. PICK pc \in {"open", "startPcm", "read", "close"}, arg \in {FALSE, th[r].ok, clearBuffer} :
            /\ Call(r, pc, arg)
            /\ Step(r, CASE pc = "open" -> "opened" [] pc = "startPcm" -> "started"
                         [] pc = "read" -> "process" [] pc = "close" -> "closed")
      BY <1>5 DEF RecOpen, RecStart, RecRead, RecClose
    <2>2. /\ th'[r].pc = pc /\ gRecording' = gRecording
          /\ \A q \in RecordThreads \ {r} : th'[q] = th[q]
      BY <1>0, <2>1, PlaceOf DEF Call, globals, flags, RecordThreads, Threads
    <2>3. rec'[r].pc = CASE pc = "open" -> "opened" [] pc = "startPcm" -> "started"
                         [] pc = "read" -> "process" [] pc = "close" -> "closed"
      BY <1>0, <2>1 DEF Step, RecOK, RecLocals
    <2> QED
      BY <1>4, <2>2, <2>3 DEF On
  <1>6. CASE RecSize(r)
    <2>1. Return(r, FALSE) \/ Goto(r, "size")
      BY <1>6 DEF RecSize, SizeCheck
    <2>3. /\ th'[r].pc \in {"idle", "size"}
          /\ \A q \in RecordThreads \ {r} : th'[q] = th[q]
      BY <1>0, <2>1, PlaceOf DEF RecordThreads, Threads
    <2>4. gRecording' = gRecording
      BY <1>6 DEF RecSize, SizeCheck, globals, flags
    <2>2. ~On(r, "closed")'
      BY <1>0, <1>6 DEF RecSize, Step, On, RecOK, RecLocals
    <2> QED
      BY <1>4, <2>2, <2>3, <2>4
  <1>7. CASE \/ RecBegin(r) \/ RecOpened(r) \/ RecStarted(r) \/ RecLoop(r) \/ RecCheck(r)
             \/ RecEngine(r) \/ RecFnull(r) \/ RecClosed(r) \/ RecStopped(r)
             \/ RecFinish(r) \/ RecReport(r)
    <2>1. At(r, "idle") /\ UNCHANGED alsaVars
      BY <1>7 DEF RecBegin, RecOpened, RecStarted, RecLoop, RecCheck, RecEngine,
         RecFnull, RecClosed, RecStopped, RecFinish, RecReport, Between
    <2>2. rec[r].say \in Reports /\ AfterReport[rec[r].say] # "closed"
      BY <1>0 DEF RecOK, RecLocals, Reports, AfterReport
    <2>3. (\E pc : pc # "closed" /\ Step(r, pc)) \/ (\E what : Report(r, what))
      BY <1>7, <2>2 DEF RecBegin, RecOpened, RecStarted, RecLoop, RecCheck, RecEngine,
         RecFnull, RecClosed, RecStopped, RecFinish, RecReport
    <2>4. ~On(r, "closed")'
      BY <1>0, <2>3 DEF Step, Report, On, RecOK, RecLocals
    <2> QED
      BY <1>4, <2>1, <2>4 DEF At, alsaVars, globals, flags
  <1>8. CASE /\ ~Fault
             /\ \/ RecProcess(r) \/ RecAlarm(r) \/ RecFeed(r) \/ RecEngineTell(r)
                \/ RecFclose(r) \/ RecTell(r)
    <2>1. At(r, "idle") /\ UNCHANGED alsaVars
      BY <1>8 DEF RecProcess, RecAlarm, RecFeed, RecEngineTell, RecFclose, RecTell
    <2>2. rec[r].say \in Reports /\ AfterReport[rec[r].say] # "closed"
      BY <1>0 DEF RecOK, RecLocals, Reports, AfterReport
    <2>3. ~On(r, "closed")'
      BY <1>0, <1>8, <2>2 DEF RecProcess, RecAlarm, RecFeed, RecEngineTell, RecFclose,
         RecTell, Step, On, RecOK, RecLocals
    <2> QED
      BY <1>4, <2>1, <2>3 DEF At, alsaVars, globals, flags
  <1> QED
    BY <1>3, <1>5, <1>6, <1>7, <1>8 DEF Record

LEMMA InAlsaLifeInv ==
  ASSUME SessionTypeOK, LifeInv, NEW r \in RecordThreads, InAlsa(r)
  PROVE  LifeInv'
  <1>1. AlsaTypeOK /\ r \in Threads /\ r \in Users
    BY SessionTypeParts DEF RecordThreads, Threads
  <1>2. \A q \in RecordThreads : \A p : On(q, p)' = On(q, p)
    BY DEF InAlsa, sessionVars, On
  <1>3. CASE Close(r)
    <2>1. SetterInv' /\ CloserInv'
      BY <1>1, <1>2, <1>3, CloseMoves
         DEF LifeInv, SetterInv, CloserInv, OthersStay, Setting, ClosePc
    <2>2. AloneInv'
      BY <1>1, <1>2, <1>3, CloseMoves DEF LifeInv, AloneInv, Begun, OthersStay, ClosePc
    <2> QED
      BY <2>1, <2>2 DEF LifeInv
  <1>4. CASE Inner(r)
    <2>1. ~On(r, "closed")
      BY <1>1, <1>4, InnerMoves DEF LifeInv, CloserInv
    <2>2. SetterInv' /\ CloserInv'
      BY <1>1, <1>2, <1>4, <2>1, InnerMoves
         DEF LifeInv, SetterInv, CloserInv, OthersStay, Setting
    <2>3. ASSUME NEW q \in RecordThreads, On(q, "closed")',
                 th'[q].pc \notin {"close", "dead"}, gRecording'
          PROVE  \E p \in RecordThreads \ {q} : Begun(p)'
      <3>1. On(q, "closed") /\ q # r /\ th[q].pc \notin {"close", "dead"}
        BY <1>1, <1>2, <1>4, <2>1, <2>3, InnerMoves DEF OthersStay, LifeInv, CloserInv
      <3>2. CASE gRecording
        BY <1>2, <3>1, <3>2 DEF LifeInv, AloneInv, Begun
      <3>3. CASE th[r].pc = "startSet"
        <4>1. On(r, "started")
          BY <3>3 DEF LifeInv, SetterInv, Setting
        <4> QED
          BY <1>2, <3>1, <4>1 DEF Begun, On
      <3> QED
        BY <1>1, <1>4, <2>3, <3>2, <3>3, InnerMoves
    <2> QED
      BY <2>2, <2>3 DEF LifeInv, AloneInv
  <1> QED
    BY <1>3, <1>4 DEF InAlsa, Inner

LEMMA UiRec ==
  ASSUME Ui
  PROVE  \/ UNCHANGED rec
         \/ StartCreate /\ \E r \in RecordThreads : On(r, "unborn") /\ Step(r, "begin")
  BY OneOfIsOne DEF Ui, InitCallback, InitCae, InitListener, DestroyFlags,
     DestroyCallback, DestroyCae, DestroyListener, StartAccepted, StartCreate,
     StopRecord, SetClearBuffer

LEMMA LifeInvNext == SessionTypeOK /\ LifeInv /\ [Next]_vars => LifeInv'
  <1> SUFFICES ASSUME SessionTypeOK, LifeInv, [Next]_vars PROVE LifeInv'
    OBVIOUS
  <1>1. CASE Ui
    <2>1. UNCHANGED alsaVars
      BY <1>1, UiAlsaStep
    <2>2. \A q \in RecordThreads :
            /\ On(q, "closed")' <=> On(q, "closed")
            /\ On(q, "started") => On(q, "started")'
            /\ Begun(q) => Begun(q)'
      <3>1. CASE UNCHANGED rec
        BY <3>1 DEF Begun, On
      <3>2. ASSUME NEW r \in RecordThreads, On(r, "unborn"), Step(r, "begin")
            PROVE  \A q \in RecordThreads :
                     /\ On(q, "closed")' <=> On(q, "closed")
                     /\ On(q, "started") => On(q, "started")'
                     /\ Begun(q) => Begun(q)'
        BY <3>2, SessionTypeParts, StepOK DEF Begun, On, RecPc
      <3> QED
        BY <1>1, <3>1, <3>2, UiRec
    <2> QED
      BY <2>1, <2>2 DEF alsaVars, globals, flags, LifeInv, SetterInv, CloserInv, AloneInv
  <1>2. ASSUME NEW c \in Captures, CaptureStep(c) PROVE LifeInv'
    <2>1. \A q \in RecordThreads : \A p : On(q, p)' = On(q, p)
      BY <1>2 DEF CaptureStep, sessionVars, On
    <2>2. AlsaTypeOK /\ Capture(c)
      BY <1>2, SessionTypeParts DEF CaptureStep
    <2>3. SetterInv' /\ CloserInv'
      BY <2>1, <2>2, CaptureMoves DEF LifeInv, SetterInv, CloserInv, Setting
    <2>4. AloneInv'
      BY <2>1, <2>2, CaptureMoves DEF LifeInv, AloneInv, Begun
    <2> QED
      BY <2>3, <2>4 DEF LifeInv
  <1>3. CASE UNCHANGED vars
    BY <1>3 DEF vars, alsaVars, globals, flags, sessionVars, LifeInv, SetterInv,
       CloserInv, AloneInv, Begun, On
  <1> QED
    BY <1>1, <1>2, <1>3, RecordLifeInv, InAlsaLifeInv DEF Next

-----------------------------------------------------------------------------
(* ImplementsLife: each step is one of SessionLife's, or none.             *)

\* The phase that PhaseOf reads off a record.
PhaseIn(pc, say) ==
  CASE pc = "unborn" -> "none"
    [] pc = "begin" -> "created"
    [] pc \in {"open", "opened", "size", "start", "started"} -> "starting"
    [] pc \in {"report", "tell"} ->
         CASE say = "error" -> "recording"
           [] say = "stopped" -> "ending"
           [] OTHER -> "starting"
    [] pc = "stopped" -> "ending"
    [] pc = "finish" \/ pc = "exit" -> "over"
    [] OTHER -> "recording"

LEMMA PhaseIs ==
  \A r \in RecordThreads :
    /\ PhaseOf(r) = PhaseIn(rec[r].pc, rec[r].say)
    /\ PhaseOf(r)' = PhaseIn(rec'[r].pc, rec'[r].say)
  BY DEF PhaseOf, PhaseIn, On

LoopPc == {"loop", "check", "read", "process", "alarm", "feed", "engine",
           "engineTell", "fclose", "fnull", "close", "closed"}

LEMMA PhaseTable ==
  ASSUME NEW say \in Reports
  PROVE  /\ PhaseIn("unborn", say) = "none" /\ PhaseIn("begin", say) = "created"
         /\ \A pc \in {"open", "opened", "size", "start", "started"} :
              PhaseIn(pc, say) = "starting"
         /\ \A pc \in {"report", "tell"} :
              /\ say \in {"started", "openFailed", "startFailed"} => PhaseIn(pc, say) = "starting"
              /\ say = "error" => PhaseIn(pc, say) = "recording"
              /\ say = "stopped" => PhaseIn(pc, say) = "ending"
         /\ \A pc \in LoopPc : PhaseIn(pc, say) = "recording"
         /\ PhaseIn("stopped", say) = "ending"
         /\ PhaseIn("finish", say) = "over" /\ PhaseIn("exit", say) = "over"
  <1>1. \A pc \in {"report", "tell"} :
              /\ say \in {"started", "openFailed", "startFailed"} => PhaseIn(pc, say) = "starting"
              /\ say = "error" => PhaseIn(pc, say) = "recording"
              /\ say = "stopped" => PhaseIn(pc, say) = "ending"
    BY DEF PhaseIn
  <1>2. \A pc \in LoopPc : PhaseIn(pc, say) = "recording"
    BY DEF PhaseIn, LoopPc
  <1> QED
    BY <1>1, <1>2 DEF PhaseIn

LifeStep == [Life!LifeNext]_(Life!lifeVars)

\* A step that only moves r on, which may set isRecording_ as r begins and clear
\* it later, and one that makes a report.
LEMMA MovesOn ==
  ASSUME NEW r \in RecordThreads, NEW from, NEW to,
         \A q \in RecordThreads \ {r} : rec'[q] = rec[q],
         rec'[r].told = rec[r].told, CanTell' = CanTell,
         PhaseOf(r) = from, PhaseOf(r)' = to
  PROVE  /\ isRecording' = isRecording => Life!Pass(r, from, to)
         /\ from = "created" /\ to = "starting" /\ isRecording' = TRUE => LifeStep
         /\ from = to /\ isRecording' \in {isRecording, FALSE} => LifeStep
  <1>1. \A q \in RecordThreads \ {r} : PhaseOf(q)' = PhaseOf(q)
    BY PhaseIs
  <1>2. [q \in RecordThreads |-> rec'[q].told] = [q \in RecordThreads |-> rec[q].told]
    OBVIOUS
  <1>3. [q \in RecordThreads |-> PhaseOf(q)'] = [[q \in RecordThreads |-> PhaseOf(q)] EXCEPT ![r] = to]
    BY <1>1
  <1>4. Life!Enter(r, from, to)
    BY <1>3 DEF Life!Enter
  <1>5. ASSUME isRecording' = isRecording PROVE Life!Pass(r, from, to)
    BY <1>2, <1>4, <1>5 DEF Life!Pass
  <1>6. ASSUME from = "created", to = "starting", isRecording' = TRUE PROVE LifeStep
    <2>1. Life!Begin(r)
      BY <1>2, <1>4, <1>6 DEF Life!Begin
    <2> QED
      BY <2>1 DEF LifeStep, Life!LifeNext, Life!Session
  <1>7. ASSUME from = to, isRecording' \in {isRecording, FALSE} PROVE LifeStep
    <2>1. [q \in RecordThreads |-> PhaseOf(q)'] = [q \in RecordThreads |-> PhaseOf(q)]
      BY <1>1, <1>7
    <2>2. CASE isRecording' = isRecording
      BY <1>2, <2>1, <2>2 DEF LifeStep, Life!lifeVars
    <2>3. CASE isRecording' = FALSE
      BY <1>2, <2>1, <2>3 DEF LifeStep, Life!LifeNext, Life!Unask
    <2> QED
      BY <1>7, <2>2, <2>3
  <1> QED
    BY <1>5, <1>6, <1>7

LEMMA MakesReport ==
  ASSUME NEW r \in RecordThreads, NEW from, NEW to, NEW what,
         \A q \in RecordThreads \ {r} : rec'[q] = rec[q],
         rec'[r].told = IF CanTell THEN rec[r].told \union {what} ELSE rec[r].told,
         CanTell' = CanTell, isRecording' = isRecording,
         PhaseOf(r) = from, PhaseOf(r)' = to
  PROVE  Life!Say(r, what, from, to)
  <1>1. \A q \in RecordThreads \ {r} : PhaseOf(q)' = PhaseOf(q)
    BY PhaseIs
  <1>2. [q \in RecordThreads |-> PhaseOf(q)'] = [[q \in RecordThreads |-> PhaseOf(q)] EXCEPT ![r] = to]
    BY <1>1
  <1>3. CASE CanTell
    <2>1. [q \in RecordThreads |-> rec'[q].told]
            = [[q \in RecordThreads |-> rec[q].told] EXCEPT ![r] = @ \union {what}]
      BY <1>3
    <2> QED
      BY <1>2, <1>3, <2>1 DEF Life!Say, Life!Enter
  <1>4. CASE ~CanTell
    <2>1. [q \in RecordThreads |-> rec'[q].told] = [q \in RecordThreads |-> rec[q].told]
      BY <1>4
    <2> QED
      BY <1>2, <1>4, <2>1 DEF Life!Say, Life!Enter
  <1> QED
    BY <1>3, <1>4

LEMMA StepPhase ==
  ASSUME SessionTypeOK, NEW r \in RecordThreads
  PROVE  /\ rec[r].say \in Reports
         /\ \A pc \in RecPc : Step(r, pc) =>
              /\ rec'[r].told = rec[r].told
              /\ PhaseOf(r)' = PhaseIn(pc, rec[r].say)
         /\ \A what \in Reports : Report(r, what) =>
              /\ rec'[r].told = rec[r].told
              /\ PhaseOf(r)' = PhaseIn("report", what)
  <1>1. RecOK /\ rec[r].say \in Reports
    BY SessionTypeParts DEF RecOK, RecLocals
  <1>2. ASSUME NEW pc \in RecPc, Step(r, pc)
        PROVE  rec'[r].told = rec[r].told /\ PhaseOf(r)' = PhaseIn(pc, rec[r].say)
    <2>1. rec'[r].pc = pc /\ rec'[r].say = rec[r].say
      BY <1>1, <1>2, StepOK
    <2>2. rec'[r].told = rec[r].told
      BY <1>1, <1>2 DEF Step, RecOK, RecLocals
    <2> QED
      BY <2>1, <2>2, PhaseIs
  <1>3. ASSUME NEW what \in Reports, Report(r, what)
        PROVE  rec'[r].told = rec[r].told /\ PhaseOf(r)' = PhaseIn("report", what)
    <2>1. rec'[r].pc = "report" /\ rec'[r].say = what
      BY <1>1, <1>3, ReportOK
    <2>2. rec'[r].told = rec[r].told
      BY <1>1, <1>3 DEF Report, RecOK, RecLocals
    <2> QED
      BY <2>1, <2>2, PhaseIs
  <1> QED
    BY <1>1, <1>2, <1>3

LEMMA FaultLife == ASSUME Fault PROVE LifeStep
  <1>1. rec' = rec /\ CanTell' = CanTell /\ isRecording' = isRecording
    BY DEF Fault, sessionVars, lib, CanTell
  <1>2. \A r \in RecordThreads : PhaseOf(r)' = PhaseOf(r)
    BY <1>1, PhaseIs
  <1> QED
    BY <1>1, <1>2 DEF LifeStep, Life!lifeVars

LEMMA BeginLife ==
  ASSUME SessionTypeOK, NEW r \in RecordThreads, RecBegin(r)
  PROVE  LifeStep
  <1>0. rec[r].say \in Reports /\ Record(r)
    BY SessionTypeParts DEF RecOK, RecLocals, Record
  <1>1. (\A q \in RecordThreads \ {r} : rec'[q] = rec[q]) /\ CanTell' = CanTell
    BY <1>0, RecordAlone DEF CanTell
  <1>2. PhaseOf(r) = "created"
    BY <1>0, PhaseIs, PhaseTable DEF RecBegin, On
  <1>3. rec'[r].told = rec[r].told /\ PhaseOf(r)' = "starting" /\ isRecording' = TRUE
    BY <1>0, StepPhase, PhaseTable DEF RecBegin, RecPc
  <1> QED
    BY <1>1, <1>2, <1>3, MovesOn

\* The steps of a start that do not end it, those of the loop, and the last.
LEMMA SamePhase ==
  ASSUME SessionTypeOK, NEW r \in RecordThreads, Record(r), ~Fault,
         \/ RecOpen(r) \/ RecOpened(r) \/ RecSize(r) \/ RecStart(r)
         \/ RecStarted(r) \/ RecLoop(r) \/ RecCheck(r) \/ RecRead(r) \/ RecProcess(r)
         \/ RecAlarm(r) \/ RecFeed(r) \/ RecEngine(r) \/ RecEngineTell(r)
         \/ RecFclose(r) \/ RecFnull(r) \/ RecClose(r) \/ RecFinish(r)
  PROVE  LifeStep
  <1>1. \A q \in RecordThreads \ {r} : rec'[q] = rec[q]
    BY RecordAlone
  <1>2. CanTell' = CanTell
    BY RecordAlone DEF CanTell
  <1>3. RecOK /\ rec[r].say \in Reports
    BY SessionTypeParts DEF RecOK, RecLocals
  <1>9. isRecording' \in {isRecording, FALSE}
    BY DEF RecOpen, RecOpened, RecSize, RecStart, RecStarted, RecLoop, RecCheck, RecRead,
       RecProcess, RecAlarm, RecFeed, RecEngine, RecEngineTell, RecFclose, RecFnull,
       RecClose, RecFinish
  <1>4. SUFFICES rec'[r].told = rec[r].told /\ PhaseOf(r)' = PhaseOf(r)
    BY <1>1, <1>2, <1>9, MovesOn
  <1>5. CASE \/ RecOpen(r) \/ RecOpened(r) \/ RecSize(r) \/ RecStart(r)
             \/ RecStarted(r)
    <2>0. rec[r].pc \in {"open", "opened", "size", "start", "started"}
      BY <1>5 DEF RecOpen, RecOpened, RecSize, RecStart, RecStarted, On
    <2>1. PhaseOf(r) = "starting"
      BY <1>3, <2>0, PhaseIs, PhaseTable
    <2>2. \/ \E pc \in {"opened", "size", "start", "started"} : Step(r, pc)
          \/ \E what \in {"started", "openFailed", "startFailed"} : Report(r, what)
      BY <1>5 DEF RecOpen, RecOpened, RecSize, RecStart, RecStarted
    <2> QED
      BY <2>1, <2>2, StepPhase, PhaseTable, AfterReportOK DEF RecPc
  <1>6. CASE \/ RecLoop(r) \/ RecCheck(r) \/ RecRead(r) \/ RecAlarm(r) \/ RecFeed(r)
             \/ RecEngine(r) \/ RecEngineTell(r) \/ RecFclose(r) \/ RecFnull(r)
             \/ RecClose(r)
    <2>1. rec[r].pc \in LoopPc
      BY <1>6 DEF RecLoop, RecCheck, RecRead, RecAlarm, RecFeed, RecEngine,
         RecEngineTell, RecFclose, RecFnull, RecClose, On, LoopPc
    <2>2. \E pc \in LoopPc : Step(r, pc)
      BY <1>6 DEF RecLoop, RecCheck, RecRead, RecAlarm, RecFeed, RecEngine,
         RecEngineTell, RecFclose, RecFnull, RecClose, LoopPc
    <2> QED
      BY <1>3, <2>1, <2>2, StepPhase, PhaseIs, PhaseTable DEF RecPc, LoopPc
  <1>7. CASE RecProcess(r)
    <2>1. rec[r].pc \in LoopPc
      BY <1>7 DEF RecProcess, On, LoopPc
    <2>2. rec'[r].pc \in LoopPc /\ rec'[r].say = rec[r].say /\ rec'[r].told = rec[r].told
      <3>1. CASE Step(r, "loop")
        BY <1>3, <3>1 DEF Step, RecOK, RecLocals, LoopPc
      <3>2. CASE \E pc \in {"feed", "alarm"} :
                   rec' = [rec EXCEPT ![r].pc = pc, ![r].first = FALSE]
        BY <1>3, <3>2 DEF RecOK, RecLocals, LoopPc
      <3> QED
        BY <1>7, <3>1, <3>2 DEF RecProcess
    <2> QED
      BY <1>3, <2>1, <2>2, PhaseIs, PhaseTable
  <1>8. CASE RecFinish(r)
    <2>1. PhaseOf(r) = "over"
      BY <1>3, <1>8, PhaseIs, PhaseTable DEF RecFinish, On
    <2> QED
      BY <1>3, <1>8, <2>1, StepPhase, PhaseTable DEF RecFinish, RecPc
  <1> QED
    BY <1>5, <1>6, <1>7, <1>8

\* After PcmClose: that the device failed is reported, unless another session has
\* set the flag meanwhile.
LEMMA ClosedLife ==
  ASSUME SessionTypeOK, LifeInv, NEW r \in RecordThreads, RecClosed(r)
  PROVE  LifeStep
  <1>0. rec[r].say \in Reports /\ Record(r)
    BY SessionTypeParts DEF RecOK, RecLocals, Record
  <1>1. /\ \A q \in RecordThreads \ {r} : rec'[q] = rec[q]
        /\ CanTell' = CanTell /\ isRecording' = isRecording
    BY <1>0, RecordAlone DEF CanTell, RecClosed
  <1>2. PhaseOf(r) = "recording"
    BY <1>0, PhaseIs, PhaseTable DEF RecClosed, On, LoopPc
  <1>3. CASE gRecording
    <2>1. rec'[r].told = rec[r].told /\ PhaseOf(r)' = "ending"
      BY <1>0, <1>3, StepPhase, PhaseTable DEF RecClosed, RecPc
    <2>2. Life!Pass(r, "recording", "ending")
      BY <1>1, <1>2, <2>1, MovesOn
    <2>3. PICK q \in RecordThreads \ {r} : Begun(q)
      BY <1>3 DEF RecClosed, Between, At, LifeInv, AloneInv
    <2>4. rec[q].say \in Reports /\ rec[q].pc \in RecPc \ {"unborn", "begin"}
      BY <2>3, SessionTypeParts DEF RecOK, RecLocals, Begun, On
    <2>5. PhaseOf(q) \notin {"none", "created"}
      BY <2>4, PhaseIs DEF PhaseIn
    <2>6. Life!OtherBegan(r)
      BY <2>3, <2>5 DEF Life!OtherBegan
    <2> QED
      BY <2>2, <2>6 DEF LifeStep, Life!LifeNext, Life!Session
  <1>4. CASE ~gRecording
    <2>1. rec'[r].told = rec[r].told /\ PhaseOf(r)' = "recording"
      BY <1>4, StepPhase, PhaseTable, AfterReportOK DEF RecClosed
    <2> QED
      BY <1>1, <1>2, <2>1, MovesOn
  <1> QED
    BY <1>3, <1>4

LEMMA StoppedLife ==
  ASSUME SessionTypeOK, NEW r \in RecordThreads, RecStopped(r)
  PROVE  LifeStep
  <1>0. rec[r].say \in Reports /\ Record(r)
    BY SessionTypeParts DEF RecOK, RecLocals, Record
  <1>1. /\ \A q \in RecordThreads \ {r} : rec'[q] = rec[q]
        /\ CanTell' = CanTell /\ isRecording' = isRecording
    BY <1>0, RecordAlone DEF CanTell, RecStopped
  <1>2. PhaseOf(r) = "ending"
    BY <1>0, PhaseIs, PhaseTable DEF RecStopped, On
  <1>3. CASE isRecording
    <2>1. rec'[r].told = rec[r].told /\ PhaseOf(r)' = "over"
      BY <1>0, <1>3, StepPhase, PhaseTable DEF RecStopped, RecPc
    <2>2. Life!Pass(r, "ending", "over")
      BY <1>1, <1>2, <2>1, MovesOn
    <2> QED
      BY <1>3, <2>2 DEF LifeStep, Life!LifeNext, Life!Session
  <1>4. CASE ~isRecording
    <2>1. rec'[r].told = rec[r].told /\ PhaseOf(r)' = "ending"
      BY <1>4, StepPhase, PhaseTable, AfterReportOK DEF RecStopped
    <2> QED
      BY <1>1, <1>2, <2>1, MovesOn
  <1> QED
    BY <1>3, <1>4

\* What a session enters by reporting, or not reporting, what it has to say.
After == [started |-> "recording", openFailed |-> "over", startFailed |-> "over",
          error |-> "ending", stopped |-> "over"]

LEMMA SayIsSession ==
  ASSUME NEW r \in RecordThreads, NEW say \in Reports, NEW pc \in {"report", "tell"},
         Life!Say(r, say, PhaseIn(pc, say), After[say])
  PROVE  LifeStep
  <1>1. say \in {"started", "openFailed", "startFailed", "error", "stopped"}
    BY AfterReportOK
  <1>2. CASE say = "started"
    BY <1>2, PhaseTable DEF After, LifeStep, Life!LifeNext, Life!Session
  <1>3. CASE say \in {"openFailed", "startFailed"}
    <2>1. PhaseIn(pc, say) = "starting" /\ After[say] = "over"
      BY <1>3, PhaseTable DEF After
    <2> QED
      BY <1>3, <2>1 DEF LifeStep, Life!LifeNext, Life!Session
  <1>4. CASE say = "error"
    BY <1>4, PhaseTable DEF After, LifeStep, Life!LifeNext, Life!Session
  <1>5. CASE say = "stopped"
    BY <1>5, PhaseTable DEF After, LifeStep, Life!LifeNext, Life!Session
  <1> QED
    BY <1>1, <1>2, <1>3, <1>4, <1>5

LEMMA ReportLife ==
  ASSUME SessionTypeOK, NEW r \in RecordThreads, RecReport(r) \/ RecTell(r), ~Fault
  PROVE  LifeStep
  <1>0. RecOK /\ rec[r].say \in Reports /\ Record(r)
    BY SessionTypeParts DEF RecOK, RecLocals, Record
  <1>1. /\ \A q \in RecordThreads \ {r} : rec'[q] = rec[q]
        /\ CanTell' = CanTell /\ isRecording' = isRecording
    BY <1>0, RecordAlone DEF CanTell, RecReport, RecTell
  <1>2. PICK pc \in {"report", "tell"} : rec[r].pc = pc
    BY DEF RecReport, RecTell, On
  <1>3. PICK say \in Reports : rec[r].say = say
    BY <1>0
  <1>4. PhaseOf(r) = PhaseIn(pc, say)
    BY <1>2, <1>3, PhaseIs
  <1>5. /\ AfterReport[say] \in RecPc
        /\ \A any \in Reports : PhaseIn(AfterReport[say], any) = After[say]
    BY AfterReportOK, PhaseTable DEF AfterReport, After, LoopPc
  <1>6. CASE RecReport(r) /\ callback
    <2>1. rec[r].pc = "report" /\ Step(r, "tell")
      BY <1>6 DEF RecReport, On
    <2>2. PhaseIn("tell", say) = PhaseIn("report", say)
      BY PhaseTable, AfterReportOK
    <2>3. rec'[r].told = rec[r].told /\ PhaseOf(r)' = PhaseOf(r)
      BY <1>2, <1>3, <1>4, <2>1, <2>2, StepPhase DEF RecPc
    <2> QED
      BY <1>1, <2>3, MovesOn
  <1>7. CASE RecReport(r) /\ ~callback
    <2>1. rec'[r].told = rec[r].told /\ PhaseOf(r)' = After[say] /\ ~CanTell
      BY <1>0, <1>3, <1>5, <1>7, StepPhase DEF RecReport, CanTell
    <2>2. Life!Say(r, say, PhaseIn(pc, say), After[say])
      BY <1>1, <1>4, <2>1, MakesReport
    <2> QED
      BY <2>2, SayIsSession
  <1>8. CASE RecTell(r)
    <2>1. /\ rec'[r].pc = AfterReport[say] /\ rec'[r].say = say
          /\ rec'[r].told = rec[r].told \union {say} /\ CanTell
      BY <1>0, <1>3, <1>8 DEF RecTell, RecOK, RecLocals
    <2>2. PhaseOf(r)' = After[say]
      BY <1>5, <2>1, PhaseIs
    <2>3. Life!Say(r, say, PhaseIn(pc, say), After[say])
      BY <1>1, <1>4, <2>1, <2>2, MakesReport
    <2> QED
      BY <2>3, SayIsSession
  <1> QED
    BY <1>6, <1>7, <1>8

LEMMA UiLife == ASSUME SessionTypeOK, SessionTypeOK', Ui PROVE LifeStep
  <1>1. CASE UNCHANGED rec
    <2>1. \A r \in RecordThreads : PhaseOf(r)' = PhaseOf(r)
      BY <1>1, PhaseIs
    <2>2. CASE DestroyFlags \/ StopRecord
      <3>1. isRecording' = FALSE /\ CanTell' = CanTell
        BY <2>2 DEF DestroyFlags, StopRecord, lib, CanTell
      <3> QED
        BY <1>1, <2>1, <3>1 DEF LifeStep, Life!LifeNext, Life!Unask
    <2>3. CASE ~(DestroyFlags \/ StopRecord)
      <3>1. isRecording' = isRecording
        BY <2>3 DEF Ui, InitCallback, InitCae, InitListener, DestroyCallback, DestroyCae,
           DestroyListener, StartAccepted, StartCreate, SetClearBuffer
      <3>2. CanTell' \in BOOLEAN
        BY DEF CanTell
      <3> QED
        BY <1>1, <2>1, <3>1, <3>2 DEF LifeStep, Life!LifeNext, Life!Listen
    <2> QED
      BY <2>2, <2>3
  <1>2. ASSUME NEW r \in RecordThreads, StartCreate, On(r, "unborn"), Step(r, "begin")
        PROVE  LifeStep
    <2>1. \A q \in RecordThreads \ {r} : rec'[q] = rec[q]
      BY <1>2, SessionTypeParts, StepOK DEF RecPc
    <2>2. CanTell' = CanTell /\ isRecording' = isRecording
      BY <1>2 DEF StartCreate, lib, CanTell
    <2>3. rec[r].say \in Reports /\ rec'[r].told = rec[r].told /\ PhaseOf(r)' = "created"
      BY <1>2, StepPhase, PhaseTable DEF RecPc
    <2>4. PhaseOf(r) = "none"
      BY <1>2, <2>3, PhaseIs, PhaseTable DEF On
    <2>5. Life!Pass(r, "none", "created")
      BY <2>1, <2>2, <2>3, <2>4, MovesOn
    <2> QED
      BY <2>5 DEF LifeStep, Life!LifeNext, Life!Session
  <1> QED
    BY <1>1, <1>2, UiRec

LEMMA NextLife == SessionTypeOK /\ SessionTypeOK' /\ LifeInv /\ [Next]_vars => LifeStep
  <1> SUFFICES ASSUME SessionTypeOK, SessionTypeOK', LifeInv, [Next]_vars PROVE LifeStep
    OBVIOUS
  <1>1. ASSUME NEW r \in RecordThreads, Record(r) PROVE LifeStep
    BY <1>1, FaultLife, BeginLife, SamePhase, ClosedLife, StoppedLife, ReportLife DEF Record
  <1>2. CASE UNCHANGED sessionVars
    <2>1. rec' = rec /\ CanTell' = CanTell /\ isRecording' = isRecording
      BY <1>2 DEF sessionVars, lib, CanTell
    <2>2. \A r \in RecordThreads : PhaseOf(r)' = PhaseOf(r)
      BY <2>1, PhaseIs
    <2> QED
      BY <2>1, <2>2 DEF LifeStep, Life!lifeVars
  <1> QED
    BY <1>1, <1>2, UiLife DEF Next, InAlsa, CaptureStep, vars

LEMMA InitLife == Init => Life!LifeInit
  <1> SUFFICES ASSUME Init PROVE Life!LifeInit
    OBVIOUS
  <1>1. \A r \in RecordThreads : rec[r].pc = "unborn" /\ rec[r].say = "started" /\ rec[r].told = {}
    BY DEF Init
  <1>2. \A r \in RecordThreads : PhaseOf(r) = "none"
    BY <1>1, PhaseIs, PhaseTable, AfterReportOK
  <1>3. CanTell = FALSE /\ isRecording = FALSE
    BY DEF Init, CanTell
  <1> QED
    BY <1>1, <1>2, <1>3 DEF Life!LifeInit

\* What SessionLife says of the reports of a session holds of the code, for any
\* application, any number of sessions and whatever fails: their order, that none
\* is made to nobody, and that while there is a listener each is made, but for the
\* failure of a session that is not the only one to have begun and the stop of one
\* that ends while recording is asked for (Recorder.cpp:289-394).
THEOREM SessionsKeepTheirPromise == Spec => ImplementsLife
  <1>1. Init => SessionTypeOK /\ LifeInv /\ Life!LifeInit
    <2>1. Init => LifeInv
      BY DEF Init, AlsaInit, RecordThreads, Threads, LifeInv, SetterInv, CloserInv,
         AloneInv, On, Setting
    <2> QED
      BY <2>1, SessionInitTypeOK, InitLife
  <1>2. (SessionTypeOK /\ LifeInv) /\ [Next]_vars => (SessionTypeOK /\ LifeInv)'
    BY SessionNextTypeOK, LifeInvNext
  <1>3. (SessionTypeOK /\ LifeInv) /\ (SessionTypeOK /\ LifeInv)' /\ [Next]_vars
          => [Life!LifeNext]_(Life!lifeVars)
    BY NextLife DEF LifeStep
  <1> QED
    BY <1>1, <1>2, <1>3, PTL DEF Spec, ImplementsLife, Life!LifeSpec


-----------------------------------------------------------------------------
(* EndTold.                                                                *)

\* A start is refused a thread until no other runs, and the listener is there
\* as long as one does.
RestInv ==
  /\ ui \in {"create", "destroyCallback", "destroyCae", "destroyListener"} =>
       \A r \in RecordThreads : ~Running(r)
  /\ \A r, q \in RecordThreads : Running(r) /\ Running(q) => r = q

\* What a session has told, by the place of its thread.
Ended == {{"started", "error"}, {"started", "stopped"}, {"started", "error", "stopped"}}
StartingPc == {"unborn", "begin", "open", "opened", "size", "start", "started"}
ClosingPc == {"fclose", "fnull", "close", "closed"}

ToldRight(pc, say, told) ==
  /\ pc \in StartingPc => told = {}
  /\ pc \in {"report", "tell"} =>
       /\ say \in {"started", "openFailed", "startFailed"} => told = {}
       /\ say = "error" => told = {"started"}
       /\ say = "stopped" => told \in {{"started"}, {"started", "error"}}
  /\ pc \in LoopPc => told = {"started"}
  /\ pc = "stopped" => told \in {{"started"}, {"started", "error"}}
  /\ pc = "finish" => told \in Ended
  /\ pc = "exit" => told \in Ended \union {{"openFailed"}, {"startFailed"}}

\* Why a session that was started has something to tell at its end: it left
\* its loop because isRecording_ or g_is_recording was cleared, which stays so,
\* and if the latter is found set it was the former.
EndHasCause(r) ==
  /\ rec[r].pc \in ClosingPc => ~isRecording \/ ~gRecording
  /\ rec[r].pc = "stopped" /\ rec[r].told = {"started"} => ~isRecording

ToldInv ==
  \A r \in RecordThreads :
    ToldRight(rec[r].pc, rec[r].say, rec[r].told) /\ EndHasCause(r)

LEMMA StepSays ==
  ASSUME RecOK, NEW r \in RecordThreads
  PROVE  /\ \A pc : Step(r, pc) =>
              rec'[r].pc = pc /\ rec'[r].say = rec[r].say /\ rec'[r].told = rec[r].told
         /\ \A what : Report(r, what) =>
              rec'[r].pc = "report" /\ rec'[r].say = what /\ rec'[r].told = rec[r].told
  BY DEF RecOK, RecLocals, Step, Report

LEMMA RestInvNext ==
  ASSUME SessionTypeOK, {"destroy", "start"} \subseteq Waits, RestInv, [Next]_vars
  PROVE  RestInv'
  <1>1. ASSUME NEW r \in RecordThreads, Record(r) PROVE RestInv'
    <2>1. \A q \in RecordThreads : Running(q)' => Running(q)
      BY <1>1, RecordAlone DEF Running
    <2> QED
      BY <1>1, <2>1, RecordAlone DEF RestInv
  <1>2. CASE UNCHANGED sessionVars
    BY <1>2 DEF sessionVars, RestInv, Running
  <1>3. CASE StartCreate
    <2>1. \A q \in RecordThreads : ~Running(q)
      BY <1>3 DEF StartCreate, UiAt, RestInv
    <2>2. CASE UNCHANGED rec
      BY <1>3, <2>1, <2>2 DEF StartCreate, RestInv, Running
    <2>3. ASSUME NEW r \in RecordThreads, Step(r, "begin") PROVE RestInv'
      <3>1. \A q \in RecordThreads \ {r} : ~Running(q)'
        BY <2>1, <2>3, SessionTypeParts, StepOK DEF Running, RecPc
      <3> QED
        BY <1>3, <3>1 DEF StartCreate, RestInv
    <2> QED
      BY <1>3, <2>2, <2>3, UiRec DEF Ui
  <1>4. CASE Ui /\ ~StartCreate
    <2>1. \A q \in RecordThreads : Running(q)' = Running(q)
      BY <1>4, UiRec DEF Running
    <2>2. ui' \in {"create", "destroyCallback", "destroyCae", "destroyListener"} =>
            \/ AtRest
            \/ ui \in {"create", "destroyCallback", "destroyCae", "destroyListener"}
      BY <1>4 DEF Ui, InitCallback, InitCae, InitListener, DestroyFlags,
         DestroyCallback, DestroyCae, DestroyListener, StartAccepted, StopRecord,
         SetClearBuffer, UiAt
    <2> QED
      BY <2>1, <2>2 DEF RestInv, AtRest
  <1> QED
    BY <1>1, <1>2, <1>3, <1>4 DEF Next, InAlsa, CaptureStep, vars

\* A session's own step, while it has a listener.
LEMMA RecordTold ==
  ASSUME SessionTypeOK, NEW r \in RecordThreads, Record(r), CanTell,
         ToldRight(rec[r].pc, rec[r].say, rec[r].told), EndHasCause(r)
  PROVE  ToldRight(rec[r].pc, rec[r].say, rec[r].told)' /\ EndHasCause(r)'
  <1>0. RecOK
    BY SessionTypeParts
  <1>1. CASE RecBegin(r) \/ RecOpen(r) \/ RecSize(r) \/ RecStart(r)
    <2>1. rec[r].pc \in StartingPc
      BY <1>1 DEF RecBegin, RecOpen, RecSize, RecStart, On, StartingPc
    <2>2. \E pc \in StartingPc : Step(r, pc)
      BY <1>1 DEF RecBegin, RecOpen, RecSize, RecStart, StartingPc
    <2> QED
      BY <1>0, <2>1, <2>2, StepSays DEF ToldRight, EndHasCause, StartingPc, LoopPc, ClosingPc
  <1>2. CASE RecOpened(r) \/ RecStarted(r)
    <2>1. rec[r].told = {}
      BY <1>2 DEF RecOpened, RecStarted, On, StartingPc, ToldRight
    <2>2. \/ Step(r, "size")
          \/ \E what \in {"started", "openFailed", "startFailed"} : Report(r, what)
      BY <1>2 DEF RecOpened, RecStarted
    <2> QED
      BY <1>0, <2>1, <2>2, StepSays DEF ToldRight, EndHasCause, StartingPc, LoopPc, ClosingPc
  <1>3. CASE \/ RecLoop(r) \/ RecCheck(r) \/ RecRead(r) \/ RecAlarm(r) \/ RecFeed(r)
             \/ RecEngine(r) \/ RecEngineTell(r) \/ RecFclose(r) \/ RecFnull(r)
             \/ RecClose(r) \/ RecProcess(r)
    <2>1. rec[r].told = {"started"} /\ rec[r].pc \in LoopPc
      BY <1>3 DEF RecLoop, RecCheck, RecRead, RecProcess, RecAlarm, RecFeed, RecEngine,
         RecEngineTell, RecFclose, RecFnull, RecClose, On, LoopPc, ToldRight
    <2>2. \/ UNCHANGED rec
          \/ \E pc \in LoopPc : Step(r, pc)
          \/ \E pc \in {"feed", "alarm"} : rec' = [rec EXCEPT ![r].pc = pc, ![r].first = FALSE]
      BY <1>3 DEF RecLoop, RecCheck, RecRead, RecProcess, RecAlarm, RecFeed, RecEngine,
         RecEngineTell, RecFclose, RecFnull, RecClose, LoopPc, Fault, sessionVars
    <2>3. rec'[r].told = {"started"} /\ rec'[r].pc \in LoopPc
      <3>1. CASE UNCHANGED rec
        BY <2>1, <3>1
      <3>2. CASE \E pc \in LoopPc : Step(r, pc)
        BY <1>0, <2>1, <3>2, StepSays
      <3>3. CASE \E pc \in {"feed", "alarm"} :
                   rec' = [rec EXCEPT ![r].pc = pc, ![r].first = FALSE]
        BY <1>0, <2>1, <3>3 DEF RecOK, RecLocals, LoopPc
      <3> QED
        BY <2>2, <3>1, <3>2, <3>3
    <2>4. UNCHANGED isRecording /\ UNCHANGED gRecording
      BY <1>3 DEF RecLoop, RecCheck, RecRead, RecProcess, RecAlarm, RecFeed, RecEngine,
         RecEngineTell, RecFclose, RecFnull, RecClose, Fault, sessionVars, Between, Call,
         alsaVars, globals, flags
    <2>5. rec'[r].pc \in ClosingPc => ~isRecording \/ ~gRecording
      <3>1. CASE rec[r].pc \in ClosingPc
        BY <3>1 DEF EndHasCause
      <3>2. CASE RecLoop(r)
        <4>1. isRecording => Step(r, "check")
          BY <3>2 DEF RecLoop
        <4> QED
          BY <1>0, <4>1, StepSays DEF ClosingPc, EndHasCause
      <3>3. CASE RecCheck(r)
        <4>1. gRecording => Step(r, "read")
          BY <3>3 DEF RecCheck
        <4> QED
          BY <1>0, <4>1, StepSays DEF ClosingPc, EndHasCause
      <3>4. CASE RecRead(r) \/ RecAlarm(r) \/ RecFeed(r) \/ RecEngine(r) \/ RecEngineTell(r)
                 \/ RecProcess(r)
        <4>1. rec[r].pc \in {"read", "alarm", "feed", "engine", "engineTell", "process"}
          BY <3>4 DEF RecRead, RecAlarm, RecFeed, RecEngine, RecEngineTell, RecProcess, On
        <4>2. \/ UNCHANGED rec
              \/ \E pc \in LoopPc \ ClosingPc : Step(r, pc)
              \/ \E pc \in {"feed", "alarm"} :
                   rec' = [rec EXCEPT ![r].pc = pc, ![r].first = FALSE]
          BY <3>4 DEF RecRead, RecProcess, RecAlarm, RecFeed, RecEngine, RecEngineTell,
             LoopPc, ClosingPc, Fault, sessionVars
        <4>3. CASE UNCHANGED rec
          BY <4>1, <4>3 DEF ClosingPc
        <4>4. CASE \E pc \in LoopPc \ ClosingPc : Step(r, pc)
          BY <1>0, <4>4, StepSays
        <4>5. CASE \E pc \in {"feed", "alarm"} :
                     rec' = [rec EXCEPT ![r].pc = pc, ![r].first = FALSE]
          BY <1>0, <4>5 DEF RecOK, RecLocals, ClosingPc
        <4> QED
          BY <4>2, <4>3, <4>4, <4>5
      <3>5. CASE RecFclose(r) \/ RecFnull(r) \/ RecClose(r)
        BY <3>1, <3>5 DEF RecFclose, RecFnull, RecClose, On, ClosingPc
      <3> QED
        BY <1>3, <3>2, <3>3, <3>4, <3>5
    <2> QED
      BY <2>3, <2>4, <2>5 DEF ToldRight, EndHasCause, StartingPc, LoopPc
  <1>4. CASE RecClosed(r)
    <2>1. rec[r].told = {"started"} /\ (~isRecording \/ ~gRecording)
      BY <1>4 DEF RecClosed, On, LoopPc, ClosingPc, ToldRight, EndHasCause
    <2>2. UNCHANGED <<isRecording, gRecording>>
      BY <1>4 DEF RecClosed, Between, alsaVars, globals, flags
    <2>3. (gRecording /\ Step(r, "stopped")) \/ Report(r, "error")
      BY <1>4 DEF RecClosed
    <2> QED
      BY <1>0, <2>1, <2>2, <2>3, StepSays
         DEF ToldRight, EndHasCause, StartingPc, LoopPc, ClosingPc
  <1>5. CASE RecStopped(r)
    <2>1. /\ rec[r].told \in {{"started"}, {"started", "error"}}
          /\ rec[r].told = {"started"} => ~isRecording
      BY <1>5 DEF RecStopped, On, ToldRight, EndHasCause
    <2>2. (isRecording /\ Step(r, "finish")) \/ Report(r, "stopped")
      BY <1>5 DEF RecStopped
    <2> QED
      BY <1>0, <2>1, <2>2, StepSays
         DEF ToldRight, EndHasCause, StartingPc, LoopPc, ClosingPc, Ended
  <1>6. CASE RecFinish(r)
    <2>1. rec[r].told \in Ended /\ Step(r, "exit")
      BY <1>6 DEF RecFinish, On, ToldRight
    <2> QED
      BY <1>0, <2>1, StepSays DEF ToldRight, EndHasCause, StartingPc, LoopPc, ClosingPc
  <1>7. CASE RecReport(r)
    <2>1. Step(r, "tell") /\ rec[r].pc = "report"
      BY <1>7 DEF RecReport, CanTell, On
    <2> QED
      BY <1>0, <2>1, StepSays DEF ToldRight, EndHasCause, StartingPc, LoopPc, ClosingPc
  <1>8. CASE RecTell(r)
    <2>1. rec[r].pc = "tell" /\ rec[r].say \in Reports
      BY <1>0, <1>8 DEF RecTell, On, RecOK, RecLocals
    <2>2. /\ rec'[r].pc = AfterReport[rec[r].say]
          /\ rec'[r].told = rec[r].told \union {rec[r].say}
      BY <1>0, <1>8 DEF RecTell, RecOK, RecLocals
    <2>3. CASE rec[r].say = "started"
      <3>1. rec'[r].pc = "loop" /\ rec'[r].told = {"started"}
        BY <2>1, <2>2, <2>3, AfterReportOK DEF ToldRight
      <3> QED
        BY <3>1 DEF ToldRight, EndHasCause, StartingPc, LoopPc, ClosingPc
    <2>4. CASE rec[r].say = "openFailed"
      <3>1. rec'[r].pc = "exit" /\ rec'[r].told = {"openFailed"}
        BY <2>1, <2>2, <2>4 DEF ToldRight, AfterReport
      <3> QED
        BY <3>1 DEF ToldRight, EndHasCause, StartingPc, LoopPc, ClosingPc
    <2>5. CASE rec[r].say = "startFailed"
      <3>1. rec'[r].pc = "exit" /\ rec'[r].told = {"startFailed"}
        BY <2>1, <2>2, <2>5 DEF ToldRight, AfterReport
      <3> QED
        BY <3>1 DEF ToldRight, EndHasCause, StartingPc, LoopPc, ClosingPc
    <2>6. CASE rec[r].say = "error"
      <3>1. rec'[r].pc = "stopped" /\ rec'[r].told = {"started", "error"}
        BY <2>1, <2>2, <2>6, AfterReportOK DEF ToldRight
      <3> QED
        BY <3>1 DEF ToldRight, EndHasCause, StartingPc, LoopPc, ClosingPc
    <2>7. CASE rec[r].say = "stopped"
      <3>1. rec'[r].pc = "finish" /\ rec'[r].told \in Ended
        BY <2>1, <2>2, <2>7, AfterReportOK DEF ToldRight, Ended
      <3> QED
        BY <3>1 DEF ToldRight, EndHasCause, StartingPc, LoopPc, ClosingPc
    <2> QED
      BY <2>1, <2>3, <2>4, <2>5, <2>6, <2>7, AfterReportOK
  <1> QED
    BY <1>1, <1>2, <1>3, <1>4, <1>5, <1>6, <1>7, <1>8 DEF Record

\* Steps inside alsa_recorder.cpp and those of the application give a session
\* no reason to end silently.
LEMMA OthersTold ==
  ASSUME SessionTypeOK, LifeInv, RestInv, ToldInv, NEW r \in RecordThreads,
         rec'[r] = rec[r], isRecording' => isRecording,
         gRecording' => gRecording \/ \E q \in RecordThreads : th[q].pc = "startSet"
  PROVE  ToldRight(rec[r].pc, rec[r].say, rec[r].told)' /\ EndHasCause(r)'
  <1>1. ToldRight(rec[r].pc, rec[r].say, rec[r].told) /\ EndHasCause(r)
    BY DEF ToldInv
  <1>2. ToldRight(rec[r].pc, rec[r].say, rec[r].told)'
    BY <1>1 DEF ToldRight
  <1>3. rec[r].pc \in ClosingPc => \A q \in RecordThreads : th[q].pc # "startSet"
    <2> SUFFICES ASSUME rec[r].pc \in ClosingPc,
                        NEW q \in RecordThreads, th[q].pc = "startSet"
                 PROVE  FALSE
      OBVIOUS
    <2>1. On(q, "started")
      BY DEF LifeInv, SetterInv, Setting
    <2>2. Running(q) /\ Running(r) /\ q # r
      BY <2>1 DEF On, Running, ClosingPc
    <2> QED
      BY <2>2 DEF RestInv
  <1> QED
    BY <1>1, <1>2, <1>3 DEF EndHasCause

LEMMA ToldInvNext ==
  ASSUME SessionTypeOK, EngineInv, LifeInv, RestInv, ToldInv, [Next]_vars
  PROVE  ToldInv'
  <1> SUFFICES ASSUME NEW r \in RecordThreads
               PROVE  ToldRight(rec[r].pc, rec[r].say, rec[r].told)' /\ EndHasCause(r)'
    BY DEF ToldInv
  <1>0. RecOK /\ AlsaTypeOK
    BY SessionTypeParts
  <1>1. CASE Ui
    <2>1. UNCHANGED gRecording /\ (isRecording' => isRecording)
      <3>1. UNCHANGED alsaVars
        BY <1>1, UiAlsaStep
      <3>2. isRecording' => isRecording
        BY <1>1 DEF Ui, InitCallback, InitCae, InitListener, DestroyFlags,
           DestroyCallback, DestroyCae, DestroyListener, StartAccepted, StartCreate,
           StopRecord, SetClearBuffer
      <3> QED
        BY <3>1, <3>2 DEF alsaVars, globals, flags
    <2>2. CASE rec'[r] = rec[r]
      BY <2>1, <2>2, OthersTold
    <2>3. CASE rec'[r] # rec[r]
      <3>1. PICK q \in RecordThreads : On(q, "unborn") /\ Step(q, "begin")
        BY <1>1, <2>3, UiRec
      <3>2. q = r
        BY <1>0, <2>3, <3>1, StepOK DEF RecPc
      <3>3. rec'[r].pc = "begin" /\ rec'[r].told = {}
        <4>1. rec[r].told = {}
          BY <3>1, <3>2 DEF ToldInv, ToldRight, On, StartingPc
        <4> QED
          BY <1>0, <3>1, <3>2, <4>1, StepSays
      <3> QED
        BY <3>3 DEF ToldRight, EndHasCause, StartingPc, LoopPc, ClosingPc
    <2> QED
      BY <2>2, <2>3
  <1>2. ASSUME NEW q \in RecordThreads, Record(q)
        PROVE  ToldRight(rec[r].pc, rec[r].say, rec[r].told)' /\ EndHasCause(r)'
    <2>1. Running(q)
      BY <1>2, RecordAlone
    <2>2. CASE q = r
      <3>1. CanTell
        BY <2>1 DEF EngineInv, InitMeans, InitHeld, CanTell
      <3> QED
        BY <1>2, <2>2, <3>1, RecordTold DEF ToldInv
    <2>3. CASE q # r
      <3>1. rec'[r] = rec[r] /\ ~Running(r)
        BY <1>2, <2>1, <2>3, RecordAlone DEF RestInv
      <3>2. ToldRight(rec[r].pc, rec[r].say, rec[r].told)'
        BY <3>1 DEF ToldInv, ToldRight
      <3>3. EndHasCause(r)'
        BY <3>1 DEF Running, EndHasCause, ClosingPc
      <3> QED
        BY <3>2, <3>3
    <2> QED
      BY <2>2, <2>3
  <1>3. ASSUME NEW q \in RecordThreads, InAlsa(q)
        PROVE  ToldRight(rec[r].pc, rec[r].say, rec[r].told)' /\ EndHasCause(r)'
    <2>1. rec' = rec /\ isRecording' = isRecording
      BY <1>3 DEF InAlsa, sessionVars
    <2>2. gRecording' => gRecording \/ th[q].pc = "startSet"
      <3>1. CASE Close(q)
        BY <1>0, <3>1, CloseMoves DEF RecordThreads, Threads
      <3>2. CASE Inner(q)
        BY <1>0, <3>2, InnerMoves
      <3> QED
        BY <1>3, <3>1, <3>2 DEF InAlsa, Inner
    <2> QED
      BY <2>1, <2>2, OthersTold
  <1>4. ASSUME NEW c \in Captures, CaptureStep(c)
        PROVE  ToldRight(rec[r].pc, rec[r].say, rec[r].told)' /\ EndHasCause(r)'
    <2>1. rec' = rec /\ isRecording' = isRecording
      BY <1>4 DEF CaptureStep, sessionVars
    <2>2. gRecording' => gRecording
      BY <1>0, <1>4, CaptureMoves DEF CaptureStep
    <2> QED
      BY <2>1, <2>2, OthersTold
  <1>5. CASE UNCHANGED vars
    <2>1. rec' = rec /\ isRecording' = isRecording /\ gRecording' = gRecording
      BY <1>5 DEF vars, sessionVars, alsaVars, globals, flags
    <2> QED
      BY <2>1, OthersTold
  <1> QED
    BY <1>1, <1>2, <1>3, <1>4, <1>5 DEF Next

LEMMA ToldInvEnds == ToldInv => EndTold
  <1> SUFFICES ASSUME ToldInv, NEW r \in RecordThreads, On(r, "exit")
               PROVE  LET told == rec[r].told
                      IN  /\ Cardinality(told \intersect
                                         {"started", "openFailed", "startFailed"}) = 1
                          /\ "started" \in told <=> told \intersect {"error", "stopped"} # {}
    BY DEF EndTold
  <1>1. rec[r].told \in Ended \union {{"openFailed"}, {"startFailed"}}
    BY DEF ToldInv, ToldRight, On
  <1>2. \A what : Cardinality({what}) = 1
    BY FS_Singleton
  <1>3. CASE rec[r].told \in Ended
    <2>1. rec[r].told \intersect {"started", "openFailed", "startFailed"} = {"started"}
      BY <1>3 DEF Ended
    <2>2. "started" \in rec[r].told /\ rec[r].told \intersect {"error", "stopped"} # {}
      BY <1>3 DEF Ended
    <2> QED
      BY <1>2, <2>1, <2>2
  <1>4. ASSUME NEW why \in {"openFailed", "startFailed"}, rec[r].told = {why}
        PROVE  /\ rec[r].told \intersect {"started", "openFailed", "startFailed"} = {why}
               /\ "started" \notin rec[r].told
               /\ rec[r].told \intersect {"error", "stopped"} = {}
    BY <1>4
  <1> QED
    BY <1>1, <1>2, <1>3, <1>4

LEMMA ToldInvInit == Init => SessionTypeOK /\ EngineInv /\ LifeInv /\ RestInv /\ ToldInv
  <1> SUFFICES ASSUME Init
               PROVE  SessionTypeOK /\ EngineInv /\ LifeInv /\ RestInv /\ ToldInv
    OBVIOUS
  <1>1. SessionTypeOK /\ EngineInv
    BY SessionInitTypeOK DEF Init, EngineInv, InitMeans, InitHeld, Running
  <1>2. \A r \in RecordThreads : rec[r].pc = "unborn" /\ rec[r].told = {}
    BY DEF Init
  <1>3. \A r \in RecordThreads : th[r].pc = "idle"
    BY DEF Init, AlsaInit, RecordThreads, Threads
  <1>4. LifeInv
    BY <1>2, <1>3 DEF LifeInv, SetterInv, CloserInv, AloneInv, Setting, On
  <1>5. RestInv
    BY <1>2 DEF RestInv, Running
  <1>6. ToldInv
    BY <1>2 DEF ToldInv, ToldRight, EndHasCause, StartingPc, LoopPc, ClosingPc
  <1> QED
    BY <1>1, <1>4, <1>5, <1>6

\* To an application that calls startRecord and destroy only when no earlier
\* session's threads are left, each session that ends has told how it started,
\* once, and that it ended if it did start, whatever failed and wherever stops
\* came: for any number of sessions, and calls of init and stopRecord at any time
\* (Recorder.cpp:289-394).
THEOREM NothingEndsSilently ==
  ASSUME {"destroy", "start"} \subseteq Waits
  PROVE  Spec => []EndTold
  <1> DEFINE Inv == SessionTypeOK /\ EngineInv /\ LifeInv /\ RestInv /\ ToldInv
  <1>1. Inv /\ [Next]_vars => Inv'
    <2>1. "destroy" \in Waits
      OBVIOUS
    <2> QED
      BY <2>1, SessionNextTypeOK, EngineInvNext, LifeInvNext, RestInvNext, ToldInvNext
  <1>2. Inv => EndTold
    BY ToldInvEnds
  <1> QED
    BY <1>1, <1>2, ToldInvInit, PTL DEF Spec
=============================================================================

-------------------------- MODULE RecordSessionProofs --------------------------
(***************************************************************************)
(* What TLAPS proves about RecordSession for any number of record threads, *)
(* capture threads, handles, blocks and files, for an application that     *)
(* waits or does not, and whatever may fail.                               *)
(*                                                                         *)
(* To AlsaRecorder a session is one more user: each of its steps is one of *)
(* AlsaRecorder's, leaves it alone, or ends the process.  So the results   *)
(* about AlsaRecorder carry over.                                          *)
(***************************************************************************)
EXTENDS RecordSession, AlsaRecorderProofs

-----------------------------------------------------------------------------
(* The steps of a session as steps of AlsaRecorder.                        *)

AlsaStep ==
  \/ [AlsaNext]_alsaVars
  \/ Crash /\ UNCHANGED <<device, memory, gRecording, gMutex>>

LEMMA UiAlsaStep == Ui => UNCHANGED alsaVars
  BY DEF Ui, InitCallback, InitCae, InitListener, DestroyFlags, DestroyCallback,
     DestroyCae, DestroyListener, StartAccepted, StartCreate, StopRecord,
     SetClearBuffer

LEMMA CallAlsaStep ==
  ASSUME NEW r \in RecordThreads,
         \/ SizeCheck(r)
         \/ \E pc \in {"open", "startPcm", "read", "close"}, arg \in BOOLEAN :
              Call(r, pc, arg)
  PROVE  AlsaStep
  BY DEF RecordThreads, AlsaStep, AlsaNext, User

LEMMA RecordAlsaStep ==
  ASSUME SessionTypeOK, NEW r \in RecordThreads, Record(r)
  PROVE  AlsaStep
  <1>1. CASE \/ RecBegin(r) \/ RecOpened(r) \/ RecStarted(r) \/ RecLoop(r) \/ RecCheck(r)
             \/ RecEngine(r) \/ RecFnull(r) \/ RecClosed(r) \/ RecStopped(r)
             \/ RecFinish(r) \/ RecReport(r)
    <2>1. UNCHANGED alsaVars
      BY <1>1 DEF RecBegin, RecOpened, RecStarted, RecLoop, RecCheck, RecEngine,
         RecFnull, RecClosed, RecStopped, RecFinish, RecReport, Between
    <2> QED
      BY <2>1 DEF AlsaStep
  <1>2. CASE \/ RecProcess(r) \/ RecAlarm(r) \/ RecFeed(r) \/ RecEngineTell(r)
             \/ RecFclose(r) \/ RecTell(r)
    <2>1. UNCHANGED alsaVars \/ Fault
      BY <1>2 DEF RecProcess, RecAlarm, RecFeed, RecEngineTell, RecFclose, RecTell
    <2> QED
      BY <2>1 DEF AlsaStep, Fault
  <1>3. CASE RecOpen(r) \/ RecSize(r) \/ RecStart(r) \/ RecRead(r) \/ RecClose(r)
    <2>1. th[r].ok \in BOOLEAN /\ clearBuffer \in BOOLEAN
      BY TypeParts DEF SessionTypeOK, ThreadsOK, Locals, RecordThreads, Threads
    <2> QED
      BY <1>3, <2>1, CallAlsaStep DEF RecOpen, RecSize, RecStart, RecRead, RecClose
  <1> QED
    BY <1>1, <1>2, <1>3 DEF Record

LEMMA InAlsaStep ==
  ASSUME NEW r \in RecordThreads, InAlsa(r)
  PROVE  AlsaStep
  BY DEF RecordThreads, InAlsa, AlsaStep, AlsaNext, User

LEMMA SessionAlsaStep == SessionTypeOK /\ [Next]_vars => AlsaStep
  <1> SUFFICES ASSUME SessionTypeOK, [Next]_vars PROVE AlsaStep
    OBVIOUS
  <1>1. CASE Ui
    BY <1>1, UiAlsaStep DEF AlsaStep
  <1>2. ASSUME NEW r \in RecordThreads, Record(r) \/ InAlsa(r) PROVE AlsaStep
    BY <1>2, RecordAlsaStep, InAlsaStep
  <1>3. ASSUME NEW c \in Captures, CaptureStep(c) PROVE AlsaStep
    BY <1>3 DEF CaptureStep, AlsaStep, AlsaNext
  <1>4. CASE UNCHANGED vars
    BY <1>4 DEF vars, AlsaStep
  <1> QED
    BY <1>1, <1>2, <1>3, <1>4 DEF Next

LEMMA AlsaStepTypeOK == AlsaTypeOK /\ AlsaStep => AlsaTypeOK'
  <1>1. ASSUME AlsaTypeOK, Crash, UNCHANGED <<device, memory, gRecording, gMutex>>
        PROVE  AlsaTypeOK'
    <2>1. GlobalsOK /\ ThreadsOK
      BY <1>1, TypeParts
    <2>2. GlobalsOK'
      BY <1>1, <2>1 DEF GlobalsOK, Crash, device, memory
    <2>3. ThreadsOK'
      BY <1>1, <2>1, CrashOK DEF device, memory
    <2> QED
      BY <2>2, <2>3, TypePartsNext
  <1> QED
    BY <1>1, NextTypeOK DEF AlsaStep

LEMMA AlsaStepRelease == ReleaseInv /\ AlsaStep => ReleaseInv'
  <1>1. ASSUME ReleaseInv, Crash, UNCHANGED <<device, memory, gRecording, gMutex>>
        PROVE  ReleaseInv'
    <2>1. AlsaTypeOK'
      BY <1>1, AlsaStepTypeOK DEF AlsaStep, ReleaseInv
    <2> QED
      BY <1>1, <2>1, CrashStep DEF device, memory
  <1> QED
    BY <1>1, ReleaseInvNext DEF AlsaStep

-----------------------------------------------------------------------------
(* SessionTypeOK.                                                          *)

FlagsOK ==
  /\ ui \in UiPc
  /\ {isInit, isRecording, clearBuffer, callback, cae, listener} \subseteq BOOLEAN

FilesOK ==
  /\ fopened \subseteq Files /\ fclosed \subseteq fopened
  /\ file \in fopened \union {None}

RecLocals == [pc: RecPc, first: BOOLEAN, say: Reports, told: SUBSET Reports]
RecOK == rec \in [RecordThreads -> RecLocals]

LEMMA SessionTypeParts ==
  /\ SessionTypeOK <=> AlsaTypeOK /\ FlagsOK /\ FilesOK /\ RecOK
  /\ (AlsaTypeOK /\ FlagsOK /\ FilesOK /\ RecOK)' => SessionTypeOK'
  BY DEF SessionTypeOK, FlagsOK, FilesOK, RecOK, RecLocals

LEMMA StepOK ==
  ASSUME RecOK, NEW r \in RecordThreads, NEW pc \in RecPc, Step(r, pc)
  PROVE  /\ RecOK' /\ rec'[r].pc = pc /\ rec'[r].say = rec[r].say
         /\ \A q \in RecordThreads \ {r} : rec'[q] = rec[q]
  <1>1. rec' = [rec EXCEPT ![r] = [rec[r] EXCEPT !.pc = pc]]
    BY DEF Step
  <1>2. [rec[r] EXCEPT !.pc = pc] \in RecLocals
    BY DEF RecOK, RecLocals
  <1> QED
    BY <1>1, <1>2 DEF RecOK, RecLocals

LEMMA ReportOK ==
  ASSUME RecOK, NEW r \in RecordThreads, NEW what \in Reports, Report(r, what)
  PROVE  /\ RecOK' /\ rec'[r].pc = "report" /\ rec'[r].say = what
         /\ \A q \in RecordThreads \ {r} : rec'[q] = rec[q]
  <1>1. rec' = [rec EXCEPT ![r] = [rec[r] EXCEPT !.pc = "report", !.say = what]]
    BY DEF Report
  <1>2. [rec[r] EXCEPT !.pc = "report", !.say = what] \in RecLocals
    BY DEF RecOK, RecLocals, RecPc
  <1> QED
    BY <1>1, <1>2 DEF RecOK, RecLocals

LEMMA AfterReportOK ==
  /\ Reports = {"started", "openFailed", "startFailed", "error", "stopped"}
  /\ AfterReport["started"] = "loop" /\ AfterReport["error"] = "stopped"
  /\ AfterReport["stopped"] = "finish"
  /\ \A say \in Reports : AfterReport[say] \in RecPc
  BY DEF Reports, AfterReport, RecPc

LEMMA UiSessionOK ==
  ASSUME SessionTypeOK, Ui
  PROVE  FlagsOK' /\ FilesOK' /\ RecOK'
  <1>0. FlagsOK /\ FilesOK /\ RecOK
    BY SessionTypeParts
  <1>1. CASE StartCreate
    <2>1. FlagsOK'
      BY <1>0, <1>1 DEF StartCreate, FlagsOK, UiPc, lib
    <2>2. file' \in fopened' \union {None} /\ fopened \subseteq fopened' /\ fopened' \subseteq Files
      BY <1>0, <1>1, OneOfIsOne DEF StartCreate, FilesOK
    <2>3. FilesOK'
      BY <1>0, <1>1, <2>2 DEF StartCreate, FilesOK
    <2>4. RecOK'
      <3>1. CASE UNCHANGED rec
        BY <1>0, <3>1 DEF RecOK
      <3>2. ASSUME NEW r \in RecordThreads, Step(r, "begin") PROVE RecOK'
        BY <1>0, <3>2, StepOK DEF RecPc
      <3> QED
        BY <1>1, <3>1, <3>2, OneOfIsOne DEF StartCreate
    <2> QED
      BY <2>1, <2>3, <2>4
  <1>2. CASE ~StartCreate
    <2>1. FilesOK' /\ RecOK'
      BY <1>0, <1>2 DEF Ui, InitCallback, InitCae, InitListener, DestroyFlags,
         DestroyCallback, DestroyCae, DestroyListener, StartAccepted, StopRecord,
         SetClearBuffer, FilesOK, RecOK, files
    <2>2. FlagsOK'
      BY <1>0, <1>2 DEF Ui, InitCallback, InitCae, InitListener, DestroyFlags,
         DestroyCallback, DestroyCae, DestroyListener, StartAccepted, StopRecord,
         SetClearBuffer, FlagsOK, UiPc, lib, SessionAssumption
    <2> QED
      BY <2>1, <2>2
  <1> QED
    BY <1>1, <1>2

LEMMA FaultSessionOK ==
  ASSUME SessionTypeOK, Fault
  PROVE  FlagsOK' /\ FilesOK' /\ RecOK' /\ UNCHANGED sessionVars
  <1>0. FlagsOK /\ FilesOK /\ RecOK
    BY SessionTypeParts
  <1> QED
    BY <1>0 DEF Fault, sessionVars, lib, files, FlagsOK, FilesOK, RecOK

\* The steps of a record thread that make a report or go on without one.
Plain(r) ==
  \/ RecBegin(r) \/ RecOpen(r) \/ RecOpened(r) \/ RecSize(r) \/ RecStart(r)
  \/ RecStarted(r) \/ RecLoop(r) \/ RecCheck(r) \/ RecRead(r) \/ RecEngine(r)
  \/ RecFnull(r) \/ RecClose(r) \/ RecClosed(r) \/ RecStopped(r) \/ RecFinish(r)

LEMMA PlainSessionOK ==
  ASSUME SessionTypeOK, NEW r \in RecordThreads, Plain(r)
  PROVE  FlagsOK' /\ FilesOK' /\ RecOK'
  <1>0. FlagsOK /\ FilesOK /\ RecOK
    BY SessionTypeParts
  <1>1. FlagsOK' /\ FilesOK'
    BY <1>0 DEF Plain, RecBegin, RecOpen, RecOpened, RecSize, RecStart, RecStarted,
       RecLoop, RecCheck, RecRead, RecEngine, RecFnull, RecClose, RecClosed,
       RecStopped, RecFinish, Keep, lib, FlagsOK, FilesOK
  <1>2. (\E pc \in RecPc : Step(r, pc)) \/ (\E what \in Reports : Report(r, what))
    BY AfterReportOK DEF Plain, RecBegin, RecOpen, RecOpened, RecSize, RecStart,
       RecStarted, RecLoop, RecCheck, RecRead, RecEngine, RecFnull, RecClose,
       RecClosed, RecStopped, RecFinish, RecPc
  <1>3. RecOK'
    BY <1>0, <1>2, StepOK, ReportOK
  <1> QED
    BY <1>1, <1>3

\* The steps of a record thread at which the process may die.
LEMMA RiskySessionOK ==
  ASSUME SessionTypeOK, NEW r \in RecordThreads,
         \/ RecProcess(r) \/ RecAlarm(r) \/ RecFeed(r) \/ RecEngineTell(r)
         \/ RecFclose(r)
  PROVE  FlagsOK' /\ FilesOK' /\ RecOK'
  <1>0. FlagsOK /\ FilesOK /\ RecOK
    BY SessionTypeParts
  <1>1. CASE Fault
    BY <1>1, FaultSessionOK
  <1>2. CASE RecAlarm(r) \/ RecEngineTell(r) \/ RecFclose(r)
    <2> SUFFICES ASSUME ~Fault PROVE FlagsOK' /\ FilesOK' /\ RecOK'
      BY <1>1
    <2>1. FlagsOK' /\ FilesOK'
      BY <1>0, <1>2 DEF RecAlarm, RecEngineTell, RecFclose, Keep, lib, FlagsOK, FilesOK
    <2>2. \E pc \in RecPc : Step(r, pc)
      BY <1>2 DEF RecAlarm, RecEngineTell, RecFclose, RecPc
    <2> QED
      BY <1>0, <2>1, <2>2, StepOK
  <1>3. ASSUME RecProcess(r), ~Fault PROVE FlagsOK' /\ FilesOK' /\ RecOK'
    <2>1. FlagsOK' /\ FilesOK'
      BY <1>0, <1>3 DEF RecProcess, Keep, lib, FlagsOK, FilesOK
    <2>2. CASE Step(r, "loop")
      BY <1>0, <2>1, <2>2, StepOK DEF RecPc
    <2>3. CASE \E pc \in {"feed", "alarm"} :
                 rec' = [rec EXCEPT ![r].pc = pc, ![r].first = FALSE]
      <3>1. PICK pc \in {"feed", "alarm"} :
              rec' = [rec EXCEPT ![r] = [rec[r] EXCEPT !.pc = pc, !.first = FALSE]]
        BY <1>0, <2>3 DEF RecOK
      <3>2. [rec[r] EXCEPT !.pc = pc, !.first = FALSE] \in RecLocals
        BY <1>0 DEF RecOK, RecLocals, RecPc
      <3>3. RecOK'
        BY <1>0, <3>1, <3>2 DEF RecOK
      <3> QED
        BY <2>1, <3>3
    <2> QED
      BY <1>3, <2>2, <2>3 DEF RecProcess
  <1>4. ASSUME RecFeed(r), ~Fault PROVE FlagsOK' /\ FilesOK' /\ RecOK'
    <2>1. FlagsOK'
      BY <1>0, <1>4 DEF RecFeed, lib, FlagsOK
    <2>2. FilesOK'
      BY <1>0, <1>4, OneOfIsOne DEF RecFeed, FilesOK
    <2>3. \E pc \in RecPc : Step(r, pc)
      BY <1>4 DEF RecFeed, RecPc
    <2> QED
      BY <1>0, <2>1, <2>2, <2>3, StepOK
  <1> QED
    BY <1>1, <1>2, <1>3, <1>4

LEMMA ReportSessionOK ==
  ASSUME SessionTypeOK, NEW r \in RecordThreads, RecReport(r) \/ RecTell(r)
  PROVE  FlagsOK' /\ FilesOK' /\ RecOK'
  <1>0. FlagsOK /\ FilesOK /\ RecOK
    BY SessionTypeParts
  <1>1. rec[r].say \in Reports /\ AfterReport[rec[r].say] \in RecPc
    BY <1>0, AfterReportOK DEF RecOK, RecLocals
  <1>2. CASE RecReport(r)
    <2>1. FlagsOK' /\ FilesOK'
      BY <1>0, <1>2 DEF RecReport, Keep, lib, FlagsOK, FilesOK
    <2>2. \E pc \in RecPc : Step(r, pc)
      BY <1>1, <1>2 DEF RecReport, RecPc
    <2> QED
      BY <1>0, <2>1, <2>2, StepOK
  <1>3. CASE RecTell(r) /\ Fault
    BY <1>3, FaultSessionOK
  <1>4. CASE RecTell(r) /\ ~Fault
    <2>1. FlagsOK' /\ FilesOK'
      BY <1>0, <1>4 DEF RecTell, Keep, lib, FlagsOK, FilesOK
    <2>2. rec' = [rec EXCEPT ![r] =
                    [rec[r] EXCEPT !.pc = AfterReport[rec[r].say],
                                   !.told = @ \union {rec[r].say}]]
      BY <1>0, <1>4 DEF RecTell, RecOK
    <2>3. [rec[r] EXCEPT !.pc = AfterReport[rec[r].say],
                         !.told = @ \union {rec[r].say}] \in RecLocals
      BY <1>0, <1>1 DEF RecOK, RecLocals
    <2>4. RecOK'
      BY <1>0, <2>2, <2>3 DEF RecOK
    <2> QED
      BY <2>1, <2>4
  <1> QED
    BY <1>2, <1>3, <1>4

LEMMA SessionNextTypeOK == SessionTypeOK /\ [Next]_vars => SessionTypeOK'
  <1> SUFFICES ASSUME SessionTypeOK, [Next]_vars PROVE SessionTypeOK'
    OBVIOUS
  <1>1. AlsaTypeOK'
    BY SessionTypeParts, SessionAlsaStep, AlsaStepTypeOK
  <1>2. FlagsOK' /\ FilesOK' /\ RecOK'
    <2>1. CASE Ui
      BY <2>1, UiSessionOK
    <2>2. ASSUME NEW r \in RecordThreads, Record(r) PROVE FlagsOK' /\ FilesOK' /\ RecOK'
      BY <2>2, PlainSessionOK, RiskySessionOK, ReportSessionOK DEF Record, Plain
    <2>3. CASE UNCHANGED sessionVars
      BY <2>3, SessionTypeParts DEF sessionVars, lib, files, FlagsOK, FilesOK, RecOK
    <2> QED
      BY <2>1, <2>2, <2>3 DEF Next, InAlsa, CaptureStep, vars
  <1> QED
    BY <1>1, <1>2, SessionTypeParts

LEMMA SessionInitTypeOK == Init => SessionTypeOK
  <1> SUFFICES ASSUME Init PROVE SessionTypeOK
    OBVIOUS
  <1>1. AlsaTypeOK
    BY InitOK DEF Init
  <1>2. FlagsOK /\ FilesOK
    BY DEF Init, FlagsOK, FilesOK, UiPc
  <1>3. RecOK
    BY AfterReportOK DEF Init, RecOK, RecLocals, RecPc
  <1> QED
    BY <1>1, <1>2, <1>3, SessionTypeParts

\* The members of Recorder, its files and its threads keep to what they may be,
\* however calls, sessions and failures interleave (Recorder.cpp:112-178, :289-394).
THEOREM SessionTypeCorrect == Spec => []SessionTypeOK
  BY SessionInitTypeOK, SessionNextTypeOK, PTL DEF Spec

-----------------------------------------------------------------------------
(* ReleasedOnce, with the session as the user.                             *)

\* Whatever the application and the record threads do to each other, no handle
\* is closed twice and no block is freed twice: PcmClose holds g_mutex from
\* its test to its null assignment, and every record thread goes through it
\* (alsa_recorder.cpp:190-207, Recorder.cpp:379).
THEOREM SessionReleasesOnce == Spec => []ReleasedOnce
  <1>1. Init => SessionTypeOK /\ ReleaseInv
    BY SessionInitTypeOK, ReleaseInvInit DEF Init
  <1>2. (SessionTypeOK /\ ReleaseInv) /\ [Next]_vars => (SessionTypeOK /\ ReleaseInv)'
    BY SessionNextTypeOK, SessionAlsaStep, AlsaStepRelease
  <1>3. ReleaseInv => ReleasedOnce
    BY DEF ReleaseInv, PcmInv, BaseInv, ReleasedOnce
  <1> QED
    BY <1>1, <1>2, <1>3, PTL DEF Spec

-----------------------------------------------------------------------------
(* FlagHasThread.                                                          *)

\* A record thread answers for isRecording_ from its first assignment to its
\* last; after the reports of a failed start it does so no longer.
Answers(r) ==
  \/ rec[r].pc \in RecPc \ {"unborn", "begin", "report", "tell", "exit"}
  \/ rec[r].pc \in {"report", "tell"} /\ rec[r].say \notin {"openFailed", "startFailed"}

FlagInv == isRecording => \E r \in RecordThreads : Answers(r)

LEMMA StepAnswers ==
  ASSUME SessionTypeOK, NEW r \in RecordThreads,
         NEW pc \in RecPc \ {"unborn", "begin", "report", "tell", "exit"}, Step(r, pc)
  PROVE  Answers(r)'
  BY StepOK, SessionTypeParts DEF Answers

\* A thread that steps on answers for the flag, or has just cleared it.
LEMMA PlainAnswers ==
  ASSUME SessionTypeOK, NEW r \in RecordThreads, Plain(r), isRecording'
  PROVE  Answers(r)'
  <1>0. RecOK
    BY SessionTypeParts
  <1>1. \/ \E pc \in RecPc \ {"unborn", "begin", "report", "tell", "exit"} : Step(r, pc)
        \/ \E what \in Reports \ {"openFailed", "startFailed"} : Report(r, what)
    BY AfterReportOK DEF Plain, RecBegin, RecOpen, RecOpened, RecSize, RecStart,
       RecStarted, RecLoop, RecCheck, RecRead, RecEngine, RecFnull, RecClose,
       RecClosed, RecStopped, RecFinish, RecPc
  <1>2. CASE \E pc \in RecPc \ {"unborn", "begin", "report", "tell", "exit"} : Step(r, pc)
    BY <1>2, StepAnswers
  <1>3. CASE \E what \in Reports \ {"openFailed", "startFailed"} : Report(r, what)
    BY <1>0, <1>3, ReportOK DEF Answers
  <1> QED
    BY <1>1, <1>2, <1>3

LEMMA RiskyAnswers ==
  ASSUME SessionTypeOK, NEW r \in RecordThreads,
         \/ RecProcess(r) \/ RecAlarm(r) \/ RecFeed(r) \/ RecEngineTell(r)
         \/ RecFclose(r),
         ~Fault
  PROVE  Answers(r)'
  <1>0. RecOK
    BY SessionTypeParts
  <1>1. CASE \E pc \in RecPc \ {"unborn", "begin", "report", "tell", "exit"} : Step(r, pc)
    BY <1>1, StepAnswers
  <1>2. CASE \E pc \in {"feed", "alarm"} :
               rec' = [rec EXCEPT ![r].pc = pc, ![r].first = FALSE]
    BY <1>0, <1>2 DEF RecOK, RecLocals, Answers, RecPc
  <1> QED
    BY <1>1, <1>2 DEF RecProcess, RecAlarm, RecFeed, RecEngineTell, RecFclose, RecPc

LEMMA ReportAnswers ==
  ASSUME SessionTypeOK, NEW r \in RecordThreads, RecReport(r) \/ RecTell(r), Answers(r)
  PROVE  Answers(r)'
  <1>0. RecOK
    BY SessionTypeParts
  <1>1. rec[r].say \in {"started", "error", "stopped"}
    BY <1>0, AfterReportOK DEF RecReport, RecTell, On, Answers, RecOK, RecLocals
  <1>2. AfterReport[rec[r].say] \in RecPc \ {"unborn", "begin", "report", "tell", "exit"}
    BY <1>1, AfterReportOK DEF RecPc
  <1>3. CASE RecReport(r)
    <2>1. CASE Step(r, "tell")
      BY <1>0, <1>1, <2>1, StepOK DEF Answers, RecPc
    <2> QED
      BY <1>2, <1>3, <2>1, StepAnswers DEF RecReport
  <1>4. CASE RecTell(r)
    <2>1. CASE Fault
      BY <2>1, FaultSessionOK DEF sessionVars, Answers
    <2>2. CASE ~Fault
      <3>1. rec'[r].pc = AfterReport[rec[r].say]
        BY <1>0, <1>4, <2>2 DEF RecTell, RecOK, RecLocals
      <3> QED
        BY <1>2, <3>1 DEF Answers
    <2> QED
      BY <2>1, <2>2
  <1> QED
    BY <1>3, <1>4

\* A step of one record thread leaves the others alone.
LEMMA OthersAlone ==
  ASSUME SessionTypeOK, NEW r \in RecordThreads, Record(r),
         NEW q \in RecordThreads \ {r}, Answers(q)
  PROVE  Answers(q)'
  <1>1. rec \in [RecordThreads -> RecLocals]
    BY SessionTypeParts DEF RecOK
  <1>2. rec'[q] = rec[q]
    BY <1>1 DEF Record, RecBegin, RecOpen, RecOpened, RecSize, RecStart, RecStarted,
       RecLoop, RecCheck, RecRead, RecProcess, RecAlarm, RecFeed, RecEngine,
       RecEngineTell, RecFclose, RecFnull, RecClose, RecClosed, RecStopped,
       RecFinish, RecReport, RecTell, Step, Report, Fault, sessionVars
  <1> QED
    BY <1>2 DEF Answers

LEMMA FlagInvNext == SessionTypeOK /\ FlagInv /\ [Next]_vars => FlagInv'
  <1> SUFFICES ASSUME SessionTypeOK, FlagInv, [Next]_vars, isRecording'
               PROVE  \E q \in RecordThreads : Answers(q)'
    BY DEF FlagInv
  <1>1. CASE Ui
    <2>1. isRecording
      BY <1>1 DEF Ui, InitCallback, InitCae, InitListener, DestroyFlags,
         DestroyCallback, DestroyCae, DestroyListener, StartAccepted, StartCreate,
         StopRecord, SetClearBuffer
    <2>2. PICK q \in RecordThreads : Answers(q)
      BY <2>1 DEF FlagInv
    <2>3. CASE UNCHANGED rec
      BY <2>2, <2>3 DEF Answers
    <2>4. ASSUME NEW r \in RecordThreads, On(r, "unborn"), Step(r, "begin")
          PROVE  Answers(q)'
      <3>1. q # r
        BY <2>2, <2>4 DEF On, Answers
      <3> QED
        BY <2>2, <2>4, <3>1, SessionTypeParts, StepOK DEF RecPc, Answers
    <2> QED
      BY <1>1, <2>2, <2>3, <2>4, OneOfIsOne DEF Ui, InitCallback, InitCae, InitListener,
         DestroyFlags, DestroyCallback, DestroyCae, DestroyListener, StartAccepted,
         StartCreate, StopRecord, SetClearBuffer
  <1>2. ASSUME NEW r \in RecordThreads, Record(r)
        PROVE  \E q \in RecordThreads : Answers(q)'
    <2>1. CASE Plain(r)
      BY <2>1, PlainAnswers
    <2>2. CASE RecReport(r) \/ RecTell(r)
      <3>1. isRecording
        BY <2>2 DEF RecReport, RecTell, Keep, Fault, sessionVars
      <3>2. PICK q \in RecordThreads : Answers(q)
        BY <3>1 DEF FlagInv
      <3> QED
        BY <1>2, <2>2, <3>2, ReportAnswers, OthersAlone
    <2>3. CASE Fault
      BY <2>3, FaultSessionOK DEF sessionVars, FlagInv, Answers
    <2> QED
      BY <1>2, <2>1, <2>2, <2>3, RiskyAnswers DEF Record, Plain
  <1>3. CASE UNCHANGED sessionVars
    BY <1>3 DEF sessionVars, FlagInv, Answers
  <1> QED
    BY <1>1, <1>2, <1>3 DEF Next, InAlsa, CaptureStep, vars

\* isRecording_ is never left set behind, so a start is never refused with
\* CAE_ERROR_RECORDING because of a session that is over (Recorder.cpp:155-160),
\* for any number of starts, stops, init and destroy in any order: every path out
\* of record() clears it (Recorder.cpp:298, :311, :390).
THEOREM FlagIsHeld == Spec => []FlagHasThread
  <1>1. Init => SessionTypeOK /\ FlagInv
    BY SessionInitTypeOK DEF Init, FlagInv
  <1>2. (SessionTypeOK /\ FlagInv) /\ [Next]_vars => (SessionTypeOK /\ FlagInv)'
    BY SessionNextTypeOK, FlagInvNext
  <1>3. FlagInv => FlagHasThread
    BY DEF FlagInv, FlagHasThread, Answers, Running
  <1> QED
    BY <1>1, <1>2, <1>3, PTL DEF Spec

=============================================================================

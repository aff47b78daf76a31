-------------------------- MODULE AlsaRecorderProofs --------------------------
(***************************************************************************)
(* What TLAPS proves about AlsaRecorder for any number of threads, capture *)
(* threads, handles and blocks, and whatever may fail.                     *)
(***************************************************************************)
EXTENDS AlsaRecorder, TLAPS

-----------------------------------------------------------------------------
(* AlsaTypeOK.                                                             *)

Pc == UserPc \union CapturePc \union {"dead"}
Inside == {"inread", "reading", "writing"}
Pointers == Pcms \union Blocks \union {None}
Locals == [pc: Pc, ptr: Pointers, ok: BOOLEAN]

\* The part of AlsaTypeOK that is about the threads.
ThreadsOK ==
  /\ th \in [Threads -> Locals]
  /\ \A t \in Threads :
       /\ th[t].pc = "inread" => th[t].ptr \in opened
       /\ th[t].pc \in {"reading", "writing"} => th[t].ptr \in allocated

GlobalsOK ==
  /\ opened \subseteq Pcms /\ allocated \subseteq Blocks
  /\ gPcm \in opened \union {None}
  /\ gQueue \in allocated \union {None} /\ gBase \in allocated \union {None}
  /\ gRecording \in BOOLEAN /\ crashed \in BOOLEAN
  /\ gMutex \in Threads \union {None}
  /\ closes \in [Pcms -> Nat] /\ frees \in [Blocks -> Nat]
  /\ data \subseteq allocated

LEMMA TypeParts == AlsaTypeOK <=> GlobalsOK /\ ThreadsOK
  BY DEF AlsaTypeOK, GlobalsOK, ThreadsOK, Locals, Pointers, Pc, At

LEMMA TypePartsNext == GlobalsOK' /\ ThreadsOK' => AlsaTypeOK'
  BY DEF AlsaTypeOK, GlobalsOK, ThreadsOK, Locals, Pointers, Pc, At

LEMMA OneOfIsOne == \A S : OneOf(S) \subseteq S
  BY DEF OneOf

\* A thread steps to a place outside the device and the queue.
LEMMA GotoOK ==
  ASSUME ThreadsOK, opened \subseteq opened', allocated \subseteq allocated',
         NEW t \in Threads, NEW pc \in Pc \ Inside, Goto(t, pc)
  PROVE  ThreadsOK'
  <1>1. th' = [th EXCEPT ![t].pc = pc]
    BY DEF Goto
  <1>2. [th[t] EXCEPT !.pc = pc] \in Locals
    BY DEF ThreadsOK, Locals
  <1>3. th' = [th EXCEPT ![t] = [th[t] EXCEPT !.pc = pc]]
    BY <1>1
  <1>4. th' \in [Threads -> Locals] /\ th'[t].pc = pc /\ \A u \in Threads \ {t} : th'[u] = th[u]
    BY <1>2, <1>3 DEF ThreadsOK, Locals
  <1> QED
    BY <1>4 DEF ThreadsOK, Inside

\* A thread loads a pointer.
LEMMA LoadOK ==
  ASSUME ThreadsOK, opened \subseteq opened', allocated \subseteq allocated',
         NEW t \in Threads, NEW pc \in Pc, NEW p \in Pointers, Load(t, pc, p),
         pc = "inread" => p \in opened',
         pc \in {"reading", "writing"} => p \in allocated'
  PROVE  ThreadsOK'
  <1>1. th' = [th EXCEPT ![t] = [th[t] EXCEPT !.pc = pc, !.ptr = p]]
    BY DEF Load
  <1>2. [th[t] EXCEPT !.pc = pc, !.ptr = p] \in Locals
    BY DEF ThreadsOK, Locals
  <1>3. /\ th' \in [Threads -> Locals] /\ th'[t].pc = pc /\ th'[t].ptr = p
        /\ \A u \in Threads \ {t} : th'[u] = th[u]
    BY <1>1, <1>2 DEF ThreadsOK, Locals
  <1> QED
    BY <1>3 DEF ThreadsOK

LEMMA ReturnOK ==
  ASSUME ThreadsOK, opened \subseteq opened', allocated \subseteq allocated',
         NEW t \in Threads, NEW ok \in BOOLEAN, Return(t, ok)
  PROVE  ThreadsOK'
  <1>1. [pc |-> "idle", ptr |-> None, ok |-> ok] \in Locals
    BY DEF Locals, Pc, UserPc, Pointers
  <1>2. /\ th' \in [Threads -> Locals] /\ th'[t].pc = "idle"
        /\ \A u \in Threads \ {t} : th'[u] = th[u]
    BY <1>1 DEF ThreadsOK, Return
  <1> QED
    BY <1>2 DEF ThreadsOK

LEMMA CrashOK ==
  ASSUME ThreadsOK, opened' = opened, allocated' = allocated, Crash
  PROVE  ThreadsOK'
  <1>1. \A t \in Threads : [th[t] EXCEPT !.pc = "dead"] \in Locals
    BY DEF ThreadsOK, Locals, Pc
  <1> QED
    BY <1>1 DEF ThreadsOK, Crash, Locals

LEMMA InitOK == AlsaInit => AlsaTypeOK
  <1> SUFFICES ASSUME AlsaInit PROVE GlobalsOK /\ ThreadsOK
    BY TypeParts
  <1>1. GlobalsOK
    BY DEF AlsaInit, GlobalsOK
  <1>2. \A t \in Threads : th[t] \in Locals /\ th[t].pc \in {"idle", "unborn"}
    BY DEF AlsaInit, Locals, Pc, UserPc, CapturePc, Pointers
  <1>3. th \in [Threads -> Locals]
    BY <1>2 DEF AlsaInit
  <1> QED
    BY <1>1, <1>2, <1>3 DEF ThreadsOK


\* Every place that a step goes to.
LEMMA Places ==
  /\ UserPc \union CapturePc \subseteq Pc
  /\ {"size", "opening", "startFlag", "startSet", "startBase", "startQueue", "spawn",
      "readClear", "readEnter", "open", "startPcm", "read", "close", "closeLock",
      "closePcm", "closeNull", "closeQueue", "closeFree", "closeBase",
      "closeUnlock", "begin", "loop", "device", "deviceEnter", "write",
      "writeEnter", "logFull", "exit"} \subseteq Pc \ Inside
  /\ {"inread", "reading", "writing"} \subseteq Pc
  BY DEF Pc, UserPc, CapturePc, ClosePc, Inside

LEMMA SizeTypeOK ==
  ASSUME AlsaTypeOK, NEW t \in Users, SizeCheck(t) \/ SizeUse(t)
  PROVE  AlsaTypeOK'
  <1>0. GlobalsOK /\ ThreadsOK /\ t \in Threads
    BY TypeParts DEF Threads
  <1> USE <1>0
  <1>1. CASE SizeCheck(t)
    <2>1. GlobalsOK'
      BY <1>1 DEF SizeCheck, GlobalsOK, globals, device, memory, flags
    <2>2. ThreadsOK'
      BY <1>1, Places, GotoOK, ReturnOK DEF SizeCheck, globals, device, memory
    <2> QED
      BY <2>1, <2>2, TypePartsNext
  <1>2. CASE SizeUse(t)
    <2>1. GlobalsOK'
      BY <1>2 DEF SizeUse, Crash, GlobalsOK, device, memory
    <2>2. ThreadsOK'
      BY <1>2, ReturnOK, CrashOK DEF SizeUse, device, memory
    <2> QED
      BY <2>1, <2>2, TypePartsNext
  <1> QED
    BY <1>1, <1>2

LEMMA OpenTypeOK ==
  ASSUME AlsaTypeOK, NEW t \in Users,
         OpenCheck(t) \/ OpenFails(t) \/ Open(t)
  PROVE  AlsaTypeOK'
  <1>0. GlobalsOK /\ ThreadsOK /\ t \in Threads
    BY TypeParts DEF Threads
  <1> USE <1>0
  <1>1. CASE OpenCheck(t)
    <2>1. GlobalsOK'
      BY <1>1 DEF OpenCheck, GlobalsOK, globals, device, memory, flags
    <2>2. ThreadsOK'
      BY <1>1, Places, GotoOK, ReturnOK DEF OpenCheck, GlobalsOK, globals, device, memory, flags
    <2> QED
      BY <2>1, <2>2, TypePartsNext
  <1>2. CASE OpenFails(t)
    <2>1. GlobalsOK'
      BY <1>2 DEF OpenFails, GlobalsOK, globals, device, memory, flags
    <2>2. ThreadsOK'
      BY <1>2, Places, ReturnOK DEF OpenFails, GlobalsOK, globals, device, memory, flags
    <2> QED
      BY <2>1, <2>2, TypePartsNext
  <1>3. CASE Open(t)
    <2>1. GlobalsOK'
      BY <1>3, OneOfIsOne DEF Open, GlobalsOK, globals, device, memory, flags
    <2>2. ThreadsOK'
      BY <1>3, Places, ReturnOK DEF Open, GlobalsOK, globals, device, memory, flags
    <2> QED
      BY <2>1, <2>2, TypePartsNext
  <1> QED
    BY <1>1, <1>2, <1>3

LEMMA StartTypeOK ==
  ASSUME AlsaTypeOK, NEW t \in Users,
         StartPcm(t) \/ StartFlag(t) \/ StartSet(t) \/ StartBase(t) \/ StartQueue(t) \/ SpawnFails(t)
  PROVE  AlsaTypeOK'
  <1>0. GlobalsOK /\ ThreadsOK /\ t \in Threads
    BY TypeParts DEF Threads
  <1> USE <1>0
  <1>1. CASE StartPcm(t)
    <2>1. GlobalsOK'
      BY <1>1 DEF StartPcm, GlobalsOK, globals, device, memory, flags
    <2>2. ThreadsOK'
      BY <1>1, Places, GotoOK, ReturnOK DEF StartPcm, GlobalsOK, globals, device, memory, flags
    <2> QED
      BY <2>1, <2>2, TypePartsNext
  <1>2. CASE StartFlag(t)
    <2>1. GlobalsOK'
      BY <1>2 DEF StartFlag, GlobalsOK, globals, device, memory, flags
    <2>2. ThreadsOK'
      BY <1>2, Places, GotoOK, ReturnOK DEF StartFlag, GlobalsOK, globals, device, memory, flags
    <2> QED
      BY <2>1, <2>2, TypePartsNext
  <1>3. CASE StartSet(t)
    <2>1. GlobalsOK'
      BY <1>3 DEF StartSet, GlobalsOK, globals, device, memory, flags
    <2>2. ThreadsOK'
      BY <1>3, Places, GotoOK DEF StartSet, GlobalsOK, globals, device, memory, flags
    <2> QED
      BY <2>1, <2>2, TypePartsNext
  <1>4. CASE StartBase(t)
    <2>1. GlobalsOK'
      BY <1>4, OneOfIsOne DEF StartBase, Crash, GlobalsOK, globals, device, memory, flags
    <2>2. ThreadsOK'
      BY <1>4, Places, GotoOK, CrashOK DEF StartBase, GlobalsOK, globals, device, memory, flags
    <2> QED
      BY <2>1, <2>2, TypePartsNext
  <1>5. CASE StartQueue(t)
    <2>1. GlobalsOK'
      BY <1>5 DEF StartQueue, GlobalsOK, globals, device, memory, flags
    <2>2. ThreadsOK'
      BY <1>5, Places, GotoOK DEF StartQueue, GlobalsOK, globals, device, memory, flags
    <2> QED
      BY <2>1, <2>2, TypePartsNext
  <1>6. CASE SpawnFails(t)
    <2>1. GlobalsOK'
      BY <1>6 DEF SpawnFails, GlobalsOK, globals, device, memory, flags
    <2>2. ThreadsOK'
      BY <1>6, Places, ReturnOK DEF SpawnFails, GlobalsOK, globals, device, memory, flags
    <2> QED
      BY <2>1, <2>2, TypePartsNext
  <1> QED
    BY <1>1, <1>2, <1>3, <1>4, <1>5, <1>6

LEMMA ReadTypeOK ==
  ASSUME AlsaTypeOK, NEW t \in Users,
         ReadCheck(t) \/ ReadClear(t) \/ ReadEnter(t) \/ ReadReturn(t)
  PROVE  AlsaTypeOK'
  <1>0. GlobalsOK /\ ThreadsOK /\ t \in Threads
    BY TypeParts DEF Threads
  <1> USE <1>0
  <1>1. CASE ReadCheck(t)
    <2>1. GlobalsOK'
      BY <1>1 DEF ReadCheck, GlobalsOK, globals, device, memory, flags
    <2>2. ThreadsOK'
      BY <1>1, Places, GotoOK, ReturnOK DEF ReadCheck, GlobalsOK, globals, device, memory, flags
    <2> QED
      BY <2>1, <2>2, TypePartsNext
  <1>2. CASE ReadClear(t)
    <2>1. GlobalsOK'
      BY <1>2 DEF ReadClear, Crash, GlobalsOK, globals, device, memory, flags
    <2>2. ThreadsOK'
      BY <1>2, Places, GotoOK, CrashOK DEF ReadClear, GlobalsOK, globals, device, memory, flags
    <2> QED
      BY <2>1, <2>2, TypePartsNext
  <1>3. CASE ReadEnter(t)
    <2>1. GlobalsOK'
      BY <1>3 DEF ReadEnter, GlobalsOK, globals, device, memory, flags
    <2>2. ThreadsOK'
      BY <1>3, Places, LoadOK, ReturnOK DEF ReadEnter, Pointers, GlobalsOK, globals, device, memory, flags
    <2> QED
      BY <2>1, <2>2, TypePartsNext
  <1>4. CASE ReadReturn(t)
    <2>1. GlobalsOK'
      BY <1>4 DEF ReadReturn, GlobalsOK, globals, device, memory, flags
    <2>2. ThreadsOK'
      BY <1>4, Places, ReturnOK DEF ReadReturn, GlobalsOK, globals, device, memory, flags
    <2> QED
      BY <2>1, <2>2, TypePartsNext
  <1> QED
    BY <1>1, <1>2, <1>3, <1>4

LEMMA CloseTypeOK ==
  ASSUME AlsaTypeOK, NEW t \in Threads,
         Close(t)
  PROVE  AlsaTypeOK'
  <1>0. GlobalsOK /\ ThreadsOK /\ t \in Threads
    BY TypeParts DEF Threads
  <1> USE <1>0
  <1>1. CASE CloseFlag(t)
    <2>1. GlobalsOK'
      BY <1>1 DEF CloseFlag, GlobalsOK, globals, device, memory, flags
    <2>2. ThreadsOK'
      BY <1>1, Places, GotoOK DEF CloseFlag, GlobalsOK, globals, device, memory, flags
    <2> QED
      BY <2>1, <2>2, TypePartsNext
  <1>2. CASE CloseLock(t)
    <2>1. GlobalsOK'
      BY <1>2 DEF CloseLock, GlobalsOK, globals, device, memory, flags
    <2>2. ThreadsOK'
      BY <1>2, Places, GotoOK DEF CloseLock, GlobalsOK, globals, device, memory, flags
    <2> QED
      BY <2>1, <2>2, TypePartsNext
  <1>3. CASE ClosePcm(t)
    <2>1. GlobalsOK'
      BY <1>3 DEF ClosePcm, GlobalsOK, globals, device, memory, flags
    <2>2. ThreadsOK'
      BY <1>3, Places, GotoOK DEF ClosePcm, GlobalsOK, globals, device, memory, flags
    <2> QED
      BY <2>1, <2>2, TypePartsNext
  <1>4. CASE CloseNull(t)
    <2>1. GlobalsOK'
      BY <1>4 DEF CloseNull, GlobalsOK, globals, device, memory, flags
    <2>2. ThreadsOK'
      BY <1>4, Places, GotoOK DEF CloseNull, GlobalsOK, globals, device, memory, flags
    <2> QED
      BY <2>1, <2>2, TypePartsNext
  <1>5. CASE CloseQueue(t)
    <2>1. GlobalsOK'
      BY <1>5 DEF CloseQueue, GlobalsOK, globals, device, memory, flags
    <2>2. ThreadsOK'
      BY <1>5, Places, GotoOK DEF CloseQueue, GlobalsOK, globals, device, memory, flags
    <2> QED
      BY <2>1, <2>2, TypePartsNext
  <1>6. CASE CloseFree(t)
    <2>1. GlobalsOK'
      BY <1>6 DEF CloseFree, GlobalsOK, globals, device, memory, flags
    <2>2. ThreadsOK'
      BY <1>6, Places, GotoOK DEF CloseFree, GlobalsOK, globals, device, memory, flags
    <2> QED
      BY <2>1, <2>2, TypePartsNext
  <1>7. CASE CloseBase(t)
    <2>1. GlobalsOK'
      BY <1>7 DEF CloseBase, GlobalsOK, globals, device, memory, flags
    <2>2. ThreadsOK'
      BY <1>7, Places, GotoOK DEF CloseBase, GlobalsOK, globals, device, memory, flags
    <2> QED
      BY <2>1, <2>2, TypePartsNext
  <1>8. CASE CloseUnlock(t)
    <2>1. GlobalsOK'
      BY <1>8 DEF CloseUnlock, GlobalsOK, globals, device, memory, flags
    <2>2. ThreadsOK'
      BY <1>8, Places, GotoOK, ReturnOK DEF CloseUnlock, GlobalsOK, globals, device, memory, flags
    <2> QED
      BY <2>1, <2>2, TypePartsNext
  <1> QED
    BY <1>1, <1>2, <1>3, <1>4, <1>5, <1>6, <1>7, <1>8 DEF Close

LEMMA CaptureTypeOK ==
  ASSUME AlsaTypeOK, NEW t \in Captures,
         Capture(t)
  PROVE  AlsaTypeOK'
  <1>0. GlobalsOK /\ ThreadsOK /\ t \in Threads
    BY TypeParts DEF Threads
  <1> USE <1>0
  <1>1. CASE CaptureBegin(t)
    <2>1. GlobalsOK'
      BY <1>1 DEF CaptureBegin, GlobalsOK, globals, device, memory, flags
    <2>2. ThreadsOK'
      BY <1>1, Places, GotoOK DEF CaptureBegin, GlobalsOK, globals, device, memory, flags
    <2> QED
      BY <2>1, <2>2, TypePartsNext
  <1>2. CASE CaptureLoop(t)
    <2>1. GlobalsOK'
      BY <1>2 DEF CaptureLoop, GlobalsOK, globals, device, memory, flags
    <2>2. ThreadsOK'
      BY <1>2, Places, GotoOK DEF CaptureLoop, GlobalsOK, globals, device, memory, flags
    <2> QED
      BY <2>1, <2>2, TypePartsNext
  <1>3. CASE CaptureDevice(t)
    <2>1. GlobalsOK'
      BY <1>3 DEF CaptureDevice, GlobalsOK, globals, device, memory, flags
    <2>2. ThreadsOK'
      BY <1>3, Places, GotoOK DEF CaptureDevice, GlobalsOK, globals, device, memory, flags
    <2> QED
      BY <2>1, <2>2, TypePartsNext
  <1>4. CASE CaptureDeviceEnter(t)
    <2>1. GlobalsOK'
      BY <1>4 DEF CaptureDeviceEnter, Crash, GlobalsOK, globals, device, memory, flags
    <2>2. ThreadsOK'
      BY <1>4, Places, LoadOK, CrashOK DEF CaptureDeviceEnter, Pointers, GlobalsOK, globals, device, memory, flags
    <2> QED
      BY <2>1, <2>2, TypePartsNext
  <1>5. CASE CaptureRead(t)
    <2>1. GlobalsOK'
      BY <1>5 DEF CaptureRead, GlobalsOK, globals, device, memory, flags
    <2>2. ThreadsOK'
      BY <1>5, Places, LoadOK DEF CaptureRead, Pointers, Inside, GlobalsOK, globals, device, memory, flags
    <2> QED
      BY <2>1, <2>2, TypePartsNext
  <1>6. CASE CaptureReadFails(t)
    <2>1. GlobalsOK'
      BY <1>6 DEF CaptureReadFails, GlobalsOK, globals, device, memory, flags
    <2>2. ThreadsOK'
      BY <1>6, Places, LoadOK DEF CaptureReadFails, Pointers, Inside, GlobalsOK, globals, device, memory, flags
    <2> QED
      BY <2>1, <2>2, TypePartsNext
  <1>7. CASE CaptureWrite(t)
    <2>1. GlobalsOK'
      BY <1>7 DEF CaptureWrite, GlobalsOK, globals, device, memory, flags
    <2>2. ThreadsOK'
      BY <1>7, Places, GotoOK DEF CaptureWrite, GlobalsOK, globals, device, memory, flags
    <2> QED
      BY <2>1, <2>2, TypePartsNext
  <1>8. CASE CaptureEnter(t)
    <2>1. GlobalsOK'
      BY <1>8 DEF CaptureEnter, GlobalsOK, globals, device, memory, flags
    <2>2. ThreadsOK'
      BY <1>8, Places, GotoOK, LoadOK DEF CaptureEnter, Pointers, GlobalsOK, globals, device, memory, flags
    <2> QED
      BY <2>1, <2>2, TypePartsNext
  <1>9. CASE CaptureStore(t)
    <2>1. GlobalsOK'
      BY <1>9 DEF CaptureStore, ThreadsOK, At, GlobalsOK, globals, device, memory, flags
    <2>2. ThreadsOK'
      BY <1>9, Places, LoadOK DEF CaptureStore, Pointers, Inside, GlobalsOK, globals, device, memory, flags
    <2> QED
      BY <2>1, <2>2, TypePartsNext
  <1>10. CASE CaptureOverflow(t)
    <2>1. GlobalsOK'
      BY <1>10 DEF CaptureOverflow, GlobalsOK, globals, device, memory, flags
    <2>2. ThreadsOK'
      BY <1>10, Places, LoadOK DEF CaptureOverflow, Pointers, Inside, GlobalsOK, globals, device, memory, flags
    <2> QED
      BY <2>1, <2>2, TypePartsNext
  <1>11. CASE CaptureLog(t)
    <2>1. GlobalsOK'
      BY <1>11 DEF CaptureLog, Crash, GlobalsOK, globals, device, memory, flags
    <2>2. ThreadsOK'
      BY <1>11, Places, GotoOK, CrashOK DEF CaptureLog, GlobalsOK, globals, device, memory, flags
    <2> QED
      BY <2>1, <2>2, TypePartsNext
  <1>12. CASE Close(t)
    BY <1>12, CloseTypeOK
  <1> QED
    BY <1>1, <1>2, <1>3, <1>4, <1>5, <1>6, <1>7, <1>8, <1>9, <1>10, <1>11, <1>12 DEF Capture

\* A new capture thread begins, and the caller returns.
LEMMA SpawnTypeOK ==
  ASSUME AlsaTypeOK, NEW t \in Users, Spawn(t)
  PROVE  AlsaTypeOK'
  <1>0. GlobalsOK /\ ThreadsOK /\ t \in Threads
    BY TypeParts DEF Threads
  <1>1. PICK c \in Captures :
          th' = [th EXCEPT ![c].pc = "begin",
                           ![t] = [pc |-> "idle", ptr |-> None, ok |-> TRUE]]
    BY OneOfIsOne DEF Spawn
  <1>2. c \in Threads /\ c # t
    BY AlsaAssumption DEF Threads
  <1>3. [th[c] EXCEPT !.pc = "begin"] \in Locals
    BY <1>0, <1>2, Places DEF ThreadsOK, Locals
  <1>4. [pc |-> "idle", ptr |-> None, ok |-> TRUE] \in Locals
    BY DEF Locals, Pc, UserPc, Pointers
  <1>5. th' = [th EXCEPT ![c] = [th[c] EXCEPT !.pc = "begin"],
                         ![t] = [pc |-> "idle", ptr |-> None, ok |-> TRUE]]
    BY <1>1
  <1>6. /\ th' \in [Threads -> Locals]
        /\ th'[c].pc = "begin" /\ th'[t].pc = "idle"
        /\ \A u \in Threads \ {c, t} : th'[u] = th[u]
    BY <1>0, <1>2, <1>3, <1>4, <1>5 DEF ThreadsOK, Locals
  <1>7. ThreadsOK'
    BY <1>0, <1>6 DEF ThreadsOK, Spawn, globals, device, memory
  <1>8. GlobalsOK'
    BY <1>0 DEF GlobalsOK, Spawn, globals, device, memory, flags
  <1> QED
    BY <1>7, <1>8, TypePartsNext

LEMMA CallTypeOK ==
  ASSUME AlsaTypeOK, NEW t \in Users,
         NEW pc \in {"open", "startPcm", "read", "close"}, NEW arg \in BOOLEAN,
         Call(t, pc, arg)
  PROVE  AlsaTypeOK'
  <1>0. GlobalsOK /\ ThreadsOK /\ t \in Threads
    BY TypeParts DEF Threads
  <1>1. GlobalsOK' /\ opened' = opened /\ allocated' = allocated
    BY <1>0 DEF Call, GlobalsOK, globals, device, memory, flags
  <1>2. pc \in Pc \ Inside
    BY Places
  <1>3. th' = [th EXCEPT ![t] = [th[t] EXCEPT !.pc = pc, !.ok = arg]]
    BY DEF Call
  <1>4. [th[t] EXCEPT !.pc = pc, !.ok = arg] \in Locals
    BY <1>0, <1>2 DEF ThreadsOK, Locals
  <1>5. /\ th' \in [Threads -> Locals] /\ th'[t].pc = pc
        /\ \A u \in Threads \ {t} : th'[u] = th[u]
    BY <1>0, <1>3, <1>4 DEF ThreadsOK, Locals
  <1>6. ThreadsOK'
    BY <1>0, <1>1, <1>2, <1>5 DEF ThreadsOK, Inside
  <1> QED
    BY <1>1, <1>6, TypePartsNext

LEMMA UnchangedTypeOK == AlsaTypeOK /\ UNCHANGED alsaVars => AlsaTypeOK'
  BY DEF AlsaTypeOK, alsaVars, globals, device, memory, flags, At

LEMMA NextTypeOK == AlsaTypeOK /\ [AlsaNext]_alsaVars => AlsaTypeOK'
  <1> SUFFICES ASSUME AlsaTypeOK, AlsaNext PROVE AlsaTypeOK'
    BY UnchangedTypeOK
  <1>1. ASSUME NEW t \in Users, User(t) PROVE AlsaTypeOK'
    <2>1. CASE OpenCheck(t) \/ OpenFails(t) \/ Open(t)
      BY <2>1, OpenTypeOK
    <2>2. CASE \/ StartPcm(t) \/ StartFlag(t) \/ StartSet(t) \/ StartBase(t)
               \/ StartQueue(t) \/ SpawnFails(t)
      BY <2>2, StartTypeOK
    <2>3. CASE ReadCheck(t) \/ ReadClear(t) \/ ReadEnter(t) \/ ReadReturn(t)
      BY <2>3, ReadTypeOK
    <2>4. CASE Close(t)
      BY <2>4, CloseTypeOK DEF Threads
    <2>5. CASE Spawn(t)
      BY <2>5, SpawnTypeOK
    <2>6. CASE SizeCheck(t) \/ SizeUse(t)
      BY <2>6, SizeTypeOK
    <2>7. CASE \E pc \in {"open", "startPcm", "read", "close"}, arg \in BOOLEAN :
                 Call(t, pc, arg)
      BY <2>7, CallTypeOK
    <2> QED
      BY <1>1, <2>1, <2>2, <2>3, <2>4, <2>5, <2>6, <2>7 DEF User
  <1> QED
    BY <1>1, CaptureTypeOK DEF AlsaNext

\* Whatever the threads do, the globals point to handles and blocks that
\* were opened and allocated, and a thread inside the device or the queue
\* never holds null (alsa_recorder.cpp:22-31, :51, :59, :173).
THEOREM AlsaTypeCorrect == AlsaSpec => []AlsaTypeOK
  BY InitOK, NextTypeOK, PTL DEF AlsaSpec

-----------------------------------------------------------------------------
(* ReleasedOnce.                                                           *)

\* The places at which a thread holds g_mutex.
Holding == ClosePc \ {"close", "closeLock"}

CrashInv == crashed => \A t \in Threads : th[t].pc = "dead"
HolderInv == \A t \in Threads : th[t].pc \in Holding => gMutex = t

\* A closed handle is still in g_pcm only between pcm_close and the null
\* assignment, and a deleted block likewise in g_queue_base.
PcmInv ==
  \A p \in Pcms :
    /\ closes[p] <= 1
    /\ closes[p] # 0 => p \in opened
    /\ closes[p] # 0 /\ gPcm = p => crashed \/ \E t \in Threads : th[t].pc = "closeNull"

BaseInv ==
  \A b \in Blocks :
    /\ frees[b] <= 1
    /\ frees[b] # 0 => b \in allocated
    /\ frees[b] # 0 /\ gBase = b => crashed \/ \E t \in Threads : th[t].pc = "closeBase"

ReleaseInv == AlsaTypeOK /\ CrashInv /\ HolderInv /\ PcmInv /\ BaseInv

\* Thread t, which is alive, moves to pc, and no other thread moves.
Moves(t, pc) ==
  /\ th[t].pc # "dead"
  /\ th'[t].pc = pc
  /\ \A u \in Threads \ {t} : th'[u].pc = th[u].pc

LEMMA MovesBy ==
  ASSUME AlsaTypeOK, NEW t \in Threads, th[t].pc # "dead"
  PROVE  /\ \A pc : Goto(t, pc) => Moves(t, pc)
         /\ \A pc, p : Load(t, pc, p) => Moves(t, pc)
         /\ \A ok : Return(t, ok) => Moves(t, "idle")
         /\ \A pc, arg : Call(t, pc, arg) => Moves(t, pc)
  <1>1. th \in [Threads -> Locals]
    BY TypeParts DEF ThreadsOK
  <1>2. ASSUME NEW pc, Goto(t, pc) PROVE Moves(t, pc)
    BY <1>1, <1>2 DEF Goto, Moves, Locals
  <1>3. ASSUME NEW pc, NEW p, Load(t, pc, p) PROVE Moves(t, pc)
    BY <1>1, <1>3 DEF Load, Moves, Locals
  <1>4. ASSUME NEW ok, Return(t, ok) PROVE Moves(t, "idle")
    BY <1>1, <1>4 DEF Return, Moves, Locals
  <1>5. ASSUME NEW pc, NEW arg, Call(t, pc, arg) PROVE Moves(t, pc)
    BY <1>1, <1>5 DEF Call, Moves, Locals
  <1> QED
    BY <1>2, <1>3, <1>4, <1>5

release == <<gPcm, gBase, gMutex, opened, allocated, closes, frees, crashed>>

\* A thread that does not hold the mutex moves outside, and nothing that is
\* opened or released changes.
LEMMA QuietStep ==
  ASSUME ReleaseInv, AlsaTypeOK', UNCHANGED release,
         NEW t \in Threads, NEW pc, Moves(t, pc),
         th[t].pc \notin Holding, pc \notin Holding
  PROVE  ReleaseInv'
  <1>1. ~crashed /\ ~crashed'
    BY DEF ReleaseInv, CrashInv, Moves, release
  <1>2. CrashInv' /\ HolderInv'
    BY <1>1 DEF ReleaseInv, CrashInv, HolderInv, Moves, release
  <1>3. /\ \A u \in Threads : th[u].pc = "closeNull" => th'[u].pc = "closeNull"
        /\ \A u \in Threads : th[u].pc = "closeBase" => th'[u].pc = "closeBase"
    BY DEF Moves, Holding, ClosePc
  <1>4. PcmInv' /\ BaseInv'
    BY <1>1, <1>3 DEF ReleaseInv, PcmInv, BaseInv, release
  <1> QED
    BY <1>2, <1>4 DEF ReleaseInv

\* The process dies.
LEMMA CrashStep ==
  ASSUME ReleaseInv, AlsaTypeOK', Crash, UNCHANGED <<opened, closes, frees>>,
         allocated \subseteq allocated'
  PROVE  ReleaseInv'
  <1>1. crashed' /\ \A t \in Threads : th'[t].pc = "dead"
    BY TypeParts DEF ReleaseInv, Crash, ThreadsOK, Locals
  <1>2. CrashInv' /\ HolderInv'
    BY <1>1 DEF CrashInv, HolderInv, Holding, ClosePc
  <1>3. PcmInv' /\ BaseInv'
    BY <1>1 DEF ReleaseInv, PcmInv, BaseInv
  <1> QED
    BY <1>2, <1>3 DEF ReleaseInv

\* The steps of a user that open, allocate and release nothing.
LEMMA UserQuiet ==
  ASSUME ReleaseInv, AlsaTypeOK', NEW t \in Users,
         \/ OpenCheck(t) \/ OpenFails(t) \/ StartPcm(t) \/ StartFlag(t)
         \/ StartSet(t) \/ StartQueue(t) \/ SpawnFails(t)
         \/ ReadCheck(t) \/ ReadClear(t) \/ ReadEnter(t) \/ ReadReturn(t)
         \/ SizeCheck(t) \/ SizeUse(t)
         \/ \E pc \in {"open", "startPcm", "read", "close"}, arg \in BOOLEAN :
              Call(t, pc, arg)
  PROVE  ReleaseInv'
  <1>0. t \in Threads /\ AlsaTypeOK
    BY DEF Threads, ReleaseInv
  <1> DEFINE Quiet(pc) == Moves(t, pc) /\ th[t].pc \notin Holding /\ UNCHANGED release
  <1>1. \A pc : pc \notin Holding /\ Quiet(pc) => ReleaseInv'
    BY <1>0, QuietStep
  <1> HIDE DEF Quiet
  <1>2. CASE OpenCheck(t)
    <2>1. Quiet("idle") \/ Quiet("opening")
      BY <1>2, <1>0, MovesBy DEF Quiet, OpenCheck, globals, device, memory, flags, release, At, Holding, ClosePc
    <2> QED
      BY <2>1, <1>1 DEF Holding, ClosePc
  <1>3. CASE OpenFails(t)
    <2>1. Quiet("idle")
      BY <1>3, <1>0, MovesBy DEF Quiet, OpenFails, globals, device, memory, flags, release, At, Holding, ClosePc
    <2> QED
      BY <2>1, <1>1 DEF Holding, ClosePc
  <1>4. CASE StartPcm(t)
    <2>1. Quiet("idle") \/ Quiet("startFlag")
      BY <1>4, <1>0, MovesBy DEF Quiet, StartPcm, globals, device, memory, flags, release, At, Holding, ClosePc
    <2> QED
      BY <2>1, <1>1 DEF Holding, ClosePc
  <1>5. CASE StartFlag(t)
    <2>1. Quiet("idle") \/ Quiet("startSet")
      BY <1>5, <1>0, MovesBy DEF Quiet, StartFlag, globals, device, memory, flags, release, At, Holding, ClosePc
    <2> QED
      BY <2>1, <1>1 DEF Holding, ClosePc
  <1>6. CASE StartSet(t)
    <2>1. Quiet("startBase")
      BY <1>6, <1>0, MovesBy DEF Quiet, StartSet, globals, device, memory, flags, release, At, Holding, ClosePc
    <2> QED
      BY <2>1, <1>1 DEF Holding, ClosePc
  <1>7. CASE StartQueue(t)
    <2>1. Quiet("spawn")
      BY <1>7, <1>0, MovesBy DEF Quiet, StartQueue, globals, device, memory, flags, release, At, Holding, ClosePc
    <2> QED
      BY <2>1, <1>1 DEF Holding, ClosePc
  <1>8. CASE SpawnFails(t)
    <2>1. Quiet("idle")
      BY <1>8, <1>0, MovesBy DEF Quiet, SpawnFails, globals, device, memory, flags, release, At, Holding, ClosePc
    <2> QED
      BY <2>1, <1>1 DEF Holding, ClosePc
  <1>9. CASE ReadCheck(t)
    <2>1. Quiet("idle") \/ Quiet("readClear") \/ Quiet("readEnter")
      BY <1>9, <1>0, MovesBy DEF Quiet, ReadCheck, globals, device, memory, flags, release, At, Holding, ClosePc
    <2> QED
      BY <2>1, <1>1 DEF Holding, ClosePc
  <1>10. CASE ReadEnter(t)
    <2>1. Quiet("idle") \/ Quiet("reading")
      BY <1>10, <1>0, MovesBy DEF Quiet, ReadEnter, globals, device, memory, flags, release, At, Holding, ClosePc
    <2> QED
      BY <2>1, <1>1 DEF Holding, ClosePc
  <1>11. CASE ReadReturn(t)
    <2>1. Quiet("idle")
      BY <1>11, <1>0, MovesBy DEF Quiet, ReadReturn, globals, device, memory, flags, release, At, Holding, ClosePc
    <2> QED
      BY <2>1, <1>1 DEF Holding, ClosePc
  <1>12. CASE SizeCheck(t)
    <2>1. Quiet("idle") \/ Quiet("size")
      BY <1>12, <1>0, MovesBy DEF Quiet, SizeCheck, globals, device, memory, flags, release, At, Holding, ClosePc
    <2> QED
      BY <2>1, <1>1 DEF Holding, ClosePc
  <1>13. CASE SizeUse(t)
    <2>1. CASE gPcm = None
      BY <1>13, <2>1, <1>0, CrashStep DEF SizeUse, device, memory
    <2>2. CASE gPcm # None
      <3>1. Quiet("idle")
        BY <1>13, <2>2, <1>0, MovesBy DEF Quiet, SizeUse, device, memory, release, At, Holding, ClosePc
      <3> QED
        BY <3>1, <1>1 DEF Holding, ClosePc
    <2> QED
      BY <2>1, <2>2
  <1>14. CASE ReadClear(t)
    <2>1. CASE gQueue = None
      BY <1>14, <2>1, <1>0, CrashStep DEF ReadClear, device
    <2>2. CASE gQueue # None
      <3>1. Quiet("readEnter")
        BY <1>14, <2>2, <1>0, MovesBy DEF Quiet, ReadClear, globals, device, memory, flags, release, At, Holding, ClosePc
      <3> QED
        BY <3>1, <1>1 DEF Holding, ClosePc
    <2> QED
      BY <2>1, <2>2
  <1>15. ASSUME NEW pc \in {"open", "startPcm", "read", "close"}, NEW arg \in BOOLEAN,
               Call(t, pc, arg)
        PROVE  ReleaseInv'
    <2>1. th[t].pc = "idle" /\ UNCHANGED release
      BY <1>15 DEF Call, globals, device, memory, flags, release, At
    <2>2. Quiet(pc)
      BY <1>15, <2>1, <1>0, MovesBy DEF Quiet, Holding, ClosePc
    <2> QED
      BY <2>2, <1>1 DEF Holding, ClosePc
  <1> QED
    BY <1>2, <1>3, <1>4, <1>5, <1>6, <1>7, <1>8, <1>9, <1>10, <1>11, <1>12, <1>13, <1>14, <1>15

\* The steps of a capture thread, but for those inside PcmClose.
LEMMA CaptureQuiet ==
  ASSUME ReleaseInv, AlsaTypeOK', NEW c \in Captures,
         Capture(c), ~Close(c)
  PROVE  ReleaseInv'
  <1>0. c \in Threads /\ AlsaTypeOK
    BY DEF Threads, ReleaseInv
  <1> DEFINE Quiet(pc) == Moves(c, pc) /\ th[c].pc \notin Holding /\ UNCHANGED release
  <1>1. \A pc : pc \notin Holding /\ Quiet(pc) => ReleaseInv'
    BY <1>0, QuietStep
  <1> HIDE DEF Quiet
  <1>2. CASE CaptureBegin(c)
    <2>1. Quiet("exit") \/ Quiet("loop")
      BY <1>2, <1>0, MovesBy DEF Quiet, CaptureBegin, globals, device, memory, flags, release, At, Holding, ClosePc
    <2> QED
      BY <2>1, <1>1 DEF Holding, ClosePc
  <1>3. CASE CaptureLoop(c)
    <2>1. Quiet("exit") \/ Quiet("device")
      BY <1>3, <1>0, MovesBy DEF Quiet, CaptureLoop, globals, device, memory, flags, release, At, Holding, ClosePc
    <2> QED
      BY <2>1, <1>1 DEF Holding, ClosePc
  <1>4. CASE CaptureDevice(c)
    <2>1. Quiet("write") \/ Quiet("deviceEnter")
      BY <1>4, <1>0, MovesBy DEF Quiet, CaptureDevice, globals, device, memory, flags, release, At, Holding, ClosePc
    <2> QED
      BY <2>1, <1>1 DEF Holding, ClosePc
  <1>5. CASE CaptureRead(c)
    <2>1. Quiet("write")
      BY <1>5, <1>0, MovesBy DEF Quiet, CaptureRead, globals, device, memory, flags, release, At, Holding, ClosePc
    <2> QED
      BY <2>1, <1>1 DEF Holding, ClosePc
  <1>6. CASE CaptureReadFails(c)
    <2>1. Quiet("close")
      BY <1>6, <1>0, MovesBy DEF Quiet, CaptureReadFails, globals, device, memory, flags, release, At, Holding, ClosePc
    <2> QED
      BY <2>1, <1>1 DEF Holding, ClosePc
  <1>7. CASE CaptureWrite(c)
    <2>1. Quiet("loop") \/ Quiet("writeEnter")
      BY <1>7, <1>0, MovesBy DEF Quiet, CaptureWrite, globals, device, memory, flags, release, At, Holding, ClosePc
    <2> QED
      BY <2>1, <1>1 DEF Holding, ClosePc
  <1>8. CASE CaptureEnter(c)
    <2>1. Quiet("logFull") \/ Quiet("writing")
      BY <1>8, <1>0, MovesBy DEF Quiet, CaptureEnter, globals, device, memory, flags, release, At, Holding, ClosePc
    <2> QED
      BY <2>1, <1>1 DEF Holding, ClosePc
  <1>9. CASE CaptureStore(c)
    <2>1. Quiet("loop")
      BY <1>9, <1>0, MovesBy DEF Quiet, CaptureStore, globals, device, memory, flags, release, At, Holding, ClosePc
    <2> QED
      BY <2>1, <1>1 DEF Holding, ClosePc
  <1>10. CASE CaptureOverflow(c)
    <2>1. Quiet("logFull")
      BY <1>10, <1>0, MovesBy DEF Quiet, CaptureOverflow, globals, device, memory, flags, release, At, Holding, ClosePc
    <2> QED
      BY <2>1, <1>1 DEF Holding, ClosePc
  <1>11. CASE CaptureDeviceEnter(c)
    <2>1. CASE gPcm = None
      BY <1>11, <2>1, <1>0, CrashStep DEF CaptureDeviceEnter, device, memory
    <2>2. CASE ~(gPcm = None)
      <3>1. Quiet("inread")
        BY <1>11, <2>2, <1>0, MovesBy DEF Quiet, CaptureDeviceEnter, globals, device, memory, flags, release, At, Holding, ClosePc
      <3> QED
        BY <3>1, <1>1 DEF Holding, ClosePc
    <2> QED
      BY <2>1, <2>2
  <1>12. CASE CaptureLog(c)
    <2>1. CASE LogShown /\ gQueue = None
      BY <1>12, <2>1, <1>0, CrashStep DEF CaptureLog, device, memory
    <2>2. CASE ~(LogShown /\ gQueue = None)
      <3>1. Quiet("loop")
        BY <1>12, <2>2, <1>0, MovesBy DEF Quiet, CaptureLog, globals, device, memory, flags, release, At, Holding, ClosePc
      <3> QED
        BY <3>1, <1>1 DEF Holding, ClosePc
    <2> QED
      BY <2>1, <2>2
  <1> QED
    BY <1>2, <1>3, <1>4, <1>5, <1>6, <1>7, <1>8, <1>9, <1>10, <1>11, <1>12 DEF Capture

\* A new handle or block has not been released.
LEMMA AcquireRelease ==
  ASSUME ReleaseInv, AlsaTypeOK', NEW t \in Users, Open(t) \/ StartBase(t) \/ Spawn(t)
  PROVE  ReleaseInv'
  <1>0. t \in Threads /\ AlsaTypeOK
    BY DEF Threads, ReleaseInv
  <1>1. CASE Open(t)
    <2>1. Moves(t, "idle") /\ th[t].pc = "opening"
      BY <1>0, <1>1, MovesBy DEF Open, At
    <2>2. /\ UNCHANGED <<gBase, gMutex, allocated, closes, frees, crashed>>
          /\ gPcm' \notin opened /\ opened \subseteq opened'
      BY <1>1, OneOfIsOne DEF Open, memory, flags
    <2>3. CrashInv' /\ HolderInv'
      BY <2>1, <2>2 DEF ReleaseInv, CrashInv, HolderInv, Moves, Holding, ClosePc
    <2>4. PcmInv'
      BY <2>2 DEF ReleaseInv, PcmInv
    <2>5. BaseInv'
      BY <2>1, <2>2 DEF ReleaseInv, BaseInv, Moves
    <2> QED
      BY <2>3, <2>4, <2>5 DEF ReleaseInv
  <1>2. CASE StartBase(t)
    <2>1. CASE ~th[t].ok
      BY <1>2, <2>1, CrashStep DEF StartBase, device
    <2>2. CASE th[t].ok
      <3>1. Moves(t, "startQueue") /\ th[t].pc = "startBase"
        BY <1>0, <1>2, <2>2, MovesBy DEF StartBase, At
      <3>2. /\ UNCHANGED <<gPcm, gMutex, opened, closes, frees, crashed>>
            /\ gBase' \notin allocated /\ allocated \subseteq allocated'
        BY <1>2, <2>2, OneOfIsOne DEF StartBase, device
      <3>3. CrashInv' /\ HolderInv'
        BY <3>1, <3>2 DEF ReleaseInv, CrashInv, HolderInv, Moves, Holding, ClosePc
      <3>4. PcmInv'
        BY <3>1, <3>2 DEF ReleaseInv, PcmInv, Moves
      <3>5. BaseInv'
        BY <3>2 DEF ReleaseInv, BaseInv
      <3> QED
        BY <3>3, <3>4, <3>5 DEF ReleaseInv
    <2> QED
      BY <2>1, <2>2
  <1>3. CASE Spawn(t)
    <2>1. PICK c \in Captures :
            /\ th[c].pc = "unborn"
            /\ th' = [th EXCEPT ![c].pc = "begin",
                               ![t] = [pc |-> "idle", ptr |-> None, ok |-> TRUE]]
      BY <1>3, OneOfIsOne DEF Spawn, At
    <2>2. c # t /\ c \in Threads /\ th \in [Threads -> Locals]
      BY <1>0, AlsaAssumption, TypeParts DEF Threads, ThreadsOK
    <2>3. /\ th'[c].pc = "begin" /\ th'[t].pc = "idle"
          /\ \A u \in Threads \ {c, t} : th'[u] = th[u]
      BY <1>0, <2>1, <2>2 DEF Locals
    <2>4. UNCHANGED release /\ th[t].pc = "spawn"
      BY <1>3 DEF Spawn, At, release, globals, device, memory, flags
    <2>5. CrashInv' /\ HolderInv'
      BY <1>0, <2>3, <2>4 DEF ReleaseInv, CrashInv, HolderInv, release, Holding, ClosePc
    <2>6. PcmInv' /\ BaseInv'
      BY <2>1, <2>3, <2>4 DEF ReleaseInv, PcmInv, BaseInv, release
    <2> QED
      BY <2>5, <2>6 DEF ReleaseInv
  <1> QED
    BY <1>1, <1>2, <1>3

\* PcmClose.  Only the holder of the mutex is between releasing and
\* forgetting, so the thread that releases finds nothing released.
LEMMA CloseRelease ==
  ASSUME ReleaseInv, AlsaTypeOK', NEW t \in Threads, Close(t)
  PROVE  ReleaseInv'
  <1>0. AlsaTypeOK /\ gMutex \in Threads \union {None} /\ None \notin Threads
    BY AlsaAssumption DEF Threads, ReleaseInv, AlsaTypeOK
  <1>1. CASE CloseFlag(t)
    <2>1. Moves(t, "closeLock") /\ th[t].pc = "close" /\ UNCHANGED release
      BY <1>1, <1>0, MovesBy DEF CloseFlag, At, release, device, memory
    <2> QED
      BY <2>1, QuietStep DEF Holding, ClosePc
  <1>2. CASE CloseLock(t)
    <2>1. Moves(t, "closePcm") /\ th[t].pc = "closeLock"
      BY <1>2, <1>0, MovesBy DEF CloseLock, At
    <2>2. gMutex = None /\ gMutex' = t /\ UNCHANGED <<gPcm, gBase, opened, allocated, closes, frees, crashed>>
      BY <1>2 DEF CloseLock, globals, device, memory, flags
    <2>3. CrashInv' /\ HolderInv'
      BY <1>0, <2>1, <2>2 DEF ReleaseInv, CrashInv, HolderInv, Moves, Holding, ClosePc
    <2>4. PcmInv'
      BY <1>0, <2>1, <2>2 DEF ReleaseInv, PcmInv, Moves
    <2>5. BaseInv'
      BY <1>0, <2>1, <2>2 DEF ReleaseInv, BaseInv, Moves
    <2> QED
      BY <2>3, <2>4, <2>5 DEF ReleaseInv
  <1>3. CASE ClosePcm(t)
    <2>1. th[t].pc = "closePcm" /\ gMutex = t /\ ~crashed
      BY <1>3, <1>0 DEF ClosePcm, At, ReleaseInv, HolderInv, CrashInv, Holding, ClosePc
    <2>2. \A u \in Threads : th[u].pc # "closeNull"
      BY <1>0, <2>1 DEF ReleaseInv, HolderInv, Holding, ClosePc
    <2>3. \A x \in Pcms : gPcm = x => closes[x] = 0
      BY <2>1, <2>2 DEF ReleaseInv, PcmInv
    <2>4. Moves(t, "closeNull") \/ (Moves(t, "closeQueue") /\ UNCHANGED closes)
      BY <1>3, <1>0, MovesBy DEF ClosePcm, At
    <2>5. /\ UNCHANGED <<gPcm, gBase, gMutex, opened, allocated, frees, crashed>>
          /\ gPcm = None => UNCHANGED closes
          /\ gPcm # None => /\ closes' = [closes EXCEPT ![gPcm] = @ + 1]
                           /\ Moves(t, "closeNull")
      BY <1>3, <1>0, MovesBy DEF ClosePcm, memory, flags, At
    <2>6. closes \in [Pcms -> Nat] /\ gPcm \in opened \union {None} /\ opened \subseteq Pcms
      BY <1>0 DEF AlsaTypeOK
    <2>7. CrashInv' /\ HolderInv'
      BY <2>1, <2>4, <2>5 DEF ReleaseInv, CrashInv, HolderInv, Moves
    <2>8. PcmInv'
      <3>1. CASE gPcm = None
        BY <2>1, <2>4, <2>5, <3>1 DEF ReleaseInv, PcmInv, Moves
      <3>2. CASE gPcm # None
        <4>1. closes[gPcm] = 0 /\ gPcm \in Pcms /\ gPcm \in opened
          BY <2>3, <2>6, <3>2
        <4>2. \A p \in Pcms : closes'[p] = IF p = gPcm THEN 1 ELSE closes[p]
          BY <2>5, <2>6, <3>2, <4>1
        <4> QED
          BY <2>5, <3>2, <4>1, <4>2 DEF ReleaseInv, PcmInv, Moves
      <3> QED
        BY <3>1, <3>2
    <2>9. BaseInv'
      BY <2>1, <2>4, <2>5 DEF ReleaseInv, BaseInv, Moves
    <2> QED
      BY <2>7, <2>8, <2>9 DEF ReleaseInv
  <1>4. CASE CloseNull(t)
    <2>1. Moves(t, "closeQueue") /\ th[t].pc = "closeNull"
      BY <1>4, <1>0, MovesBy DEF CloseNull, At
    <2>2. gPcm' = None /\ UNCHANGED <<gBase, gMutex, opened, allocated, closes, frees, crashed>>
      BY <1>4 DEF CloseNull, globals, device, memory, flags
    <2>3. CrashInv' /\ HolderInv'
      BY <1>0, <2>1, <2>2 DEF ReleaseInv, CrashInv, HolderInv, Moves, Holding, ClosePc
    <2>4. PcmInv'
      BY AlsaAssumption, <1>0, <2>1, <2>2 DEF ReleaseInv, PcmInv, Moves
    <2>5. BaseInv'
      BY <1>0, <2>1, <2>2 DEF ReleaseInv, BaseInv, Moves
    <2> QED
      BY <2>3, <2>4, <2>5 DEF ReleaseInv
  <1>5. CASE CloseQueue(t)
    <2>1. /\ Moves(t, "closeUnlock") \/ Moves(t, "closeFree")
          /\ th[t].pc = "closeQueue"
      BY <1>5, <1>0, MovesBy DEF CloseQueue, At
    <2>2. UNCHANGED <<gPcm, gBase, gMutex, opened, allocated, closes, frees, crashed>>
      BY <1>5 DEF CloseQueue, globals, device, memory, flags
    <2>3. CrashInv' /\ HolderInv'
      BY <1>0, <2>1, <2>2 DEF ReleaseInv, CrashInv, HolderInv, Moves, Holding, ClosePc
    <2>4. PcmInv'
      BY <1>0, <2>1, <2>2 DEF ReleaseInv, PcmInv, Moves
    <2>5. BaseInv'
      BY <1>0, <2>1, <2>2 DEF ReleaseInv, BaseInv, Moves
    <2> QED
      BY <2>3, <2>4, <2>5 DEF ReleaseInv
  <1>6. CASE CloseFree(t)
    <2>1. th[t].pc = "closeFree" /\ gMutex = t /\ ~crashed
      BY <1>6, <1>0 DEF CloseFree, At, ReleaseInv, HolderInv, CrashInv, Holding, ClosePc
    <2>2. \A u \in Threads : th[u].pc # "closeBase"
      BY <1>0, <2>1 DEF ReleaseInv, HolderInv, Holding, ClosePc
    <2>3. \A x \in Blocks : gBase = x => frees[x] = 0
      BY <2>1, <2>2 DEF ReleaseInv, BaseInv
    <2>4. Moves(t, "closeBase")
      BY <1>6, <1>0, MovesBy DEF CloseFree, At
    <2>5. /\ UNCHANGED <<gPcm, gBase, gMutex, opened, allocated, closes, crashed>>
          /\ frees' = IF gBase = None THEN frees ELSE [frees EXCEPT ![gBase] = @ + 1]
      BY <1>6 DEF CloseFree, device, flags
    <2>6. /\ frees \in [Blocks -> Nat] /\ gBase \in allocated \union {None}
          /\ allocated \subseteq Blocks
      BY <1>0 DEF AlsaTypeOK
    <2>7. CrashInv' /\ HolderInv'
      BY <2>1, <2>4, <2>5 DEF ReleaseInv, CrashInv, HolderInv, Moves
    <2>8. BaseInv'
      <3>1. CASE gBase = None
        BY <2>2, <2>5, <3>1 DEF ReleaseInv, BaseInv
      <3>2. CASE gBase # None
        <4>1. frees[gBase] = 0 /\ gBase \in Blocks /\ gBase \in allocated
          BY <2>3, <2>6, <3>2
        <4>2. \A b \in Blocks : frees'[b] = IF b = gBase THEN 1 ELSE frees[b]
          BY <2>5, <2>6, <3>2, <4>1
        <4> QED
          BY <2>4, <2>5, <4>1, <4>2 DEF ReleaseInv, BaseInv, Moves
      <3> QED
        BY <3>1, <3>2
    <2>9. PcmInv'
      BY <2>1, <2>4, <2>5 DEF ReleaseInv, PcmInv, Moves
    <2> QED
      BY <2>7, <2>8, <2>9 DEF ReleaseInv
  <1>7. CASE CloseBase(t)
    <2>1. Moves(t, "closeUnlock") /\ th[t].pc = "closeBase"
      BY <1>7, <1>0, MovesBy DEF CloseBase, At
    <2>2. gBase' = None /\ UNCHANGED <<gPcm, gMutex, opened, allocated, closes, frees, crashed>>
      BY <1>7 DEF CloseBase, globals, device, memory, flags
    <2>3. CrashInv' /\ HolderInv'
      BY <1>0, <2>1, <2>2 DEF ReleaseInv, CrashInv, HolderInv, Moves, Holding, ClosePc
    <2>4. PcmInv'
      BY <1>0, <2>1, <2>2 DEF ReleaseInv, PcmInv, Moves
    <2>5. BaseInv'
      BY AlsaAssumption, <1>0, <2>1, <2>2 DEF ReleaseInv, BaseInv, Moves
    <2> QED
      BY <2>3, <2>4, <2>5 DEF ReleaseInv
  <1>8. CASE CloseUnlock(t)
    <2>1. /\ Moves(t, "idle") \/ Moves(t, "exit")
          /\ th[t].pc = "closeUnlock"
      BY <1>8, <1>0, MovesBy DEF CloseUnlock, At
    <2>2. gMutex' = None /\ UNCHANGED <<gPcm, gBase, opened, allocated, closes, frees, crashed>>
      BY <1>8 DEF CloseUnlock, globals, device, memory, flags
    <2>3. CrashInv' /\ HolderInv'
      BY <1>0, <2>1, <2>2 DEF ReleaseInv, CrashInv, HolderInv, Moves, Holding, ClosePc
    <2>4. PcmInv'
      BY <1>0, <2>1, <2>2 DEF ReleaseInv, PcmInv, Moves
    <2>5. BaseInv'
      BY <1>0, <2>1, <2>2 DEF ReleaseInv, BaseInv, Moves
    <2> QED
      BY <2>3, <2>4, <2>5 DEF ReleaseInv
  <1> QED
    BY <1>1, <1>2, <1>3, <1>4, <1>5, <1>6, <1>7, <1>8 DEF Close

LEMMA ReleaseInvInit == AlsaInit => ReleaseInv
  <1> SUFFICES ASSUME AlsaInit PROVE ReleaseInv
    OBVIOUS
  <1>1. \A t \in Threads : th[t].pc \in {"idle", "unborn"}
    BY DEF AlsaInit
  <1>2. CrashInv /\ HolderInv
    BY <1>1 DEF AlsaInit, CrashInv, HolderInv, Holding, ClosePc
  <1>3. PcmInv /\ BaseInv
    BY DEF AlsaInit, PcmInv, BaseInv
  <1> QED
    BY <1>2, <1>3, InitOK DEF ReleaseInv

LEMMA ReleaseInvNext == ReleaseInv /\ [AlsaNext]_alsaVars => ReleaseInv'
  <1> SUFFICES ASSUME ReleaseInv, [AlsaNext]_alsaVars PROVE ReleaseInv'
    OBVIOUS
  <1>1. AlsaTypeOK'
    BY NextTypeOK DEF ReleaseInv
  <1>2. ASSUME NEW t \in Users, User(t) PROVE ReleaseInv'
    <2>1. CASE Open(t) \/ StartBase(t) \/ Spawn(t)
      BY <1>1, <2>1, AcquireRelease
    <2>2. CASE Close(t)
      BY <1>1, <2>2, CloseRelease DEF Threads
    <2> QED
      BY <1>1, <1>2, <2>1, <2>2, UserQuiet DEF User
  <1>3. ASSUME NEW c \in Captures, Capture(c) PROVE ReleaseInv'
    <2>1. CASE Close(c)
      BY <1>1, <2>1, CloseRelease DEF Threads
    <2> QED
      BY <1>1, <1>3, <2>1, CaptureQuiet
  <1>4. CASE UNCHANGED alsaVars
    BY <1>1, <1>4 DEF ReleaseInv, CrashInv, HolderInv, PcmInv, BaseInv,
       alsaVars, globals, device, memory, flags
  <1> QED
    BY <1>2, <1>3, <1>4 DEF AlsaNext

\* However many threads open, start, read and close in whatever order, no
\* handle is given to pcm_close twice and no block to delete[] twice: g_mutex
\* and the null assignments of PcmClose are enough (alsa_recorder.cpp:190-207).
THEOREM NothingReleasedTwice == AlsaSpec => []ReleasedOnce
  <1>1. ReleaseInv => ReleasedOnce
    BY DEF ReleaseInv, PcmInv, BaseInv, ReleasedOnce
  <1> QED
    BY <1>1, ReleaseInvInit, ReleaseInvNext, PTL DEF AlsaSpec

=============================================================================

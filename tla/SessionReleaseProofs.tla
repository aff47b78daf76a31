------------------------ MODULE SessionReleaseProofs ------------------------
(***************************************************************************)
(* What TLAPS proves about what is left when all sessions of RecordSession *)
(* are over: AllReleased, for any number of sessions, capture threads,     *)
(* handles, blocks and files, and whatever may fail, if the application    *)
(* calls startRecord and destroy only when nothing runs.                   *)
(***************************************************************************)
EXTENDS SessionLifeProofs

-----------------------------------------------------------------------------
(* Where a record thread is inside alsa_recorder.cpp, by its place outside. *)

OpenPc == {"open", "opening"}
SizePc == {"size"}
StartPc == Setting \union {"startBase", "startQueue", "spawn"}
ReadPc == {"read", "readClear", "readEnter", "reading"}

PlacesAt(pc) ==
  CASE pc = "opened"  -> OpenPc
    [] pc = "start"   -> SizePc
    [] pc = "started" -> StartPc
    [] pc = "process" -> ReadPc
    [] pc = "closed"  -> ClosePc
    [] OTHER          -> {}

PlaceInv == \A r \in RecordThreads : th[r].pc \in PlacesAt(rec[r].pc) \union {"idle", "dead"}

-----------------------------------------------------------------------------
(* While a session is set up, no capture thread is left of an earlier one. *)

SettingUp(r) ==
  \/ rec[r].pc \in {"begin", "open", "opened", "size", "start"}
  \/ On(r, "started") /\ th[r].pc # "idle"

CaptureRest == \A c \in Captures : th[c].pc \in {"unborn", "exit"}

CaptureInv == (ui = "create" \/ \E r \in RecordThreads : SettingUp(r)) => CaptureRest

-----------------------------------------------------------------------------
(* Whose the globals are.                                                  *)

\* A session between its start and its call of PcmClose.
Recording(r) ==
  \/ rec[r].pc \in LoopPc \ {"closed"}
  \/ rec[r].pc \in {"report", "tell"} /\ rec[r].say = "started"

\* A session at one of the places pcs of PcmStartRecord, or one that is recording
\* or at one of the places closing of PcmClose.
Holds(r, pcs, closing) ==
  \/ On(r, "started") /\ th[r].pc \in pcs \union {"idle"}
  \/ Recording(r)
  \/ On(r, "closed") /\ th[r].pc \in closing

HoldsPcm(r) ==
  \/ On(r, "opened") /\ th[r].pc = "idle"
  \/ rec[r].pc \in {"size", "start"}
  \/ Holds(r, StartPc, {"close", "closeLock", "closePcm", "closeNull"})
HoldsFlag(r) == Holds(r, {"startBase", "startQueue", "spawn"}, {"close"})
HoldsBase(r) == Holds(r, {"startQueue", "spawn"}, ClosePc \ {"closeUnlock"})
HoldsQueue(r) ==
  Holds(r, {"spawn"}, {"close", "closeLock", "closePcm", "closeNull", "closeQueue"})

OwnersInv ==
  /\ gPcm # None => \E r \in RecordThreads : HoldsPcm(r)
  /\ gRecording => \E r \in RecordThreads : HoldsFlag(r)
  /\ gBase # None => \E r \in RecordThreads : HoldsBase(r)
  /\ gQueue # None => \E r \in RecordThreads : HoldsQueue(r)

\* What was opened or allocated is in its global until it is released, the
\* mutex is held by the thread it names, and g_audio_queue and g_queue_base are
\* set together but on the way through PcmStartRecord and PcmClose.
KeptPcm ==
  /\ \A p \in opened : closes[p] # 0 \/ gPcm = p
  /\ \A t \in Threads : th[t].pc = "closeNull" => gPcm # None /\ closes[gPcm] # 0
KeptBase ==
  /\ \A b \in allocated : frees[b] # 0 \/ gBase = b
  /\ \A t \in Threads : th[t].pc = "closeBase" => gBase = None \/ frees[gBase] # 0
KeptMutex == gMutex # None => th[gMutex].pc \in Holding
KeptQueue ==
  gQueue = None /\ gBase # None =>
    \/ \E r \in RecordThreads : th[r].pc = "startQueue"
    \/ \E t \in Threads : th[t].pc \in {"closeFree", "closeBase"}

KeptInv == KeptPcm /\ KeptBase /\ KeptMutex /\ KeptQueue

\* After a start that failed, or with the process dead, nothing of this holds:
\* the device stays open, and g_is_recording may stay set.
Failures == {"openFailed", "startFailed"}
Failed(r) ==
  \/ rec[r].told \intersect Failures # {}
  \/ rec[r].pc \in {"report", "tell"} /\ rec[r].say \in Failures
Spoilt == crashed \/ \E r \in RecordThreads : Failed(r)

ReleasingInv == PlaceInv /\ (Spoilt \/ (CaptureInv /\ OwnersInv /\ KeptInv))

-----------------------------------------------------------------------------
(* The files.                                                              *)

\* A session that has closed its files, if it is one that was started.
PastFclose(r) ==
  \/ rec[r].pc \in {"fnull", "close", "closed", "stopped", "finish"}
  \/ rec[r].pc \in {"report", "tell"} /\ rec[r].say \in {"error", "stopped"}
  \/ On(r, "exit") /\ rec[r].told \intersect Failures = {}
Past == {r \in RecordThreads : PastFclose(r)}

FcloseInv ==
  /\ file \in fclosed => \E r \in RecordThreads : On(r, "fnull")
  /\ IsFiniteSet(fopened) /\ IsFiniteSet(Past)
  /\ Cardinality(fclosed) = Cardinality(Past)


-----------------------------------------------------------------------------
(* KeptInv.                                                                *)

owned == <<gPcm, gBase, gQueue, gMutex, opened, allocated, closes, frees>>
Busy == Holding \union {"startQueue"}

LEMMA KeptQuiet ==
  ASSUME AlsaTypeOK, KeptInv, UNCHANGED owned, NEW t \in Threads, NEW pc, Moves(t, pc),
         th[t].pc \notin Busy, pc \notin Busy
  PROVE  KeptInv'
  <1>1. \A u \in Threads : /\ th[u].pc \in Busy => th'[u].pc = th[u].pc
                           /\ th'[u].pc \in Busy => th'[u].pc = th[u].pc
    BY DEF Moves
  <1>2. KeptPcm' /\ KeptBase'
    BY <1>1 DEF KeptInv, KeptPcm, KeptBase, owned, Busy, Holding, ClosePc
  <1>3. KeptMutex'
    BY <1>1 DEF KeptInv, KeptMutex, owned, Busy, AlsaTypeOK
  <1>4. KeptQueue'
    BY <1>1 DEF KeptInv, KeptQueue, owned, Busy, Holding, ClosePc, RecordThreads, Threads
  <1> QED
    BY <1>2, <1>3, <1>4 DEF KeptInv

LEMMA KeptClose ==
  ASSUME ReleaseInv, KeptInv, NEW t \in Threads, Close(t)
  PROVE  KeptInv'
  <1>0. /\ AlsaTypeOK /\ HolderInv /\ gMutex \in Threads \union {None} /\ None \notin Threads
        /\ closes \in [Pcms -> Nat] /\ frees \in [Blocks -> Nat]
        /\ gPcm \in opened \union {None} /\ opened \subseteq Pcms
        /\ gBase \in allocated \union {None} /\ allocated \subseteq Blocks
        /\ None \notin Pcms /\ None \notin Blocks
    BY AlsaAssumption DEF Threads, ReleaseInv, AlsaTypeOK
  <1>1. CASE CloseFlag(t)
    <2>1. Moves(t, "closeLock") /\ th[t].pc = "close" /\ UNCHANGED owned
      BY <1>1, <1>0, MovesBy DEF CloseFlag, At, owned, device, memory
    <2> QED
      BY <1>0, <2>1, KeptQuiet DEF Busy, Holding, ClosePc
  <1>2. CASE CloseLock(t)
    <2>1. Moves(t, "closePcm") /\ th[t].pc = "closeLock"
      BY <1>2, <1>0, MovesBy DEF CloseLock, At
    <2>2. gMutex = None /\ gMutex' = t /\ UNCHANGED <<device, memory>>
      BY <1>2 DEF CloseLock
    <2>3. KeptPcm' /\ KeptBase'
      BY <2>1, <2>2 DEF KeptInv, KeptPcm, KeptBase, device, memory, Moves
    <2>4. KeptMutex' /\ KeptQueue'
      BY <2>1, <2>2 DEF KeptInv, KeptMutex, KeptQueue, RecordThreads, Threads,
         memory, Moves, Holding, ClosePc
    <2> QED
      BY <2>3, <2>4 DEF KeptInv
  <1>3. CASE ClosePcm(t)
    <2>1. th[t].pc = "closePcm" /\ UNCHANGED <<memory, flags, gPcm, opened>>
      BY <1>3 DEF ClosePcm, At
    <2>2. CASE gPcm = None
      <3>1. Moves(t, "closeQueue") /\ UNCHANGED closes
        BY <1>0, <1>3, <2>1, <2>2, MovesBy DEF ClosePcm
      <3>2. KeptPcm' /\ KeptBase'
        BY <2>1, <3>1 DEF KeptInv, KeptPcm, KeptBase, memory, Moves
      <3>3. KeptMutex' /\ KeptQueue'
        BY <1>0, <2>1, <3>1 DEF KeptInv, KeptMutex, KeptQueue, RecordThreads,
           Threads, memory, flags, Moves, Holding,
           ClosePc
      <3> QED
        BY <3>2, <3>3 DEF KeptInv
    <2>3. CASE gPcm # None
      <3>1. Moves(t, "closeNull") /\ closes' = [closes EXCEPT ![gPcm] = @ + 1]
        BY <1>0, <1>3, <2>1, <2>3, MovesBy DEF ClosePcm
      <3>2. gPcm \in Pcms /\ closes'[gPcm] # 0 /\ \A p \in Pcms : closes[p] # 0 => closes'[p] # 0
        BY <1>0, <2>3, <3>1
      <3>3. KeptPcm'
        BY <1>0, <2>1, <2>3, <3>1, <3>2 DEF KeptInv, KeptPcm
      <3>4. KeptBase'
        BY <2>1, <3>1 DEF KeptInv, KeptBase, memory, Moves
      <3>5. KeptMutex' /\ KeptQueue'
        BY <1>0, <2>1, <3>1 DEF KeptInv, KeptMutex, KeptQueue, RecordThreads,
           Threads, memory, flags, Moves, Holding,
           ClosePc
      <3> QED
        BY <3>3, <3>4, <3>5 DEF KeptInv
    <2> QED
      BY <2>2, <2>3
  <1>4. CASE CloseNull(t)
    <2>1. /\ th[t].pc = "closeNull" /\ Moves(t, "closeQueue") /\ gPcm' = None
          /\ UNCHANGED <<memory, flags, opened, closes>>
      BY <1>0, <1>4, MovesBy DEF CloseNull, At
    <2>2. \A u \in Threads : th'[u].pc # "closeNull"
      BY <1>0, <2>1 DEF HolderInv, Moves, Holding, ClosePc
    <2>3. KeptPcm'
      BY <1>0, <2>1, <2>2 DEF KeptInv, KeptPcm
    <2>4. KeptBase'
      BY <2>1 DEF KeptInv, KeptBase, memory, Moves
    <2>5. KeptMutex' /\ KeptQueue'
      BY <1>0, <2>1 DEF KeptInv, KeptMutex, KeptQueue, RecordThreads, Threads,
         memory, flags, Moves, Holding, ClosePc
    <2> QED
      BY <2>3, <2>4, <2>5 DEF KeptInv
  <1>5. CASE CloseQueue(t)
    <2>1. th[t].pc = "closeQueue" /\ UNCHANGED <<device, flags, gBase, allocated, frees>>
      BY <1>5 DEF CloseQueue, At
    <2>2. \E pc \in {"closeUnlock", "closeFree"} :
            Moves(t, pc) /\ (gQueue # None => pc = "closeFree")
      BY <1>0, <1>5, <2>1, MovesBy DEF CloseQueue
    <2>3. KeptPcm' /\ KeptBase'
      BY <2>1, <2>2 DEF KeptInv, KeptPcm, KeptBase, device, Moves
    <2>4. KeptMutex'
      BY <1>0, <2>1, <2>2 DEF KeptInv, KeptMutex, flags, Moves, Holding, ClosePc
    <2>5. KeptQueue'
      BY <2>1, <2>2 DEF KeptInv, KeptQueue, RecordThreads, Threads, Moves
    <2> QED
      BY <2>3, <2>4, <2>5 DEF KeptInv
  <1>6. CASE CloseFree(t)
    <2>1. /\ th[t].pc = "closeFree" /\ Moves(t, "closeBase")
          /\ UNCHANGED <<device, flags, gQueue, gBase, allocated>>
      BY <1>0, <1>6, MovesBy DEF CloseFree, At
    <2>2. /\ gBase # None => frees'[gBase] # 0
          /\ \A b \in Blocks : frees[b] # 0 => frees'[b] # 0
      BY <1>0, <1>6 DEF CloseFree
    <2>3. KeptPcm'
      BY <2>1 DEF KeptInv, KeptPcm, device, Moves
    <2>4. KeptBase'
      BY <1>0, <2>1, <2>2 DEF KeptInv, KeptBase
    <2>5. KeptMutex' /\ KeptQueue'
      BY <1>0, <2>1 DEF KeptInv, KeptMutex, KeptQueue, RecordThreads, Threads,
         flags, Moves, Holding, ClosePc
    <2> QED
      BY <2>3, <2>4, <2>5 DEF KeptInv
  <1>7. CASE CloseBase(t)
    <2>1. /\ th[t].pc = "closeBase" /\ Moves(t, "closeUnlock") /\ gBase' = None
          /\ UNCHANGED <<device, flags, gQueue, allocated, frees>>
      BY <1>0, <1>7, MovesBy DEF CloseBase, At
    <2>2. KeptPcm'
      BY <2>1 DEF KeptInv, KeptPcm, device, Moves
    <2>3. KeptBase' /\ KeptQueue'
      BY <1>0, <2>1 DEF KeptInv, KeptBase, KeptQueue, RecordThreads, Threads
    <2>4. KeptMutex'
      BY <1>0, <2>1 DEF KeptInv, KeptMutex, flags, Moves, Holding, ClosePc
    <2> QED
      BY <2>2, <2>3, <2>4 DEF KeptInv
  <1>8. CASE CloseUnlock(t)
    <2>1. th[t].pc = "closeUnlock" /\ gMutex' = None /\ UNCHANGED <<device, memory>>
      BY <1>8 DEF CloseUnlock, At
    <2>2. Moves(t, "idle") \/ Moves(t, "exit")
      BY <1>0, <1>8, <2>1, MovesBy DEF CloseUnlock
    <2>3. KeptPcm' /\ KeptBase'
      BY <2>1, <2>2 DEF KeptInv, KeptPcm, KeptBase, device, memory, Moves
    <2>4. KeptMutex' /\ KeptQueue'
      BY <2>1, <2>2 DEF KeptInv, KeptMutex, KeptQueue, RecordThreads, Threads,
         memory, Moves
    <2> QED
      BY <2>3, <2>4 DEF KeptInv
  <1> QED
    BY <1>1, <1>2, <1>3, <1>4, <1>5, <1>6, <1>7, <1>8 DEF Close

-----------------------------------------------------------------------------
(* PlaceInv.                                                               *)

LEMMA InnerPlaces ==
  ASSUME AlsaTypeOK, NEW r \in RecordThreads, Inner(r)
  PROVE  \E S \in {OpenPc, SizePc, StartPc, ReadPc} :
           th[r].pc \in S /\ th'[r].pc \in S \union {"idle", "dead"}
  <1>1. ThreadsOK /\ r \in Threads
    BY TypeParts DEF RecordThreads, Threads
  <1>2. ASSUME OpenCheck(r) \/ OpenFails(r) \/ Open(r)
        PROVE  th[r].pc \in OpenPc /\ th'[r].pc \in OpenPc \union {"idle", "dead"}
    <2>1. th[r].pc \in OpenPc
      BY <1>2 DEF OpenCheck, OpenFails, Open, At, OpenPc
    <2>2. Goto(r, "opening") \/ \E ok : Return(r, ok)
      BY <1>2 DEF OpenCheck, OpenFails, Open
    <2> QED
      BY <1>1, <2>1, <2>2, PlaceOf DEF OpenPc
  <1>3. ASSUME \/ StartPcm(r) \/ StartFlag(r) \/ StartSet(r) \/ StartBase(r)
               \/ StartQueue(r) \/ Spawn(r) \/ SpawnFails(r)
        PROVE  th[r].pc \in StartPc /\ th'[r].pc \in StartPc \union {"idle", "dead"}
    <2>1. th[r].pc \in StartPc
      BY <1>3 DEF StartPcm, StartFlag, StartSet, StartBase, StartQueue, Spawn, SpawnFails,
         At, StartPc, Setting
    <2>2. CASE Spawn(r)
      <3>1. PICK c \in Captures :
              th' = [th EXCEPT ![c].pc = "begin",
                               ![r] = [pc |-> "idle", ptr |-> None, ok |-> TRUE]]
        BY <2>2, OneOfIsOne DEF Spawn
      <3>2. th'[r].pc = "idle"
        BY <1>1, <3>1, AlsaAssumption DEF ThreadsOK, RecordThreads, Threads
      <3> QED
        BY <2>1, <3>2
    <2>3. CASE ~Spawn(r)
      <3>1. \/ \E pc \in {"startFlag", "startSet", "startBase", "startQueue", "spawn"} : Goto(r, pc)
            \/ \E ok : Return(r, ok)
            \/ Crash
        BY <1>3, <2>3 DEF StartPcm, StartFlag, StartSet, StartBase, StartQueue, SpawnFails
      <3> QED
        BY <1>1, <2>1, <3>1, PlaceOf DEF StartPc, Setting
    <2> QED
      BY <2>2, <2>3
  <1>4. ASSUME ReadCheck(r) \/ ReadClear(r) \/ ReadEnter(r) \/ ReadReturn(r)
        PROVE  th[r].pc \in ReadPc /\ th'[r].pc \in ReadPc \union {"idle", "dead"}
    <2>1. th[r].pc \in ReadPc
      BY <1>4 DEF ReadCheck, ReadClear, ReadEnter, ReadReturn, At, ReadPc
    <2>2. \/ \E pc \in {"readClear", "readEnter"} : Goto(r, pc)
          \/ \E p : Load(r, "reading", p)
          \/ \E ok : Return(r, ok)
          \/ Crash
      BY <1>4 DEF ReadCheck, ReadClear, ReadEnter, ReadReturn
    <2> QED
      BY <1>1, <2>1, <2>2, PlaceOf DEF ReadPc
  <1>5. ASSUME SizeUse(r)
        PROVE  th[r].pc \in SizePc /\ th'[r].pc \in SizePc \union {"idle", "dead"}
    <2>1. th[r].pc \in SizePc /\ (Crash \/ Return(r, TRUE))
      BY <1>5 DEF SizeUse, At, SizePc
    <2> QED
      BY <1>1, <2>1, PlaceOf
  <1> QED
    BY <1>2, <1>3, <1>4, <1>5 DEF Inner

LEMMA PlacesDisjoint ==
  /\ \A pc \in RecPc, S \in {OpenPc, SizePc, StartPc, ReadPc, ClosePc} :
       PlacesAt(pc) \intersect S # {} => PlacesAt(pc) = S
  /\ \A S \in {OpenPc, SizePc, StartPc, ReadPc, ClosePc} : "idle" \notin S /\ "dead" \notin S
  <1>1. \A pc : PlacesAt(pc) \in {OpenPc, SizePc, StartPc, ReadPc, ClosePc, {}}
    BY DEF PlacesAt
  <1>2. /\ (OpenPc \union SizePc) \intersect (StartPc \union ReadPc \union ClosePc) = {}
        /\ OpenPc \intersect SizePc = {}
        /\ StartPc \intersect (ReadPc \union ClosePc) = {}
        /\ ReadPc \intersect ClosePc = {}
    BY DEF OpenPc, SizePc, StartPc, Setting, ReadPc, ClosePc
  <1>3. \A S \in {OpenPc, SizePc, StartPc, ReadPc, ClosePc} : "idle" \notin S /\ "dead" \notin S
    BY DEF OpenPc, SizePc, StartPc, Setting, ReadPc, ClosePc
  <1> QED
    BY <1>1, <1>2, <1>3

LEMMA PlaceTable ==
  /\ PlacesAt("opened") = OpenPc /\ PlacesAt("start") = SizePc
  /\ PlacesAt("started") = StartPc
  /\ PlacesAt("process") = ReadPc /\ PlacesAt("closed") = ClosePc
  /\ \A pc \in RecPc \ {"opened", "start", "started", "process", "closed"} : PlacesAt(pc) = {}
  BY DEF PlacesAt

\* A step of a record thread outside alsa_recorder.cpp, while the process lives.
LEMMA RecordPlaces ==
  ASSUME SessionTypeOK, NEW r \in RecordThreads, Record(r), ~Fault
  PROVE  /\ th[r].pc = "idle" /\ UNCHANGED globals
         /\ \A t \in Threads \ {r} : th'[t] = th[t]
         /\ \/ th'[r].pc = "idle"
            \/ RecOpen(r) /\ rec'[r].pc = "opened" /\ th'[r].pc = "open"
            \/ RecSize(r) /\ rec'[r].pc = "start" /\ th'[r].pc = "size"
            \/ RecStart(r) /\ rec'[r].pc = "started" /\ th'[r].pc = "startPcm"
            \/ RecRead(r) /\ rec'[r].pc = "process" /\ th'[r].pc = "read"
            \/ RecClose(r) /\ rec'[r].pc = "closed" /\ th'[r].pc = "close"
  <1>0. RecOK /\ ThreadsOK /\ r \in Threads
    BY SessionTypeParts, TypeParts DEF RecordThreads, Threads
  <1>1. th[r].pc = "idle"
    BY DEF Record, RecBegin, RecOpen, RecOpened, RecSize, RecStart, RecStarted,
       RecLoop, RecCheck, RecRead, RecProcess, RecAlarm, RecFeed, RecEngine,
       RecEngineTell, RecFclose, RecFnull, RecClose, RecClosed, RecStopped,
       RecFinish, RecReport, RecTell, Between, Call, SizeCheck, At
  <1>2. CASE RecOpen(r)
    <2>1. Call(r, "open", FALSE) /\ Step(r, "opened")
      BY <1>2 DEF RecOpen
    <2> QED
      BY <1>0, <1>1, <1>2, <2>1, PlaceOf, StepSays DEF Call
  <1>3. CASE RecStart(r)
    <2>1. Call(r, "startPcm", th[r].ok) /\ Step(r, "started")
      BY <1>3 DEF RecStart
    <2> QED
      BY <1>0, <1>1, <1>3, <2>1, PlaceOf, StepSays DEF Call
  <1>4. CASE RecRead(r)
    <2>1. Call(r, "read", clearBuffer) /\ Step(r, "process")
      BY <1>4 DEF RecRead
    <2> QED
      BY <1>0, <1>1, <1>4, <2>1, PlaceOf, StepSays DEF Call
  <1>5. CASE RecClose(r)
    <2>1. Call(r, "close", FALSE) /\ Step(r, "closed")
      BY <1>5 DEF RecClose
    <2> QED
      BY <1>0, <1>1, <1>5, <2>1, PlaceOf, StepSays DEF Call
  <1>6. CASE RecSize(r)
    <2>1. (Return(r, FALSE) \/ Goto(r, "size")) /\ UNCHANGED globals /\ Step(r, "start")
      BY <1>6 DEF RecSize, SizeCheck
    <2> QED
      BY <1>0, <1>1, <1>6, <2>1, PlaceOf, StepSays
  <1>7. CASE ~(RecOpen(r) \/ RecStart(r) \/ RecRead(r) \/ RecClose(r) \/ RecSize(r))
    <2>1. UNCHANGED alsaVars
      BY <1>7 DEF Record, RecBegin, RecOpened, RecStarted, RecLoop, RecCheck, RecProcess,
         RecAlarm, RecFeed, RecEngine, RecEngineTell, RecFclose, RecFnull, RecClosed,
         RecStopped, RecFinish, RecReport, RecTell, Between
    <2> QED
      BY <1>1, <2>1 DEF alsaVars
  <1> QED
    BY <1>2, <1>3, <1>4, <1>5, <1>6, <1>7

LEMMA PlaceInvNext == SessionTypeOK /\ PlaceInv /\ [Next]_vars => PlaceInv'
  <1> SUFFICES ASSUME SessionTypeOK, PlaceInv, [Next]_vars PROVE PlaceInv'
    OBVIOUS
  <1>0. RecOK /\ AlsaTypeOK /\ ThreadsOK
    BY SessionTypeParts, TypeParts
  <1>1. CASE Ui
    <2>1. th' = th
      BY <1>1, UiAlsaStep DEF alsaVars
    <2>2. CASE UNCHANGED rec
      BY <2>1, <2>2 DEF PlaceInv
    <2>3. ASSUME NEW r \in RecordThreads, On(r, "unborn"), Step(r, "begin") PROVE PlaceInv'
      <3>1. rec'[r].pc = "begin" /\ \A q \in RecordThreads \ {r} : rec'[q] = rec[q]
        BY <1>0, <2>3, StepOK DEF RecPc
      <3>2. th[r].pc \in {"idle", "dead"}
        BY <2>3, PlaceTable DEF PlaceInv, On, RecPc
      <3> QED
        BY <2>1, <3>1, <3>2 DEF PlaceInv
    <2> QED
      BY <1>1, <2>2, <2>3, UiRec
  <1>2. ASSUME NEW r \in RecordThreads, Record(r) PROVE PlaceInv'
    <2>1. CASE Fault
      BY <1>0, <2>1, PlaceOf DEF Fault, RecordThreads, Threads, PlaceInv
    <2>2. CASE ~Fault
      <3>1. th'[r].pc \in PlacesAt(rec'[r].pc) \union {"idle", "dead"}
        BY <1>2, <2>2, RecordPlaces, PlaceTable DEF OpenPc, SizePc, StartPc, Setting,
           ReadPc, ClosePc
      <3>2. \A q \in RecordThreads \ {r} : rec'[q] = rec[q] /\ th'[q] = th[q]
        BY <1>2, <2>2, RecordPlaces, RecordAlone DEF RecordThreads, Threads
      <3> QED
        BY <3>1, <3>2 DEF PlaceInv
    <2> QED
      BY <2>1, <2>2
  <1>3. ASSUME NEW r \in RecordThreads, InAlsa(r) PROVE PlaceInv'
    <2>1. rec' = rec /\ rec[r].pc \in RecPc
      BY <1>0, <1>3 DEF InAlsa, sessionVars, RecOK, RecLocals
    <2>2. /\ OthersStay(r)
          /\ \E S \in {OpenPc, SizePc, StartPc, ReadPc, ClosePc} :
               th[r].pc \in S /\ th'[r].pc \in S \union {"idle", "dead"}
      <3>1. CASE Close(r)
        BY <1>0, <3>1, CloseMoves DEF RecordThreads, Threads
      <3>2. CASE Inner(r)
        BY <1>0, <3>2, InnerMoves, InnerPlaces
      <3> QED
        BY <1>3, <3>1, <3>2 DEF InAlsa, Inner
    <2>3. th'[r].pc \in PlacesAt(rec[r].pc) \union {"idle", "dead"}
      BY <2>1, <2>2, PlacesDisjoint DEF PlaceInv
    <2> QED
      BY <2>1, <2>2, <2>3 DEF PlaceInv, OthersStay
  <1>4. ASSUME NEW c \in Captures, CaptureStep(c) PROVE PlaceInv'
    BY <1>0, <1>4, CaptureMoves DEF CaptureStep, sessionVars, PlaceInv
  <1>5. CASE UNCHANGED vars
    BY <1>5 DEF vars, alsaVars, sessionVars, PlaceInv
  <1> QED
    BY <1>1, <1>2, <1>3, <1>4, <1>5 DEF Next

-----------------------------------------------------------------------------
(* The way of a session through record().                                  *)

InLoop == {"loop", "check", "read", "process", "alarm", "feed", "engine", "engineTell"}
Reporting(s, says) == s.pc \in {"report", "tell"} /\ s.say \in says

\* Where a session goes on, from its record s to its record t.
GoesOn(s, t) ==
  \/ s.pc = "begin" /\ t.pc = "open"
  \/ s.pc = "open" /\ t.pc = "opened"
  \/ s.pc = "opened" /\ (t.pc = "size" \/ Reporting(t, {"openFailed"}))
  \/ s.pc = "size" /\ t.pc = "start"
  \/ s.pc = "start" /\ t.pc = "started"
  \/ s.pc = "started" /\ Reporting(t, {"started", "startFailed"})
  \/ s.pc \in InLoop /\ t.pc \in InLoop \union {"fclose"}
  \/ s.pc = "fclose" /\ t.pc = "fnull"
  \/ s.pc = "fnull" /\ t.pc = "close"
  \/ s.pc = "close" /\ t.pc = "closed"
  \/ s.pc = "closed" /\ (t.pc = "stopped" \/ Reporting(t, {"error"}))
  \/ s.pc = "stopped" /\ (t.pc = "finish" \/ Reporting(t, {"stopped"}))
  \/ s.pc = "finish" /\ t.pc = "exit"
  \/ s.pc = "report" /\ Reporting(t, {s.say})

LEMMA RecordGoesOn ==
  ASSUME SessionTypeOK, CanTell, NEW r \in RecordThreads, Record(r), ~Fault
  PROVE  \/ GoesOn(rec[r], rec'[r]) /\ rec'[r].told = rec[r].told
         \/ /\ rec[r].pc = "tell" /\ rec'[r].pc = AfterReport[rec[r].say]
            /\ rec'[r].told = rec[r].told \union {rec[r].say}
  <1>0. RecOK
    BY SessionTypeParts
  <1>1. CASE RecBegin(r) \/ RecOpen(r) \/ RecSize(r) \/ RecStart(r)
    BY <1>0, <1>1, StepSays DEF RecBegin, RecOpen, RecSize, RecStart, On, GoesOn
  <1>2. CASE RecOpened(r) \/ RecStarted(r)
    <2>1. CASE RecOpened(r)
      <3>1. rec[r].pc = "opened" /\ (Step(r, "size") \/ Report(r, "openFailed"))
        BY <2>1 DEF RecOpened, On
      <3> QED
        BY <1>0, <3>1, StepSays DEF GoesOn, Reporting
    <2>2. CASE RecStarted(r)
      <3>1. rec[r].pc = "started" /\ (Report(r, "started") \/ Report(r, "startFailed"))
        BY <2>2 DEF RecStarted, On
      <3> QED
        BY <1>0, <3>1, StepSays DEF GoesOn, Reporting
    <2> QED
      BY <1>2, <2>1, <2>2
  <1>3. CASE \/ RecLoop(r) \/ RecCheck(r) \/ RecRead(r) \/ RecAlarm(r) \/ RecFeed(r)
             \/ RecEngine(r) \/ RecEngineTell(r)
    <2>1. rec[r].pc \in InLoop /\ \E pc \in InLoop \union {"fclose"} : Step(r, pc)
      BY <1>3 DEF RecLoop, RecCheck, RecRead, RecAlarm, RecFeed, RecEngine, RecEngineTell,
         On, InLoop
    <2> QED
      BY <1>0, <2>1, StepSays DEF GoesOn
  <1>4. CASE RecProcess(r)
    <2>1. rec[r].pc = "process"
      BY <1>4 DEF RecProcess, On
    <2>2. \/ Step(r, "loop")
          \/ \E pc \in {"feed", "alarm"} : rec' = [rec EXCEPT ![r].pc = pc, ![r].first = FALSE]
      BY <1>4 DEF RecProcess
    <2>3. rec'[r].pc \in {"loop", "feed", "alarm"} /\ rec'[r].told = rec[r].told
      BY <1>0, <2>2 DEF RecOK, RecLocals, Step
    <2> QED
      BY <2>1, <2>3 DEF GoesOn, InLoop
  <1>5. CASE RecFclose(r) \/ RecFnull(r) \/ RecClose(r) \/ RecFinish(r)
    BY <1>0, <1>5, StepSays DEF RecFclose, RecFnull, RecClose, RecFinish, On, GoesOn
  <1>6. CASE RecClosed(r)
    <2>1. rec[r].pc = "closed" /\ (Step(r, "stopped") \/ Report(r, "error"))
      BY <1>6 DEF RecClosed, On
    <2> QED
      BY <1>0, <2>1, StepSays DEF GoesOn, Reporting
  <1>7. CASE RecStopped(r)
    <2>1. rec[r].pc = "stopped" /\ (Step(r, "finish") \/ Report(r, "stopped"))
      BY <1>7 DEF RecStopped, On
    <2> QED
      BY <1>0, <2>1, StepSays DEF GoesOn, Reporting
  <1>8. CASE RecReport(r)
    <2>1. rec[r].pc = "report" /\ Step(r, "tell")
      BY <1>8 DEF RecReport, On, CanTell
    <2> QED
      BY <1>0, <2>1, StepSays DEF GoesOn, Reporting
  <1>9. CASE RecTell(r)
    BY <1>0, <1>9 DEF RecTell, On, RecOK, RecLocals
  <1> QED
    BY <1>1, <1>2, <1>3, <1>4, <1>5, <1>6, <1>7, <1>8, <1>9 DEF Record

\* A thread that makes a step is alive, and so is the process.
LEMMA Alive ==
  ASSUME ReleaseInv
  PROVE  /\ \A r \in RecordThreads : Record(r) \/ InAlsa(r) => ~crashed
         /\ \A c \in Captures : CaptureStep(c) => ~crashed
  <1>0. AlsaTypeOK /\ \A t \in Threads : th[t].pc # "dead" => ~crashed
    BY DEF ReleaseInv, CrashInv
  <1>1. ASSUME NEW r \in RecordThreads, Record(r) PROVE th[r].pc = "idle"
    BY <1>1 DEF Record, RecBegin, RecOpen, RecOpened, RecSize, RecStart, RecStarted,
       RecLoop, RecCheck, RecRead, RecProcess, RecAlarm, RecFeed, RecEngine,
       RecEngineTell, RecFclose, RecFnull, RecClose, RecClosed, RecStopped,
       RecFinish, RecReport, RecTell, Between, Call, SizeCheck, At
  <1>2. ASSUME NEW r \in RecordThreads, InAlsa(r) PROVE th[r].pc # "dead"
    <2>1. CASE Close(r)
      BY <1>0, <2>1, CloseMoves DEF ClosePc, RecordThreads, Threads
    <2>2. CASE Inner(r)
      BY <1>0, <2>2, InnerMoves
    <2> QED
      BY <1>2, <2>1, <2>2 DEF InAlsa, Inner
  <1>3. ASSUME NEW c \in Captures, CaptureStep(c) PROVE th[c].pc \notin {"dead", "unborn", "exit"}
    <2>1. CASE Close(c)
      BY <1>0, <2>1, CloseMoves DEF ClosePc, Threads
    <2>2. CASE ~Close(c)
      BY <1>3, <2>2 DEF CaptureStep, Capture, CaptureBegin, CaptureLoop, CaptureDevice,
         CaptureDeviceEnter, CaptureRead, CaptureReadFails, CaptureWrite, CaptureEnter,
         CaptureStore, CaptureOverflow, CaptureLog, At
    <2> QED
      BY <2>1, <2>2
  <1> QED
    BY <1>0, <1>1, <1>2, <1>3 DEF RecordThreads, Threads

LEMMA SpoiltStays ==
  ASSUME SessionTypeOK, ReleaseInv, EngineInv, [Next]_vars, Spoilt
  PROVE  Spoilt'
  <1>0. RecOK
    BY SessionTypeParts
  <1>1. CASE Ui
    <2>1. crashed' = crashed
      BY <1>1, UiAlsaStep DEF alsaVars, globals, flags
    <2>2. CASE UNCHANGED rec
      BY <2>1, <2>2 DEF Spoilt, Failed
    <2>3. ASSUME NEW r \in RecordThreads, On(r, "unborn"), Step(r, "begin") PROVE Spoilt'
      <3>1. rec'[r].told = rec[r].told /\ \A q \in RecordThreads \ {r} : rec'[q] = rec[q]
        BY <1>0, <2>3, StepSays, StepOK DEF RecPc
      <3>2. \A q \in RecordThreads : Failed(q) => Failed(q)'
        BY <2>3, <3>1 DEF Failed, On
      <3> QED
        BY <2>1, <3>2 DEF Spoilt
    <2> QED
      BY <1>1, <2>2, <2>3, UiRec
  <1>2. ASSUME NEW r \in RecordThreads, Record(r) PROVE Spoilt'
    <2>1. CASE Fault
      BY <2>1 DEF Fault, Crash, Spoilt
    <2>2. CASE ~Fault
      <3>1. CanTell
        BY <1>2, RecordAlone DEF EngineInv, InitMeans, InitHeld, CanTell
      <3>2. Failed(r) => Failed(r)'
        <4>1. CASE GoesOn(rec[r], rec'[r]) /\ rec'[r].told = rec[r].told
          BY <4>1 DEF Failed, GoesOn, Reporting, InLoop
        <4>2. CASE rec[r].pc = "tell" /\ rec'[r].told = rec[r].told \union {rec[r].say}
          BY <4>2 DEF Failed
        <4> QED
          BY <1>2, <2>2, <3>1, <4>1, <4>2, RecordGoesOn
      <3>3. \A q \in RecordThreads \ {r} : Failed(q) => Failed(q)'
        BY <1>2, RecordAlone DEF Failed
      <3> QED
        BY <1>2, <3>2, <3>3, Alive DEF Spoilt
    <2> QED
      BY <2>1, <2>2
  <1>3. CASE UNCHANGED sessionVars /\ ~crashed
    BY <1>3 DEF sessionVars, Spoilt, Failed
  <1>4. CASE UNCHANGED vars
    BY <1>4 DEF vars, sessionVars, alsaVars, globals, flags, Spoilt, Failed
  <1> QED
    BY <1>1, <1>2, <1>3, <1>4, Alive DEF Next, InAlsa, CaptureStep

-----------------------------------------------------------------------------
(* OwnersInv.                                                              *)

\* The calls that lead to and from a session's time with the device.
LEMMA Enters ==
  ASSUME SessionTypeOK, NEW r \in RecordThreads, Record(r)
  PROVE  /\ On(r, "start") => th'[r].pc = "startPcm"
         /\ On(r, "close") => th'[r].pc = "close"
  <1>0. ThreadsOK /\ r \in Threads
    BY SessionTypeParts, TypeParts DEF RecordThreads, Threads
  <1>1. /\ On(r, "start") => RecStart(r)
        /\ On(r, "close") => RecClose(r)
    BY DEF Record, RecBegin, RecOpen, RecOpened, RecSize, RecStart, RecStarted,
       RecLoop, RecCheck, RecRead, RecProcess, RecAlarm, RecFeed, RecEngine,
       RecEngineTell, RecFclose, RecFnull, RecClose, RecClosed, RecStopped,
       RecFinish, RecReport, RecTell, On
  <1>2. /\ RecStart(r) => Call(r, "startPcm", th[r].ok)
        /\ RecClose(r) => Call(r, "close", FALSE)
    BY DEF RecStart, RecClose
  <1> QED
    BY <1>0, <1>1, <1>2, PlaceOf

\* A session keeps what it has while it moves outside alsa_recorder.cpp, unless
\* it fails to start.
LEMMA RecordHolds ==
  ASSUME SessionTypeOK, CanTell, NEW r \in RecordThreads, Record(r), ~Fault, ~Failed(r)',
         NEW pcs, NEW closing,
         "close" \in closing, "idle" \notin closing, Holds(r, pcs, closing)
  PROVE  Holds(r, pcs, closing)'
  <1>0. th[r].pc = "idle" /\ rec[r].say \in Reports
    BY RecordPlaces, SessionTypeParts DEF RecOK, RecLocals
  <1>1. CASE On(r, "started")
    <2>1. Reporting(rec'[r], {"started", "startFailed"})
      BY <1>1, RecordGoesOn DEF On, GoesOn, InLoop
    <2>2. rec'[r].say = "started"
      BY <2>1 DEF Failed, Failures, Reporting
    <2> QED
      BY <2>1, <2>2 DEF Holds, Recording, Reporting
  <1>2. CASE rec[r].pc \in LoopPc \ {"closed", "close"}
    <2>1. rec'[r].pc \in LoopPc \ {"closed"}
      BY <1>2, RecordGoesOn DEF GoesOn, InLoop, LoopPc, Reporting
    <2> QED
      BY <2>1 DEF Holds, Recording
  <1>3. CASE rec[r].pc = "close"
    <2>1. rec'[r].pc = "closed"
      BY <1>3, RecordGoesOn DEF GoesOn, InLoop, Reporting
    <2>2. th'[r].pc = "close"
      BY <1>3, Enters DEF On
    <2> QED
      BY <2>1, <2>2 DEF Holds, On
  <1>4. CASE rec[r].pc \in {"report", "tell"} /\ rec[r].say = "started"
    <2>1. Reporting(rec'[r], {"started"}) \/ rec'[r].pc = "loop"
      BY <1>4, RecordGoesOn, AfterReportOK DEF GoesOn, InLoop
    <2> QED
      BY <2>1 DEF Holds, Recording, Reporting, LoopPc
  <1> QED
    BY <1>0, <1>1, <1>2, <1>3, <1>4 DEF Holds, Recording, LoopPc

HoldsAny(r) == HoldsPcm(r) \/ HoldsFlag(r) \/ HoldsBase(r) \/ HoldsQueue(r)

LEMMA HolderRuns ==
  ASSUME NEW r \in RecordThreads, HoldsAny(r)
  PROVE  Running(r)
  BY DEF HoldsAny, HoldsPcm, HoldsFlag, HoldsBase, HoldsQueue, Holds,
     Recording, On, LoopPc,
     Running

LEMMA RecordOwners ==
  ASSUME SessionTypeOK, CanTell, OwnersInv, NEW r \in RecordThreads, Record(r), ~Fault,
         ~Failed(r)'
  PROVE  OwnersInv'
  <1>1. UNCHANGED <<gPcm, gRecording, gBase, gQueue>>
    BY RecordPlaces DEF globals, device, memory, flags
  <1>2. \A q \in RecordThreads \ {r} : rec'[q] = rec[q] /\ th'[q] = th[q]
    BY RecordAlone, RecordPlaces DEF RecordThreads, Threads
  <1>3. /\ HoldsFlag(r) => HoldsFlag(r)'
        /\ HoldsBase(r) => HoldsBase(r)'
        /\ HoldsQueue(r) => HoldsQueue(r)'
    BY RecordHolds DEF HoldsFlag, HoldsBase, HoldsQueue, ClosePc
  <1>4. HoldsPcm(r) => HoldsPcm(r)'
    <2>1. CASE Holds(r, StartPc, {"close", "closeLock", "closePcm", "closeNull"})
      BY <2>1, RecordHolds DEF HoldsPcm
    <2>2. CASE On(r, "opened")
      <3>1. rec'[r].pc = "size"
        BY <2>2, RecordGoesOn DEF On, GoesOn, InLoop, Failed, Failures, Reporting
      <3> QED
        BY <3>1 DEF HoldsPcm
    <2>3. CASE rec[r].pc = "size"
      BY <2>3, RecordGoesOn DEF On, GoesOn, InLoop, HoldsPcm, Reporting
    <2>4. CASE rec[r].pc = "start"
      <3>1. rec'[r].pc = "started" /\ th'[r].pc = "startPcm"
        BY <2>4, RecordGoesOn, Enters DEF On, GoesOn, InLoop, Reporting
      <3> QED
        BY <3>1 DEF HoldsPcm, Holds, On, StartPc, Setting
    <2> QED
      BY <2>1, <2>2, <2>3, <2>4 DEF HoldsPcm
  <1>5. \A q \in RecordThreads :
          /\ HoldsPcm(q) => HoldsPcm(q)'
          /\ HoldsFlag(q) => HoldsFlag(q)'
          /\ HoldsBase(q) => HoldsBase(q)'
          /\ HoldsQueue(q) => HoldsQueue(q)'
    BY <1>2, <1>3, <1>4 DEF HoldsPcm, HoldsFlag, HoldsBase, HoldsQueue, Holds,
       Recording, On
  <1> QED
    BY <1>1, <1>5 DEF OwnersInv

\* The order in which a session takes what it needs in PcmStartRecord.
LEMMA TakesInOrder ==
  ASSUME AlsaTypeOK, NEW r \in RecordThreads, Inner(r), ~crashed'
  PROVE  /\ th[r].pc \in {"startBase", "startQueue", "spawn"} =>
              th'[r].pc \in {"startQueue", "spawn", "idle"}
         /\ th[r].pc \in {"startQueue", "spawn"} => th'[r].pc \in {"spawn", "idle"}
         /\ th[r].pc = "spawn" => th'[r].pc = "idle"
         /\ gPcm' # gPcm => th[r].pc = "opening" /\ th'[r].pc = "idle"
         /\ gRecording' # gRecording => th[r].pc = "startSet" /\ th'[r].pc = "startBase"
         /\ gBase' # gBase => th[r].pc = "startBase" /\ th'[r].pc = "startQueue"
         /\ gQueue' # gQueue => th[r].pc = "startQueue" /\ th'[r].pc = "spawn"
  <1>1. ThreadsOK /\ r \in Threads
    BY TypeParts DEF RecordThreads, Threads
  <1>2. CASE StartSet(r)
    BY <1>1, <1>2, PlaceOf DEF StartSet, device, memory, At
  <1>3. CASE StartBase(r)
    <2>1. Goto(r, "startQueue") /\ th[r].pc = "startBase"
      BY <1>3 DEF StartBase, Crash, At
    <2> QED
      BY <1>1, <1>3, <2>1, PlaceOf DEF StartBase, device
  <1>4. CASE StartQueue(r)
    BY <1>1, <1>4, PlaceOf DEF StartQueue, device, flags, At
  <1>5. CASE Spawn(r)
    <2>1. PICK c \in Captures :
            th' = [th EXCEPT ![c].pc = "begin",
                             ![r] = [pc |-> "idle", ptr |-> None, ok |-> TRUE]]
      BY <1>5, OneOfIsOne DEF Spawn
    <2>2. th'[r].pc = "idle"
      BY <1>1, <2>1, AlsaAssumption DEF ThreadsOK, RecordThreads, Threads
    <2> QED
      BY <1>5, <2>2 DEF Spawn, globals, device, memory, flags, At
  <1>6. CASE SpawnFails(r)
    BY <1>1, <1>6, PlaceOf DEF SpawnFails, globals, device, memory, flags, At
  <1>7. CASE Open(r)
    BY <1>1, <1>7, PlaceOf DEF Open, memory, flags, At
  <1>8. CASE OpenCheck(r) \/ OpenFails(r) \/ StartPcm(r) \/ StartFlag(r)
             \/ ReadCheck(r) \/ ReadClear(r) \/ ReadEnter(r) \/ ReadReturn(r) \/ SizeUse(r)
    <2>1. th[r].pc \notin {"startBase", "startQueue", "spawn"}
      BY <1>8 DEF OpenCheck, OpenFails, StartPcm, StartFlag, ReadCheck, ReadClear,
         ReadEnter, ReadReturn, SizeUse, At
    <2>2. UNCHANGED <<gPcm, gRecording, gBase, gQueue>>
      BY <1>8 DEF OpenCheck, OpenFails, StartPcm, StartFlag, ReadCheck, ReadClear,
         ReadEnter, ReadReturn, SizeUse, globals, device, memory, flags
    <2> QED
      BY <2>1, <2>2
  <1> QED
    BY <1>2, <1>3, <1>4, <1>5, <1>6, <1>7, <1>8 DEF Inner

\* Such a step moves no other thread, but for the one that is created.
Spawned(r, c) ==
  /\ th[r].pc = "spawn" /\ th'[r].pc = "idle"
  /\ th[c].pc = "unborn" /\ th'[c].pc = "begin"
  /\ \A u \in Threads \ {r, c} : th'[u].pc = th[u].pc

LEMMA InnerGoes ==
  ASSUME AlsaTypeOK, NEW r \in RecordThreads, Inner(r), ~crashed'
  PROVE  /\ ~Spawn(r) => \E pc \in OpenPc \union SizePc \union StartPc \union ReadPc \union {"idle"} :
                           Moves(r, pc)
         /\ Spawn(r) => \E c \in Captures : Spawned(r, c)
  <1>0. /\ ThreadsOK /\ r \in Threads /\ th[r].pc # "dead"
        /\ {"idle", "opening", "startFlag", "startSet", "startBase", "startQueue", "spawn",
            "readClear", "readEnter", "reading"}
             \subseteq OpenPc \union SizePc \union StartPc \union ReadPc \union {"idle"}
    BY TypeParts, InnerMoves DEF RecordThreads, Threads, OpenPc, StartPc, Setting, ReadPc
  <1>1. CASE Spawn(r)
    <2>1. PICK c \in Captures :
            /\ th[c].pc = "unborn"
            /\ th' = [th EXCEPT ![c].pc = "begin",
                               ![r] = [pc |-> "idle", ptr |-> None, ok |-> TRUE]]
      BY <1>1, OneOfIsOne DEF Spawn, At
    <2>2. c # r /\ c \in Threads /\ th[r].pc = "spawn"
      BY <1>1, AlsaAssumption DEF RecordThreads, Threads, Spawn, At
    <2>3. Spawned(r, c)
      BY <1>0, <2>1, <2>2 DEF ThreadsOK, Locals, Spawned
    <2> QED
      BY <1>1, <2>3
  <1>2. CASE ~Spawn(r)
    <2>1. \/ \E pc \in {"opening", "startFlag", "startSet", "startBase", "startQueue",
                        "spawn", "readClear", "readEnter"} : Goto(r, pc)
          \/ \E ok : Return(r, ok)
          \/ Load(r, "reading", gQueue)
      BY <1>2 DEF Inner, OpenCheck, OpenFails, Open, StartPcm, StartFlag, StartSet,
         StartBase, StartQueue, SpawnFails, ReadCheck, ReadClear, ReadEnter, ReadReturn,
         SizeUse, Crash
    <2>2. \E pc \in {"idle", "opening", "startFlag", "startSet", "startBase", "startQueue",
                     "spawn", "readClear", "readEnter", "reading"} : Moves(r, pc)
      BY <1>0, <2>1, MovesBy
    <2> QED
      BY <1>0, <1>2, <2>2
  <1> QED
    BY <1>1, <1>2

\* A session that is inside alsa_recorder.cpp is at one of five points of record().
LEMMA WhereInAlsa ==
  ASSUME SessionTypeOK, PlaceInv, NEW r \in RecordThreads,
         th[r].pc \notin {"idle", "dead"}
  PROVE  /\ Running(r)
         /\ th[r].pc \in OpenPc => On(r, "opened")
         /\ th[r].pc \in SizePc => On(r, "start")
         /\ th[r].pc \in StartPc => On(r, "started")
         /\ th[r].pc \in ReadPc => On(r, "process")
         /\ th[r].pc \in ClosePc => On(r, "closed")
         /\ rec[r].pc \in {"opened", "start", "started", "process", "closed"}
  <1>1. rec[r].pc \in RecPc /\ th[r].pc \in PlacesAt(rec[r].pc)
    BY SessionTypeParts DEF RecOK, RecLocals, PlaceInv
  <1>2. rec[r].pc \in {"opened", "start", "started", "process", "closed"}
    BY <1>1, PlaceTable
  <1>3. /\ (OpenPc \union SizePc) \intersect (StartPc \union ReadPc \union ClosePc) = {}
        /\ OpenPc \intersect SizePc = {}
        /\ StartPc \intersect (ReadPc \union ClosePc) = {}
        /\ ReadPc \intersect ClosePc = {}
    BY DEF OpenPc, SizePc, StartPc, Setting, ReadPc, ClosePc
  <1> QED
    BY <1>1, <1>2, <1>3, PlaceTable DEF On, Running

LEMMA InnerOwners ==
  ASSUME SessionTypeOK, PlaceInv, RestInv, OwnersInv, NEW r \in RecordThreads, Inner(r),
         rec' = rec, ~crashed'
  PROVE  OwnersInv'
  <1>0. /\ th[r].pc \notin ClosePc \union {"idle", "dead"} /\ AlsaTypeOK
        /\ th[r].pc \in OpenPc \union SizePc \union StartPc \union ReadPc
    BY InnerMoves, InnerPlaces, SessionTypeParts
  <1>1. Running(r) /\ ~On(r, "closed") /\ rec[r].pc \in {"opened", "start", "started", "process"}
    BY <1>0, WhereInAlsa DEF OpenPc, SizePc, StartPc, Setting, ReadPc, On
  <1>2. \A q \in RecordThreads : HoldsAny(q) => q = r
    BY <1>1, HolderRuns DEF RestInv
  <1>3. th'[r].pc \in OpenPc \union SizePc \union StartPc \union ReadPc \union {"idle"}
    <2>1. CASE Spawn(r)
      BY <1>0, <2>1, InnerGoes DEF Spawned
    <2>2. CASE ~Spawn(r)
      BY <1>0, <2>2, InnerGoes DEF Moves
    <2> QED
      BY <2>1, <2>2
  <1>4. th[r].pc \in StartPc => th'[r].pc \in StartPc \union {"idle"}
    BY <1>0, <1>3, InnerPlaces DEF OpenPc, SizePc, StartPc, Setting, ReadPc
  <1>5. HoldsPcm(r) => HoldsPcm(r)'
    BY <1>0, <1>1, <1>4, WhereInAlsa DEF HoldsPcm, Holds, Recording, On, LoopPc
  <1>6. HoldsFlag(r) => HoldsFlag(r)'
    BY <1>0, <1>1, TakesInOrder DEF HoldsFlag, Holds, Recording, On, LoopPc
  <1>7. HoldsBase(r) => HoldsBase(r)'
    BY <1>0, <1>1, TakesInOrder DEF HoldsBase, Holds, Recording, On, LoopPc
  <1>8. HoldsQueue(r) => HoldsQueue(r)'
    BY <1>0, <1>1, TakesInOrder DEF HoldsQueue, Holds, Recording, On, LoopPc
  <1>9. gPcm' # gPcm => HoldsPcm(r)'
    BY <1>0, WhereInAlsa, TakesInOrder DEF HoldsPcm, On, OpenPc
  <1>10. gRecording' # gRecording => HoldsFlag(r)'
    BY <1>0, WhereInAlsa, TakesInOrder DEF HoldsFlag, Holds, On, StartPc, Setting
  <1>11. gBase' # gBase => HoldsBase(r)'
    BY <1>0, WhereInAlsa, TakesInOrder DEF HoldsBase, Holds, On, StartPc
  <1>12. gQueue' # gQueue => HoldsQueue(r)'
    BY <1>0, WhereInAlsa, TakesInOrder DEF HoldsQueue, Holds, On, StartPc
  <1> QED
    BY <1>2, <1>5, <1>6, <1>7, <1>8, <1>9, <1>10, <1>11, <1>12 DEF OwnersInv, HoldsAny

\* The order in which PcmClose gives back what there is.
BeforePcm == {"close", "closeLock", "closePcm", "closeNull"}
BeforeQueue == BeforePcm \union {"closeQueue"}
BeforeBase == ClosePc \ {"closeUnlock"}

LEMMA GivesBackInOrder ==
  ASSUME AlsaTypeOK, NEW t \in Threads, Close(t)
  PROVE  /\ \E pc : Moves(t, pc)
         /\ gRecording' => gRecording /\ th[t].pc # "close"
         /\ gPcm' \in {gPcm, None} /\ gQueue' \in {gQueue, None} /\ gBase' \in {gBase, None}
         /\ th[t].pc \in BeforePcm /\ gPcm' # None => th'[t].pc \in BeforePcm
         /\ th[t].pc \in BeforeQueue /\ gQueue' # None => th'[t].pc \in BeforeQueue
         /\ th[t].pc \in BeforeBase /\ gBase' # None =>
              \/ th'[t].pc \in BeforeBase
              \/ th[t].pc = "closeQueue" /\ gQueue = None
         /\ th[t].pc # "close" => th'[t].pc # "close"
  <1>0. th[t].pc # "dead"
    BY CloseMoves DEF ClosePc
  <1>1. CASE CloseFlag(t)
    <2>1. Moves(t, "closeLock") /\ th[t].pc = "close"
      BY <1>0, <1>1, MovesBy DEF CloseFlag, At
    <2> QED
      BY <1>1, <2>1 DEF CloseFlag, Moves, device, memory, BeforePcm,
         BeforeQueue, BeforeBase,
         ClosePc
  <1>2. CASE CloseLock(t)
    <2>1. Moves(t, "closePcm") /\ th[t].pc = "closeLock"
      BY <1>0, <1>2, MovesBy DEF CloseLock, At
    <2> QED
      BY <1>2, <2>1 DEF CloseLock, Moves, device, memory, BeforePcm,
         BeforeQueue, BeforeBase,
         ClosePc
  <1>3. CASE ClosePcm(t)
    <2>1. /\ th[t].pc = "closePcm" /\ UNCHANGED <<memory, flags, gPcm>>
          /\ (gPcm = None /\ Moves(t, "closeQueue")) \/ Moves(t, "closeNull")
      BY <1>0, <1>3, MovesBy DEF ClosePcm, At
    <2> QED
      BY <2>1 DEF Moves, memory, flags, BeforePcm, BeforeQueue, BeforeBase, ClosePc
  <1>4. CASE CloseNull(t)
    <2>1. Moves(t, "closeQueue") /\ th[t].pc = "closeNull"
      BY <1>0, <1>4, MovesBy DEF CloseNull, At
    <2> QED
      BY <1>4, <2>1 DEF CloseNull, Moves, memory, flags, BeforePcm,
         BeforeQueue, BeforeBase,
         ClosePc
  <1>5. CASE CloseQueue(t)
    <2>1. /\ th[t].pc = "closeQueue" /\ UNCHANGED <<gPcm, gRecording, gBase>> /\ gQueue' = None
          /\ (gQueue = None /\ Moves(t, "closeUnlock")) \/ Moves(t, "closeFree")
      BY <1>0, <1>5, MovesBy DEF CloseQueue, At, device, flags
    <2> QED
      BY <2>1 DEF Moves, BeforePcm, BeforeQueue, BeforeBase, ClosePc
  <1>6. CASE CloseFree(t)
    <2>1. Moves(t, "closeBase") /\ th[t].pc = "closeFree"
      BY <1>0, <1>6, MovesBy DEF CloseFree, At
    <2> QED
      BY <1>6, <2>1 DEF CloseFree, Moves, device, flags, BeforePcm,
         BeforeQueue, BeforeBase,
         ClosePc
  <1>7. CASE CloseBase(t)
    <2>1. Moves(t, "closeUnlock") /\ th[t].pc = "closeBase"
      BY <1>0, <1>7, MovesBy DEF CloseBase, At
    <2> QED
      BY <1>7, <2>1 DEF CloseBase, Moves, device, flags, BeforePcm,
         BeforeQueue, BeforeBase,
         ClosePc
  <1>8. CASE CloseUnlock(t)
    <2>1. /\ th[t].pc = "closeUnlock" /\ UNCHANGED <<device, memory, gRecording>>
          /\ Moves(t, "idle") \/ Moves(t, "exit")
      BY <1>0, <1>8, MovesBy DEF CloseUnlock, At
    <2> QED
      BY <2>1 DEF Moves, device, memory, BeforePcm, BeforeQueue, BeforeBase, ClosePc
  <1> QED
    BY <1>1, <1>2, <1>3, <1>4, <1>5, <1>6, <1>7, <1>8 DEF Close

LEMMA CloseOwners ==
  ASSUME SessionTypeOK, ReleaseInv, PlaceInv, RestInv, OwnersInv, KeptInv,
         NEW t \in Threads, Close(t), rec' = rec
  PROVE  OwnersInv'
  <1>0. AlsaTypeOK /\ th[t].pc \in ClosePc /\ \E pc : Moves(t, pc)
    BY SessionTypeParts, CloseMoves, GivesBackInOrder
  <1>1. \A q \in RecordThreads \ {t} : rec'[q] = rec[q] /\ th'[q].pc = th[q].pc
    BY <1>0 DEF Moves, RecordThreads, Threads
  <1>2. t \in RecordThreads => On(t, "closed")
    BY <1>0, WhereInAlsa DEF ClosePc
  <1>3. ASSUME NEW q \in RecordThreads, HoldsPcm(q), gPcm' # None PROVE HoldsPcm(q)'
    <2>1. q = t => th'[q].pc \in BeforePcm
      BY <1>0, <1>2, <1>3, GivesBackInOrder
         DEF HoldsPcm, Holds, Recording, On, BeforePcm
    <2> QED
      BY <1>1, <1>2, <1>3, <2>1 DEF HoldsPcm, Holds, Recording, On, BeforePcm
  <1>4. ASSUME NEW q \in RecordThreads, HoldsFlag(q), gRecording' PROVE HoldsFlag(q)'
    <2>1. q # t
      BY <1>0, <1>2, <1>4, GivesBackInOrder DEF HoldsFlag, Holds, Recording, On
    <2> QED
      BY <1>1, <1>4, <2>1 DEF HoldsFlag, Holds, Recording, On
  <1>5. ASSUME NEW q \in RecordThreads, HoldsQueue(q), gQueue' # None PROVE HoldsQueue(q)'
    <2>1. q = t => th'[q].pc \in BeforeQueue
      BY <1>0, <1>2, <1>5, GivesBackInOrder
         DEF HoldsQueue, Holds, Recording, On, BeforePcm, BeforeQueue
    <2> QED
      BY <1>1, <1>2, <1>5, <2>1
         DEF HoldsQueue, Holds, Recording, On, BeforePcm, BeforeQueue
  <1>6. ASSUME NEW q \in RecordThreads, HoldsBase(q), gBase' # None PROVE HoldsBase(q)'
    <2>1. q = t => th[q].pc \in BeforeBase
      BY <1>2, <1>6 DEF HoldsBase, Holds, Recording, On, BeforeBase
    <2>2. ASSUME q = t, th[t].pc = "closeQueue", gQueue = None PROVE FALSE
      <3>1. gBase # None
        BY <1>6, <1>0, GivesBackInOrder
      <3>2. \A u \in Threads : th[u].pc \in {"closeFree", "closeBase"} => u = t
        BY <2>2 DEF ReleaseInv, HolderInv, Holding, ClosePc
      <3>3. PICK p \in RecordThreads : th[p].pc = "startQueue"
        BY <2>2, <3>1, <3>2 DEF KeptInv, KeptQueue
      <3>4. Running(p) /\ On(p, "started")
        BY <3>3, WhereInAlsa DEF StartPc
      <3>5. Running(q) /\ On(q, "closed")
        BY <1>2, <2>2 DEF Running, On
      <3> QED
        BY <3>4, <3>5 DEF RestInv, On
    <2>3. q = t => th'[q].pc \in BeforeBase
      BY <1>0, <1>6, <2>1, <2>2, GivesBackInOrder
    <2> QED
      BY <1>1, <1>2, <1>6, <2>3 DEF HoldsBase, Holds, Recording, On, BeforeBase
  <1>7. /\ gPcm' # None => gPcm # None
        /\ gRecording' => gRecording
        /\ gBase' # None => gBase # None
        /\ gQueue' # None => gQueue # None
    BY <1>0, GivesBackInOrder
  <1> QED
    BY <1>3, <1>4, <1>5, <1>6, <1>7 DEF OwnersInv

LEMMA CaptureGoes ==
  ASSUME AlsaTypeOK, NEW c \in Captures, Capture(c), ~Close(c), ~crashed'
  PROVE  /\ UNCHANGED owned /\ UNCHANGED gRecording
         /\ th[c].pc \notin ClosePc \union {"unborn", "exit", "dead", "startQueue"}
         /\ \E pc : pc \notin Busy /\ Moves(c, pc)
  <1>1. UNCHANGED owned /\ UNCHANGED gRecording
    BY DEF Capture, CaptureBegin, CaptureLoop, CaptureDevice,
       CaptureDeviceEnter, CaptureRead,
       CaptureReadFails, CaptureWrite, CaptureEnter, CaptureStore, CaptureOverflow,
       CaptureLog, globals, device, memory, flags, owned
  <1>2. th[c].pc \notin ClosePc \union {"unborn", "exit", "dead", "startQueue"}
    BY DEF Capture, CaptureBegin, CaptureLoop, CaptureDevice,
       CaptureDeviceEnter, CaptureRead,
       CaptureReadFails, CaptureWrite, CaptureEnter, CaptureStore, CaptureOverflow,
       CaptureLog, At, ClosePc
  <1>3. LET after == {"exit", "loop", "device", "write", "deviceEnter", "inread", "close",
                      "writeEnter", "writing", "logFull"}
        IN  (\E pc \in after : Goto(c, pc)) \/ (\E pc \in after : \E p : Load(c, pc, p))
    BY DEF Capture, CaptureBegin, CaptureLoop, CaptureDevice,
       CaptureDeviceEnter, CaptureRead,
       CaptureReadFails, CaptureWrite, CaptureEnter, CaptureStore, CaptureOverflow,
       CaptureLog, Crash
  <1>4. \E pc \in {"exit", "loop", "device", "write", "deviceEnter", "inread", "close",
                   "writeEnter", "writing", "logFull"} : Moves(c, pc)
    BY <1>2, <1>3, MovesBy DEF Threads
  <1> QED
    BY <1>1, <1>2, <1>4 DEF Busy, Holding, ClosePc

-----------------------------------------------------------------------------
(* KeptInv at the steps of PcmOpen, PcmStartRecord and PcmRead.            *)

LEMMA InnerKept ==
  ASSUME SessionTypeOK, ReleaseInv, PlaceInv, RestInv, CaptureInv, OwnersInv, KeptInv,
         NEW r \in RecordThreads, Inner(r), ~crashed'
  PROVE  KeptInv'
  <1>0. /\ AlsaTypeOK /\ r \in Threads /\ th[r].pc # "dead" /\ None \notin Pcms \union Blocks
        /\ th[r].pc \notin {"idle", "dead"} /\ Running(r)
        /\ opened \subseteq Pcms /\ allocated \subseteq Blocks
    BY SessionTypeParts, InnerMoves, WhereInAlsa, AlsaAssumption
       DEF RecordThreads, Threads, AlsaTypeOK
  <1>1. \A q \in RecordThreads : HoldsAny(q) => q = r
    BY <1>0, HolderRuns DEF RestInv
  <1>2. CASE Open(r)
    <2>1. th[r].pc = "opening" /\ Moves(r, "idle") /\ On(r, "opened")
      BY <1>0, <1>2, MovesBy, WhereInAlsa DEF Open, At, OpenPc
    <2>2. ~HoldsPcm(r)
      BY <2>1 DEF HoldsPcm, Holds, Recording, On, LoopPc
    <2>3. gPcm = None
      BY <1>1, <2>2 DEF OwnersInv, HoldsAny
    <2>4. /\ opened' \subseteq opened \union {gPcm'}
          /\ UNCHANGED <<gBase, gQueue, gMutex, allocated, closes, frees>>
      BY <1>2 DEF Open, memory, flags
    <2>5. \A u \in Threads : /\ th'[u].pc = th[u].pc \/ u = r
                             /\ th'[u].pc # "closeNull"
      BY <2>1, <2>3 DEF Moves, KeptInv, KeptPcm
    <2>6. KeptPcm'
      BY <1>0, <2>3, <2>4, <2>5 DEF KeptInv, KeptPcm
    <2>7. KeptBase' /\ KeptQueue' /\ KeptMutex'
      BY <1>0, <2>1, <2>4 DEF KeptInv, KeptBase, KeptQueue, KeptMutex, Moves,
         RecordThreads,
         Threads, Holding, ClosePc, AlsaTypeOK
    <2> QED
      BY <2>6, <2>7 DEF KeptInv
  <1>3. CASE StartBase(r)
    <2>1. /\ th[r].pc = "startBase" /\ Goto(r, "startQueue") /\ On(r, "started")
      BY <1>0, <1>3, WhereInAlsa DEF StartBase, Crash, At, StartPc
    <2>2. Moves(r, "startQueue")
      BY <1>0, <2>1, MovesBy
    <2>3. gBase = None
      BY <1>1, <2>1 DEF HoldsBase, Holds, Recording, On, LoopPc, OwnersInv, HoldsAny
    <2>4. /\ gBase' \in Blocks \ allocated /\ allocated' = allocated \union {gBase'}
          /\ UNCHANGED <<gPcm, gQueue, gMutex, opened, closes, frees>>
      BY <1>3, <2>1, OneOfIsOne DEF StartBase, Crash, device
    <2>5. \A u \in Threads : th[u].pc # "closeBase"
      <3>1. CaptureRest
        BY <2>1 DEF CaptureInv, SettingUp
      <3>2. \A q \in RecordThreads : th[q].pc # "closeBase"
        BY <1>0, <2>1, WhereInAlsa DEF RestInv, ClosePc, On
      <3> QED
        BY <3>1, <3>2 DEF CaptureRest, Threads, RecordThreads
    <2>6. KeptPcm' /\ KeptMutex'
      BY <1>0, <2>1, <2>2, <2>4 DEF KeptInv, KeptPcm, KeptMutex, Moves, Holding, ClosePc,
         AlsaTypeOK
    <2>7. KeptBase'
      BY <1>0, <2>2, <2>3, <2>4, <2>5 DEF KeptInv, KeptBase, Moves
    <2>8. KeptQueue'
      BY <2>2 DEF KeptQueue, Moves
    <2> QED
      BY <2>6, <2>7, <2>8 DEF KeptInv
  <1>4. CASE StartQueue(r)
    <2>1. th[r].pc = "startQueue" /\ Moves(r, "spawn")
      BY <1>0, <1>4, MovesBy DEF StartQueue, At
    <2>2. gQueue' = gBase /\ UNCHANGED <<gPcm, gBase, gMutex, opened, allocated, closes, frees>>
      BY <1>4 DEF StartQueue, device, flags
    <2>3. KeptPcm' /\ KeptBase'
      BY <1>0, <2>1, <2>2 DEF KeptInv, KeptPcm, KeptBase, Moves
    <2>4. KeptMutex' /\ KeptQueue'
      BY <1>0, <2>1, <2>2 DEF KeptInv, KeptMutex, KeptQueue, Moves, Holding,
         ClosePc, AlsaTypeOK
    <2> QED
      BY <2>3, <2>4 DEF KeptInv
  <1>5. ASSUME Spawn(r), NEW c \in Captures, Spawned(r, c) PROVE KeptInv'
    <2>1. UNCHANGED owned
      BY <1>5 DEF Spawn, globals, device, memory, flags, owned
    <2>2. \A u \in Threads : /\ th[u].pc \in Busy => th'[u].pc = th[u].pc
                             /\ th'[u].pc \in Busy => th'[u].pc = th[u].pc
      BY <1>5 DEF Spawned, Busy, Holding, ClosePc
    <2>3. KeptPcm' /\ KeptBase'
      BY <2>1, <2>2 DEF KeptInv, KeptPcm, KeptBase, owned, Busy, Holding, ClosePc
    <2>4. KeptMutex'
      BY <1>0, <2>1, <2>2 DEF KeptInv, KeptMutex, owned, Busy, AlsaTypeOK
    <2>5. KeptQueue'
      BY <2>1, <2>2 DEF KeptInv, KeptQueue, owned, Busy, Holding, ClosePc,
         RecordThreads, Threads
    <2> QED
      BY <2>3, <2>4, <2>5 DEF KeptInv
  <1>6. CASE \/ OpenCheck(r) \/ OpenFails(r) \/ StartPcm(r) \/ StartFlag(r) \/ StartSet(r)
             \/ SpawnFails(r) \/ ReadCheck(r) \/ ReadClear(r) \/ ReadEnter(r) \/ ReadReturn(r)
             \/ SizeUse(r)
    <2>1. UNCHANGED owned
      BY <1>6 DEF OpenCheck, OpenFails, StartPcm, StartFlag, StartSet, SpawnFails,
         ReadCheck, ReadClear, ReadEnter, ReadReturn, SizeUse, globals, device, memory,
         flags, owned
    <2>2. th[r].pc \notin Busy
      BY <1>6 DEF OpenCheck, OpenFails, StartPcm, StartFlag, StartSet, SpawnFails,
         ReadCheck, ReadClear, ReadEnter, ReadReturn, SizeUse, At, Busy, Holding, ClosePc
    <2>3. \/ \E pc \in {"opening", "startFlag", "startSet", "startBase", "readClear",
                        "readEnter"} : Goto(r, pc)
          \/ \E ok : Return(r, ok)
          \/ Load(r, "reading", gQueue)
      BY <1>6 DEF OpenCheck, OpenFails, StartPcm, StartFlag, StartSet, SpawnFails,
         ReadCheck, ReadClear, ReadEnter, ReadReturn, SizeUse, Crash
    <2>4. \E pc \in {"opening", "startFlag", "startSet", "startBase", "readClear",
                     "readEnter", "idle", "reading"} : Moves(r, pc)
      BY <1>0, <2>3, MovesBy
    <2> QED
      BY <1>0, <2>1, <2>2, <2>4, KeptQuiet DEF Busy, Holding, ClosePc
  <1>7. CASE Spawn(r)
    BY <1>0, <1>5, <1>7, InnerGoes
  <1> QED
    BY <1>2, <1>3, <1>4, <1>6, <1>7 DEF Inner

-----------------------------------------------------------------------------
(* ReleasingInv.                                                           *)

LEMMA UiReleasing ==
  ASSUME SessionTypeOK, CaptureInv, OwnersInv, KeptInv, "start" \in Waits, Ui
  PROVE  CaptureInv' /\ OwnersInv' /\ KeptInv'
  <1>0. UNCHANGED alsaVars
    BY UiAlsaStep
  <1>1. KeptInv'
    BY <1>0 DEF alsaVars, globals, device, memory, flags, KeptInv, KeptPcm, KeptBase,
       KeptMutex, KeptQueue
  <1>2. ASSUME NEW r \in RecordThreads, On(r, "unborn"), Step(r, "begin"), StartCreate
        PROVE  CaptureInv' /\ OwnersInv'
    <2>1. rec'[r].pc = "begin" /\ \A q \in RecordThreads \ {r} : rec'[q] = rec[q]
      BY <1>2, SessionTypeParts, StepOK DEF RecPc
    <2>2. CaptureInv'
      BY <1>0, <1>2 DEF StartCreate, UiAt, CaptureInv, CaptureRest, alsaVars
    <2>3. ~HoldsAny(r)
      BY <1>2, HolderRuns DEF Running, On
    <2>4. \A q \in RecordThreads \ {r} :
            /\ HoldsPcm(q) => HoldsPcm(q)'
            /\ HoldsFlag(q) => HoldsFlag(q)'
            /\ HoldsBase(q) => HoldsBase(q)'
            /\ HoldsQueue(q) => HoldsQueue(q)'
      BY <1>0, <2>1 DEF HoldsPcm, HoldsFlag, HoldsBase, HoldsQueue, Holds, Recording, On,
         alsaVars
    <2> QED
      BY <1>0, <2>2, <2>3, <2>4 DEF OwnersInv, HoldsAny, alsaVars, globals,
         device, memory,
         flags
  <1>3. CASE UNCHANGED rec
    <2>1. ui' = "create" => ui = "create" \/ AtRest
      BY DEF Ui, InitCallback, InitCae, InitListener, DestroyFlags, DestroyCallback,
         DestroyCae, DestroyListener, StartAccepted, StartCreate, StopRecord,
         SetClearBuffer, UiAt
    <2>2. CaptureInv'
      BY <1>0, <1>3, <2>1 DEF CaptureInv, CaptureRest, AtRest, SettingUp, On, alsaVars
    <2>3. OwnersInv'
      BY <1>0, <1>3 DEF OwnersInv, HoldsPcm, HoldsFlag, HoldsBase, HoldsQueue, Holds,
         Recording, On, alsaVars, globals, device, memory, flags
    <2> QED
      BY <1>1, <2>2, <2>3
  <1> QED
    BY <1>1, <1>2, <1>3, UiRec

LEMMA RecordReleasing ==
  ASSUME SessionTypeOK, EngineInv, CaptureInv, OwnersInv, KeptInv,
         NEW r \in RecordThreads, Record(r), ~Spoilt'
  PROVE  CaptureInv' /\ OwnersInv' /\ KeptInv'
  <1>0. ~Fault /\ ~Failed(r)' /\ CanTell /\ AlsaTypeOK /\ r \in Threads
    BY RecordAlone, SessionTypeParts DEF Fault, Crash, Spoilt, EngineInv,
       InitMeans, InitHeld,
       CanTell, RecordThreads, Threads
  <1>1. OwnersInv'
    BY <1>0, RecordOwners
  <1>2. \A q \in RecordThreads \ {r} : rec'[q] = rec[q] /\ th'[q] = th[q]
    BY <1>0, RecordAlone, RecordPlaces DEF RecordThreads, Threads
  <1>3. SettingUp(r)' => SettingUp(r)
    <2>1. CASE GoesOn(rec[r], rec'[r])
      <3>1. rec'[r].pc = "started" => On(r, "start")
        BY <2>1 DEF GoesOn, InLoop, Reporting, On
      <3> QED
        BY <2>1, <3>1 DEF GoesOn, InLoop, Reporting, SettingUp, On
    <2>2. CASE rec'[r].pc = AfterReport[rec[r].say]
      <3>1. rec'[r].pc \in {"loop", "exit", "stopped", "finish"}
        BY <2>2, SessionTypeParts DEF RecOK, RecLocals, Reports, AfterReport
      <3> QED
        BY <3>1 DEF SettingUp, On
    <2> QED
      BY <1>0, <2>1, <2>2, RecordGoesOn
  <1>4. CaptureInv'
    <2>1. CaptureRest => CaptureRest'
      BY <1>0, RecordPlaces, AlsaAssumption DEF CaptureRest, Threads, RecordThreads
    <2>2. ui' = ui /\ \A q \in RecordThreads : SettingUp(q)' => SettingUp(q)
      BY <1>2, <1>3, RecordAlone DEF SettingUp, On
    <2> QED
      BY <2>1, <2>2 DEF CaptureInv
  <1>5. KeptInv'
    <2>1. UNCHANGED owned
      BY <1>0, RecordPlaces DEF globals, device, memory, flags, owned
    <2>2. /\ th[r].pc = "idle" /\ th'[r].pc \in {"idle", "open", "size", "startPcm", "read", "close"}
          /\ \A t \in Threads \ {r} : th'[t] = th[t]
      BY <1>0, RecordPlaces
    <2>3. Moves(r, th'[r].pc)
      BY <2>2 DEF Moves
    <2> QED
      BY <1>0, <2>1, <2>2, <2>3, KeptQuiet DEF Busy, Holding, ClosePc
  <1> QED
    BY <1>1, <1>4, <1>5

LEMMA InAlsaReleasing ==
  ASSUME SessionTypeOK, ReleaseInv, RestInv, PlaceInv, CaptureInv, OwnersInv, KeptInv,
         NEW r \in RecordThreads, InAlsa(r), ~Spoilt'
  PROVE  CaptureInv' /\ OwnersInv' /\ KeptInv'
  <1>0. /\ AlsaTypeOK /\ r \in Threads /\ rec' = rec /\ ui' = ui /\ ~crashed'
        /\ \A c \in Captures : c \in Threads /\ c # r
    BY SessionTypeParts, AlsaAssumption DEF RecordThreads, Threads, InAlsa,
       sessionVars, Spoilt
  <1>1. CASE Close(r)
    <2>1. th[r].pc \in ClosePc /\ \E pc : Moves(r, pc)
      BY <1>0, <1>1, CloseMoves, GivesBackInOrder
    <2>2. Running(r) /\ On(r, "closed")
      BY <1>0, <2>1, WhereInAlsa DEF ClosePc
    <2>3. ~SettingUp(r)' /\ \A q \in RecordThreads \ {r} : SettingUp(q)' => SettingUp(q)
      BY <1>0, <2>1, <2>2 DEF SettingUp, On, Moves, RecordThreads, Threads
    <2>4. CaptureRest => CaptureRest'
      BY <1>0, <2>1 DEF CaptureRest, Moves
    <2>5. CaptureInv'
      BY <1>0, <2>3, <2>4 DEF CaptureInv
    <2> QED
      BY <1>0, <1>1, <2>5, CloseOwners, KeptClose
  <1>2. CASE Inner(r)
    <2>1. OwnersInv' /\ KeptInv'
      BY <1>0, <1>2, InnerOwners, InnerKept
    <2>2. th[r].pc \notin ClosePc \union {"idle", "dead"} /\ Running(r)
      BY <1>0, <1>2, InnerMoves, WhereInAlsa
    <2>3. /\ ui # "create"
          /\ \A q \in RecordThreads \ {r} : ~SettingUp(q)'
      BY <1>0, <2>2 DEF RestInv, SettingUp, On, Running
    <2>4. SettingUp(r)' => SettingUp(r)
      BY <1>0, <2>2 DEF SettingUp, On
    <2>5. CASE Spawn(r)
      <3>1. th'[r].pc = "idle" /\ On(r, "started")
        BY <1>0, <1>2, <2>2, <2>5, InnerGoes, WhereInAlsa DEF Spawned, StartPc
      <3>2. ~SettingUp(r)'
        BY <1>0, <3>1 DEF SettingUp, On
      <3> QED
        BY <1>0, <2>1, <2>3, <3>2 DEF CaptureInv
    <2>6. CASE ~Spawn(r)
      <3>1. CaptureRest => CaptureRest'
        BY <1>0, <1>2, <2>6, InnerGoes DEF CaptureRest, Moves
      <3> QED
        BY <1>0, <2>1, <2>3, <2>4, <3>1 DEF CaptureInv
    <2> QED
      BY <2>5, <2>6
  <1> QED
    BY <1>1, <1>2 DEF InAlsa, Inner

LEMMA CaptureReleasing ==
  ASSUME SessionTypeOK, ReleaseInv, RestInv, PlaceInv, CaptureInv, OwnersInv, KeptInv,
         NEW c \in Captures, CaptureStep(c), ~Spoilt'
  PROVE  CaptureInv' /\ OwnersInv' /\ KeptInv'
  <1>0. /\ AlsaTypeOK /\ c \in Threads /\ rec' = rec /\ ui' = ui /\ ~crashed' /\ Capture(c)
        /\ \A q \in RecordThreads : q \in Threads /\ q # c
    BY SessionTypeParts, AlsaAssumption
       DEF RecordThreads, Threads, CaptureStep, sessionVars, Spoilt
  <1>1. th[c].pc \notin {"unborn", "exit"} /\ \E pc : Moves(c, pc)
    <2>1. CASE Close(c)
      BY <1>0, <2>1, CloseMoves, GivesBackInOrder DEF ClosePc
    <2>2. CASE ~Close(c)
      BY <1>0, <2>2, CaptureGoes
    <2> QED
      BY <2>1, <2>2
  <1>2. CaptureInv'
    <2>1. \A q \in RecordThreads : SettingUp(q)' => SettingUp(q)
      BY <1>0, <1>1 DEF SettingUp, On, Moves
    <2> QED
      BY <1>0, <1>1, <2>1 DEF CaptureInv, CaptureRest
  <1>3. CASE Close(c)
    BY <1>0, <1>2, <1>3, CloseOwners, KeptClose
  <1>4. CASE ~Close(c)
    <2>1. /\ UNCHANGED owned /\ UNCHANGED gRecording
          /\ th[c].pc \notin Busy
      BY <1>0, <1>4, CaptureGoes DEF Busy, Holding
    <2>2. PICK pc : pc \notin Busy /\ Moves(c, pc)
      BY <1>0, <1>4, CaptureGoes
    <2>3. KeptInv'
      BY <1>0, <2>1, <2>2, KeptQuiet
    <2>4. \A q \in RecordThreads : rec'[q] = rec[q] /\ th'[q].pc = th[q].pc
      BY <1>0, <2>2 DEF Moves
    <2>5. OwnersInv'
      BY <2>1, <2>4 DEF OwnersInv, HoldsPcm, HoldsFlag, HoldsBase, HoldsQueue, Holds,
         Recording, On, owned
    <2> QED
      BY <1>2, <2>3, <2>5
  <1> QED
    BY <1>3, <1>4

LEMMA ReleasingInvNext ==
  ASSUME SessionTypeOK, ReleaseInv, EngineInv, RestInv, ReleasingInv, "start" \in Waits,
         [Next]_vars
  PROVE  ReleasingInv'
  <1>1. PlaceInv'
    BY PlaceInvNext DEF ReleasingInv
  <1>2. SUFFICES ASSUME ~Spoilt' PROVE CaptureInv' /\ OwnersInv' /\ KeptInv'
    BY <1>1 DEF ReleasingInv
  <1>3. PlaceInv /\ CaptureInv /\ OwnersInv /\ KeptInv
    BY <1>2, SpoiltStays DEF ReleasingInv
  <1>4. CASE Ui
    BY <1>3, <1>4, UiReleasing
  <1>5. ASSUME NEW r \in RecordThreads, Record(r) PROVE CaptureInv' /\ OwnersInv' /\ KeptInv'
    BY <1>2, <1>3, <1>5, RecordReleasing
  <1>6. ASSUME NEW r \in RecordThreads, InAlsa(r) PROVE CaptureInv' /\ OwnersInv' /\ KeptInv'
    BY <1>2, <1>3, <1>6, InAlsaReleasing
  <1>7. ASSUME NEW c \in Captures, CaptureStep(c) PROVE CaptureInv' /\ OwnersInv' /\ KeptInv'
    BY <1>2, <1>3, <1>7, CaptureReleasing
  <1>8. CASE UNCHANGED vars
    <2>1. CaptureInv'
      BY <1>3, <1>8 DEF vars, sessionVars, alsaVars, CaptureInv, CaptureRest,
         SettingUp, On
    <2>2. OwnersInv'
      BY <1>3, <1>8 DEF vars, sessionVars, alsaVars, globals, device, memory,
         flags, OwnersInv,
         HoldsPcm, HoldsFlag, HoldsBase, HoldsQueue, Holds, Recording, On
    <2>3. KeptInv'
      BY <1>3, <1>8 DEF vars, alsaVars, globals, device, memory, flags, KeptInv, KeptPcm,
         KeptBase, KeptMutex, KeptQueue
    <2> QED
      BY <2>1, <2>2, <2>3
  <1> QED
    BY <1>4, <1>5, <1>6, <1>7, <1>8 DEF Next

-----------------------------------------------------------------------------
(* FcloseInv.                                                              *)

\* The files and where a session stands with them, at every other step.
LEMMA FcloseQuiet ==
  ASSUME SessionTypeOK, FcloseInv, UNCHANGED <<fclosed, Past>>,
         \/ UNCHANGED <<file, fopened>>
         \/ file' = None /\ UNCHANGED fopened
         \/ \E f \in Files \ fopened : file' = f /\ fopened' = fopened \union {f},
         file' = file => \A r \in RecordThreads : On(r, "fnull") => On(r, "fnull")'
  PROVE  FcloseInv'
  <1>0. fclosed \subseteq fopened /\ fopened \subseteq Files /\ None \notin Files
    BY SessionAssumption DEF SessionTypeOK
  <1>1. IsFiniteSet(fopened')
    BY FS_AddElement DEF FcloseInv
  <1>2. IsFiniteSet(Past)' /\ Cardinality(fclosed)' = Cardinality(Past)'
    BY DEF FcloseInv
  <1>3. file' \in fclosed' => file' = file
    BY <1>0
  <1> QED
    BY <1>1, <1>2, <1>3 DEF FcloseInv

\* The step of a session that is not its fclose leaves it on the same side of it.
LEMMA PastStays ==
  ASSUME SessionTypeOK, ToldInv, CanTell, NEW r \in RecordThreads, Record(r), ~Fault,
         ~On(r, "fclose")
  PROVE  PastFclose(r)' <=> PastFclose(r)
  <1>1. CASE On(r, "finish")
    <2>1. rec'[r].pc = "exit" /\ rec'[r].told \in Ended
      BY <1>1, RecordGoesOn DEF On, GoesOn, InLoop, ToldInv, ToldRight, Reporting
    <2>2. rec'[r].told \intersect Failures = {}
      BY <2>1 DEF Ended, Failures
    <2> QED
      BY <1>1, <2>1, <2>2 DEF PastFclose, On
  <1>2. CASE ~On(r, "finish") /\ GoesOn(rec[r], rec'[r])
    <2>1. CASE rec[r].pc \in {"begin", "open", "opened", "size", "start", "started"} \union InLoop
      <3>1. \/ rec'[r].pc \in {"open", "opened", "size", "start", "started", "fclose"} \union InLoop
            \/ Reporting(rec'[r], {"openFailed", "startFailed", "started"})
        BY <1>2, <2>1 DEF GoesOn, InLoop, Reporting
      <3>2. ~PastFclose(r)'
        BY <3>1 DEF InLoop, Reporting, PastFclose, On
      <3>3. ~PastFclose(r)
        BY <2>1 DEF InLoop, PastFclose, On
      <3> QED
        BY <3>2, <3>3
    <2>2. CASE rec[r].pc \in {"fnull", "close", "closed", "stopped"}
      <3>1. \/ rec'[r].pc \in {"close", "closed", "stopped", "finish"}
            \/ Reporting(rec'[r], {"error", "stopped"})
        BY <1>2, <2>2 DEF GoesOn, InLoop, Reporting
      <3> QED
        BY <2>2, <3>1 DEF Reporting, PastFclose
    <2>3. CASE rec[r].pc = "report"
      <3>1. Reporting(rec'[r], {rec[r].say})
        BY <1>2, <2>3 DEF GoesOn, InLoop, Reporting
      <3> QED
        BY <2>3, <3>1 DEF Reporting, PastFclose, On
    <2> QED
      BY <1>2, <2>1, <2>2, <2>3 DEF GoesOn, On
  <1>3. CASE /\ rec[r].pc = "tell" /\ rec'[r].pc = AfterReport[rec[r].say]
             /\ rec'[r].told = rec[r].told \union {rec[r].say}
    <2>1. rec[r].say \in {"started", "openFailed", "startFailed", "error", "stopped"}
      BY SessionTypeParts, AfterReportOK DEF RecOK, RecLocals
    <2>2. AfterReport["openFailed"] = "exit" /\ AfterReport["startFailed"] = "exit"
      BY DEF AfterReport
    <2>3. CASE rec[r].say = "started"
      BY <1>3, <2>3, AfterReportOK DEF PastFclose, On
    <2>4. CASE rec[r].say \in {"openFailed", "startFailed"}
      <3>1. rec'[r].pc = "exit" /\ rec'[r].told \intersect Failures # {}
        BY <1>3, <2>2, <2>4 DEF Failures
      <3> QED
        BY <1>3, <2>4, <3>1 DEF PastFclose, On
    <2>5. CASE rec[r].say \in {"error", "stopped"}
      <3>1. rec'[r].pc \in {"stopped", "finish"}
        BY <1>3, <2>5, AfterReportOK
      <3> QED
        BY <1>3, <2>5, <3>1 DEF PastFclose
    <2> QED
      BY <2>1, <2>3, <2>4, <2>5
  <1> QED
    BY <1>1, <1>2, <1>3, RecordGoesOn

LEMMA SamePast ==
  ASSUME NEW r \in RecordThreads, PastFclose(r)' <=> PastFclose(r),
         \A q \in RecordThreads \ {r} : rec'[q] = rec[q]
  PROVE  UNCHANGED Past
  <1>1. \A q \in RecordThreads : PastFclose(q)' <=> PastFclose(q)
    BY DEF PastFclose, On
  <1> QED
    BY <1>1 DEF Past

LEMMA RecordFclose ==
  ASSUME SessionTypeOK, EngineInv, RestInv, ToldInv, FcloseInv,
         NEW r \in RecordThreads, Record(r)
  PROVE  FcloseInv'
  <1>0. /\ CanTell /\ Running(r) /\ \A q \in RecordThreads : Running(q) => q = r
        /\ \A q \in RecordThreads \ {r} : rec'[q] = rec[q]
        /\ None \notin Files /\ fclosed \subseteq fopened /\ fopened \subseteq Files
    BY RecordAlone, SessionAssumption
       DEF EngineInv, InitMeans, InitHeld, CanTell, RestInv, SessionTypeOK
  <1>1. CASE Fault
    BY <1>1 DEF Fault, sessionVars, files, FcloseInv, Past, PastFclose, On
  <1>2. CASE ~Fault /\ RecFclose(r)
    <2>1. /\ file # None /\ fclosed' = fclosed \union {file} /\ file' = file
          /\ fopened' = fopened /\ On(r, "fclose") /\ Step(r, "fnull")
      BY <1>2 DEF RecFclose, Keep
    <2>2. rec'[r].pc = "fnull"
      BY <2>1, StepSays, SessionTypeParts
    <2>3. file \notin fclosed
      BY <1>0, <2>1 DEF FcloseInv, On, Running
    <2>4. r \notin Past /\ Past' = Past \union {r}
      <3>1. ~PastFclose(r) /\ PastFclose(r)'
        BY <2>1, <2>2 DEF PastFclose, On
      <3>2. \A q \in RecordThreads \ {r} : PastFclose(q)' <=> PastFclose(q)
        BY <1>0 DEF PastFclose, On
      <3> QED
        BY <3>1, <3>2 DEF Past
    <2>5. IsFiniteSet(fclosed) /\ IsFiniteSet(Past) /\ IsFiniteSet(fopened)
      BY <1>0, FS_Subset DEF FcloseInv
    <2>6. /\ IsFiniteSet(Past') /\ Cardinality(Past') = Cardinality(Past) + 1
          /\ Cardinality(fclosed') = Cardinality(fclosed) + 1
      BY <2>1, <2>3, <2>4, <2>5, FS_AddElement
    <2> QED
      BY <2>1, <2>2, <2>5, <2>6 DEF FcloseInv, On
  <1>3. CASE ~Fault /\ ~RecFclose(r)
    <2>1. ~On(r, "fclose")
      BY <1>3 DEF Record, RecBegin, RecOpen, RecOpened, RecSize, RecStart, RecStarted,
         RecLoop, RecCheck, RecRead, RecProcess, RecAlarm, RecFeed, RecEngine,
         RecEngineTell, RecFclose, RecFnull, RecClose, RecClosed, RecStopped,
         RecFinish, RecReport, RecTell, On
    <2>2. UNCHANGED Past
      BY <1>0, <1>3, <2>1, PastStays, SamePast
    <2>3. CASE RecFeed(r)
      <3>1. \/ UNCHANGED <<file, fopened>>
            \/ file' = None /\ UNCHANGED fopened
            \/ \E f \in Files \ fopened : file' = f /\ fopened' = fopened \union {f}
        BY <1>3, <2>3, OneOfIsOne DEF RecFeed
      <3>2. UNCHANGED fclosed /\ ~On(r, "fnull")
        BY <1>3, <2>3 DEF RecFeed, On
      <3>3. \A q \in RecordThreads : On(q, "fnull") => On(q, "fnull")'
        BY <1>0, <3>2 DEF On
      <3> QED
        BY <2>2, <3>1, <3>2, <3>3, FcloseQuiet
    <2>4. CASE RecFnull(r)
      <3>1. file' = None /\ UNCHANGED <<fopened, fclosed>>
        BY <2>4 DEF RecFnull, Keep
      <3>2. None \notin fclosed
        BY <1>0
      <3> QED
        BY <2>2, <3>1, <3>2 DEF FcloseInv
    <2>5. CASE ~RecFeed(r) /\ ~RecFnull(r)
      <3>1. UNCHANGED <<file, fopened, fclosed>>
        BY <1>3, <2>5 DEF Record, RecBegin, RecOpen, RecOpened, RecSize,
           RecStart, RecStarted,
           RecLoop, RecCheck, RecRead, RecProcess, RecAlarm, RecEngine, RecEngineTell,
           RecClose, RecClosed, RecStopped, RecFinish, RecReport, RecTell, Keep
      <3>2. ~On(r, "fnull")
        BY <2>5 DEF Record, RecBegin, RecOpen, RecOpened, RecSize, RecStart, RecStarted,
           RecLoop, RecCheck, RecRead, RecProcess, RecAlarm, RecEngine, RecEngineTell,
           RecFclose, RecClose, RecClosed, RecStopped, RecFinish, RecReport, RecTell, On
      <3>3. \A q \in RecordThreads : On(q, "fnull") => On(q, "fnull")'
        BY <1>0, <3>2 DEF On
      <3> QED
        BY <2>2, <3>1, <3>3, FcloseQuiet
    <2> QED
      BY <2>3, <2>4, <2>5
  <1> QED
    BY <1>1, <1>2, <1>3

LEMMA FcloseInvNext ==
  ASSUME SessionTypeOK, EngineInv, RestInv, ToldInv, FcloseInv, [Next]_vars
  PROVE  FcloseInv'
  <1>1. CASE UNCHANGED <<file, fopened, fclosed, rec>>
    BY <1>1 DEF FcloseInv, Past, PastFclose, On
  <1>2. CASE Ui /\ ~StartCreate
    <2>1. UNCHANGED rec
      BY <1>2, UiRec
    <2>2. UNCHANGED <<file, fopened, fclosed>>
      BY <1>2 DEF Ui, InitCallback, InitCae, InitListener, DestroyFlags, DestroyCallback,
         DestroyCae, DestroyListener, StartAccepted, StopRecord, SetClearBuffer, files
    <2> QED
      BY <1>1, <2>1, <2>2
  <1>3. CASE StartCreate
    <2>1. /\ UNCHANGED fclosed
          /\ \/ file' = None /\ UNCHANGED fopened
             \/ \E f \in Files \ fopened : file' = f /\ fopened' = fopened \union {f}
      BY <1>3, OneOfIsOne DEF StartCreate
    <2>2. \A q \in RecordThreads : ~Running(q)
      BY <1>3 DEF StartCreate, UiAt, RestInv
    <2>3. UNCHANGED Past
      <3>1. CASE UNCHANGED rec
        BY <3>1 DEF Past, PastFclose, On
      <3>2. ASSUME NEW r \in RecordThreads, On(r, "unborn"), Step(r, "begin")
            PROVE  UNCHANGED Past
        <4>1. rec'[r].pc = "begin" /\ \A q \in RecordThreads \ {r} : rec'[q] = rec[q]
          BY <3>2, SessionTypeParts, StepOK DEF RecPc
        <4>2. ~PastFclose(r) /\ ~PastFclose(r)'
          BY <3>2, <4>1 DEF PastFclose, On
        <4> QED
          BY <4>1, <4>2, SamePast
      <3> QED
        BY <1>3, <3>1, <3>2, UiRec DEF Ui
    <2>4. \A q \in RecordThreads : ~On(q, "fnull")
      BY <2>2 DEF Running, On
    <2> QED
      BY <2>1, <2>3, <2>4, FcloseQuiet
  <1>4. ASSUME NEW r \in RecordThreads, Record(r) PROVE FcloseInv'
    BY <1>4, RecordFclose
  <1>5. CASE UNCHANGED sessionVars
    BY <1>1, <1>5 DEF sessionVars, files
  <1> QED
    BY <1>2, <1>3, <1>4, <1>5 DEF Next, InAlsa, CaptureStep, vars

-----------------------------------------------------------------------------
(* AllReleased.                                                            *)

LEMMA ReleasingInit == Init => ReleasingInv /\ FcloseInv
  <1> SUFFICES ASSUME Init PROVE ReleasingInv /\ FcloseInv
    OBVIOUS
  <1>1. /\ \A r \in RecordThreads : rec[r].pc = "unborn" /\ rec[r].say = "started"
        /\ \A t \in Users : th[t].pc = "idle"
        /\ \A c \in Captures : th[c].pc = "unborn"
    BY AlsaAssumption DEF Init, AlsaInit, Threads
  <1>2. PlaceInv
    BY <1>1 DEF PlaceInv, RecordThreads
  <1>3. CaptureInv
    BY <1>1 DEF CaptureInv, CaptureRest
  <1>4. OwnersInv
    BY DEF Init, AlsaInit, OwnersInv
  <1>5. KeptInv
    <2>1. gBase = None /\ gMutex = None /\ opened = {} /\ allocated = {}
      BY DEF Init, AlsaInit
    <2>2. \A t \in Threads : th[t].pc # "closeNull"
      BY <1>1 DEF Threads
    <2> QED
      BY <2>1, <2>2 DEF KeptInv, KeptPcm, KeptBase, KeptMutex, KeptQueue
  <1>6. FcloseInv
    <2>1. Past = {} /\ fclosed = {} /\ fopened = {} /\ file = None
      BY <1>1 DEF Init, Past, PastFclose, On
    <2> QED
      BY <2>1, FS_EmptySet DEF FcloseInv
  <1> QED
    BY <1>2, <1>3, <1>4, <1>5, <1>6 DEF ReleasingInv

\* When all threads have ended and no start has failed, nothing is owned any more.
LEMMA RestReleases ==
  ASSUME SessionTypeOK, ReleaseInv, FlagInv, ReleasingInv, FcloseInv, AtRest, UiAt("idle"),
         \A r \in RecordThreads : rec[r].told \intersect Failures = {}
  PROVE  /\ gPcm = None /\ gQueue = None /\ gBase = None /\ gMutex = None
         /\ \A p \in opened : closes[p] = 1
         /\ \A b \in allocated : frees[b] = 1
         /\ ~gRecording /\ ~isRecording
         /\ Cardinality(fopened) = Cardinality({r \in RecordThreads : On(r, "exit")})
              => file = None /\ fclosed = fopened
  <1>1. \A r \in RecordThreads : rec[r].pc \in {"unborn", "exit"}
    BY DEF AtRest, Running
  <1>2. ~Spoilt
    BY <1>1 DEF Spoilt, Failed, UiAt
  <1>3. PlaceInv /\ OwnersInv /\ KeptInv
    BY <1>2 DEF ReleasingInv
  <1>4. gPcm = None /\ gQueue = None /\ gBase = None /\ ~gRecording
    BY <1>1, <1>3, HolderRuns DEF OwnersInv, HoldsAny, Running
  <1>5. ~isRecording
    BY <1>1 DEF FlagInv, Answers
  <1>6. \A t \in Threads : th[t].pc \notin Holding
    <2>1. \A r \in RecordThreads : th[r].pc \in {"idle", "dead"}
      BY <1>1, <1>3, PlaceTable DEF PlaceInv, RecPc
    <2>2. \A c \in Captures : th[c].pc \in {"unborn", "exit"}
      BY DEF AtRest
    <2> QED
      BY <2>1, <2>2 DEF Threads, RecordThreads, Holding, ClosePc
  <1>7. gMutex = None
    BY <1>3, <1>6 DEF KeptInv, KeptMutex, ReleaseInv, AlsaTypeOK
  <1>8. \A p \in opened : closes[p] = 1
    <2> SUFFICES ASSUME NEW p \in opened PROVE closes[p] = 1
      OBVIOUS
    <2>1. p \in Pcms /\ p # None /\ closes[p] \in Nat
      BY AlsaAssumption DEF SessionTypeOK, AlsaTypeOK
    <2>2. closes[p] # 0 /\ closes[p] <= 1
      BY <1>3, <1>4, <2>1 DEF KeptInv, KeptPcm, ReleaseInv, PcmInv
    <2> QED
      BY <2>1, <2>2
  <1>9. \A b \in allocated : frees[b] = 1
    <2> SUFFICES ASSUME NEW b \in allocated PROVE frees[b] = 1
      OBVIOUS
    <2>1. b \in Blocks /\ b # None /\ frees[b] \in Nat
      BY AlsaAssumption DEF SessionTypeOK, AlsaTypeOK
    <2>2. frees[b] # 0 /\ frees[b] <= 1
      BY <1>3, <1>4, <2>1 DEF KeptInv, KeptBase, ReleaseInv, BaseInv
    <2> QED
      BY <2>1, <2>2
  <1>10. ASSUME Cardinality(fopened) = Cardinality({r \in RecordThreads : On(r, "exit")})
         PROVE  file = None /\ fclosed = fopened
    <2>1. Past = {r \in RecordThreads : On(r, "exit")}
      BY <1>1 DEF Past, PastFclose, On
    <2>2. IsFiniteSet(fopened) /\ fclosed \subseteq fopened
          /\ Cardinality(fclosed) = Cardinality(fopened)
      BY <1>10, <2>1 DEF FcloseInv, SessionTypeOK
    <2>3. fclosed = fopened
      BY <2>2, FS_Subset
    <2>4. file \in fopened \union {None} /\ \A r \in RecordThreads : ~On(r, "fnull")
      BY <1>1 DEF SessionTypeOK, On
    <2> QED
      BY <2>3, <2>4 DEF FcloseInv
  <1> QED
    BY <1>4, <1>5, <1>7, <1>8, <1>9, <1>10

\* To an application that calls startRecord and destroy only when no earlier
\* session's threads are left, nothing stays behind when all threads have ended
\* and each session could start: the device and the block of the queue have been
\* released, each exactly once, the mutex is free, both flags allow the next
\* session, and the files of all sessions are closed; for any number of sessions,
\* wherever stops come and whatever fails after the start (Recorder.cpp:374-390,
\* alsa_recorder.cpp:190-207).
THEOREM NothingStaysBehind ==
  ASSUME {"destroy", "start"} \subseteq Waits
  PROVE  Spec => []AllReleased
  <1> DEFINE SessionInv == SessionTypeOK /\ EngineInv /\ LifeInv /\ RestInv /\ ToldInv
             Inv == SessionInv /\ ReleaseInv /\ FlagInv /\ ReleasingInv /\ FcloseInv
  <1>0. {"destroy", "start"} \subseteq Waits /\ "destroy" \in Waits /\ "start" \in Waits
    OBVIOUS
  <1>1. Init => Inv
    BY ToldInvInit, ReleaseInvInit, ReleasingInit DEF Init, FlagInv
  <1>2. Inv /\ [Next]_vars => Inv'
    <2> SUFFICES ASSUME Inv, [Next]_vars PROVE Inv'
      OBVIOUS
    <2>1. SessionInv'
      BY <1>0, SessionNextTypeOK, EngineInvNext, LifeInvNext, RestInvNext, ToldInvNext
    <2>2. ReleaseInv' /\ FlagInv'
      BY SessionAlsaStep, AlsaStepRelease, FlagInvNext
    <2>3. ReleasingInv' /\ FcloseInv'
      BY <1>0, ReleasingInvNext, FcloseInvNext
    <2> QED
      BY <2>1, <2>2, <2>3
  <1>3. Inv => AllReleased
    BY RestReleases DEF AllReleased, Failures
  <1> QED
    BY <1>1, <1>2, <1>3, PTL DEF Spec
=============================================================================

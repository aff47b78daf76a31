-------------------------- MODULE AudioQueueProofs --------------------------
(***************************************************************************)
(* What TLAPS proves about AudioQueue for every capacity, buffer size,     *)
(* block size and set of readers.                                          *)
(*                                                                         *)
(* TypeOK is inductive as it stands.  WriteInBlock is not: that the memcpy *)
(* pair of queue_write stays in the block depends on rear being the same   *)
(* at each of its loads, which WriterInv records step by step and which    *)
(* holds as long as no caller of PcmRead clears the queue.                 *)
(***************************************************************************)
EXTENDS AudioQueue, TLAPS

-----------------------------------------------------------------------------
(* Indices and lengths.                                                    *)

LEMMA CapacityPositive == Capacity \in Nat \ {0}
  BY QueueAssumption

\* The length of the queue is always less than its capacity.
LEMMA LenRange ==
  ASSUME NEW f \in Index, NEW r \in Index
  PROVE  QueueLen(f, r) \in 0 .. Capacity - 1 /\ QueueLeft(f, r) \in 0 .. Capacity - 1
  <1>1. r - f + Capacity \in Int
    BY CapacityPositive DEF Index
  <1>2. QueueLen(f, r) \in 0 .. Capacity - 1
    BY <1>1, CapacityPositive DEF QueueLen
  <1> QED
    BY <1>2, CapacityPositive DEF QueueLeft

\* Moving an index forward yields an index.
LEMMA ForwardRange ==
  ASSUME NEW i \in Index, NEW n \in Nat
  PROVE  Forward(i, n) \in Index
  <1>1. i + n \in Int
    BY CapacityPositive DEF Index
  <1> QED
    BY <1>1, CapacityPositive DEF Forward, Index

\* QueueLen without the modulus.
LEMMA LenCases ==
  ASSUME NEW f \in Index, NEW r \in Index
  PROVE  QueueLen(f, r) = IF f <= r THEN r - f ELSE r - f + Capacity
  <1>1. CASE f <= r
    <2>1. r - f \in Nat /\ r - f < Capacity
      BY <1>1, CapacityPositive DEF Index
    <2>2. (r - f + Capacity) % Capacity = r - f
      BY <2>1, CapacityPositive
    <2> QED
      BY <1>1, <2>2 DEF QueueLen
  <1>2. CASE ~(f <= r)
    <2>1. r - f + Capacity \in Nat /\ r - f + Capacity < Capacity
      BY <1>2, CapacityPositive DEF Index
    <2>2. (r - f + Capacity) % Capacity = r - f + Capacity
      BY <2>1, CapacityPositive
    <2> QED
      BY <1>2, <2>2 DEF QueueLen
  <1> QED
    BY <1>1, <1>2

\* Forward without the modulus.
LEMMA ForwardCases ==
  ASSUME NEW i \in Index, NEW n \in Nat, n <= Capacity
  PROVE  Forward(i, n) = IF i + n < Capacity THEN i + n ELSE i + n - Capacity
  <1>1. CASE i + n < Capacity
    BY <1>1, CapacityPositive DEF Index, Forward
  <1>2. CASE ~(i + n < Capacity)
    <2>1. i + n - Capacity \in Nat /\ i + n - Capacity < Capacity
      BY <1>2, CapacityPositive DEF Index
    <2>2. (i + n) % Capacity = i + n - Capacity
      BY <2>1, CapacityPositive DEF Index
    <2> QED
      BY <1>2, <2>2 DEF Forward
  <1> QED
    BY <1>1, <1>2

\* Moving rear into free room makes the queue longer by as much.
LEMMA LenForwardRear ==
  ASSUME NEW f \in Index, NEW r \in Index, NEW n \in Nat, QueueLeft(f, r) >= n
  PROVE  /\ QueueLen(f, Forward(r, n)) = QueueLen(f, r) + n
         /\ QueueLeft(f, Forward(r, n)) = QueueLeft(f, r) - n
  <1>1. QueueLen(f, r) + n < Capacity /\ n <= Capacity
    BY LenRange, CapacityPositive DEF QueueLeft
  <1>2. /\ QueueLen(f, r) = IF f <= r THEN r - f ELSE r - f + Capacity
        /\ Forward(r, n) = IF r + n < Capacity THEN r + n ELSE r + n - Capacity
        /\ Forward(r, n) \in Index
    BY <1>1, LenCases, ForwardCases, ForwardRange
  <1>3. QueueLen(f, Forward(r, n)) = IF f <= Forward(r, n) THEN Forward(r, n) - f
                                       ELSE Forward(r, n) - f + Capacity
    BY <1>2, LenCases
  <1>4. QueueLen(f, Forward(r, n)) = QueueLen(f, r) + n
    BY <1>1, <1>2, <1>3, CapacityPositive DEF Index
  <1> QED
    BY <1>4, LenRange, CapacityPositive DEF QueueLeft

\* Moving front over bytes of the queue makes it shorter by as much.
LEMMA LenForwardFront ==
  ASSUME NEW f \in Index, NEW r \in Index, NEW n \in Nat, QueueLen(f, r) >= n
  PROVE  /\ QueueLen(Forward(f, n), r) = QueueLen(f, r) - n
         /\ QueueLeft(Forward(f, n), r) = QueueLeft(f, r) + n
  <1>1. QueueLen(f, r) < Capacity /\ n <= Capacity
    BY LenRange, CapacityPositive
  <1>2. /\ QueueLen(f, r) = IF f <= r THEN r - f ELSE r - f + Capacity
        /\ Forward(f, n) = IF f + n < Capacity THEN f + n ELSE f + n - Capacity
        /\ Forward(f, n) \in Index
    BY <1>1, LenCases, ForwardCases, ForwardRange
  <1>3. QueueLen(Forward(f, n), r) = IF Forward(f, n) <= r THEN r - Forward(f, n)
                                       ELSE r - Forward(f, n) + Capacity
    BY <1>2, LenCases
  <1>4. QueueLen(Forward(f, n), r) = QueueLen(f, r) - n
    BY <1>1, <1>2, <1>3, CapacityPositive DEF Index
  <1> QED
    BY <1>4, LenRange, CapacityPositive DEF QueueLeft

\* queue_empty, queue_full, queue_len and queue_left (AudioQueue.c:81-125)
\* agree: the one unused byte makes a full queue and an empty one differ.
THEOREM EmptyAndFullAgree ==
  ASSUME NEW f \in Index, NEW r \in Index
  PROVE  /\ QueueEmpty(f, r) <=> QueueLen(f, r) = 0
         /\ QueueFull(f, r) <=> QueueLeft(f, r) = 0
         /\ ~(QueueEmpty(f, r) /\ QueueFull(f, r))
  <1>1. QueueEmpty(f, r) <=> QueueLen(f, r) = 0
    BY LenCases, CapacityPositive DEF QueueEmpty, Index
  <1>2. (r + 1 + Capacity) % Capacity = IF r + 1 = Capacity THEN 0 ELSE r + 1
    <2>1. CASE r + 1 = Capacity
      BY <2>1, CapacityPositive
    <2>2. CASE r + 1 # Capacity
      <3>1. r + 1 \in Nat /\ r + 1 < Capacity
        BY <2>2, CapacityPositive DEF Index
      <3> QED
        BY <2>2, <3>1, CapacityPositive
    <2> QED
      BY <2>1, <2>2
  <1>3. QueueFull(f, r) <=> QueueLeft(f, r) = 0
    BY <1>2, LenCases, CapacityPositive DEF QueueFull, QueueLeft, Index
  <1>4. Capacity > 1
    BY QueueAssumption
  <1> QED
    BY <1>1, <1>3, <1>4, CapacityPositive DEF QueueLeft

-----------------------------------------------------------------------------
(* TypeOK.                                                                 *)

\* What the type invariant says of one call, and what a call may assign.
LEMMA LocalsUpdate ==
  ASSUME NEW PC, NEW l \in Locals(PC), NEW pc \in PC,
         NEW b \in Index, NEW l1 \in Int, NEW l2 \in Int, NEW n \in Index
  PROVE  /\ [l EXCEPT !.pc = pc] \in Locals(PC)
         /\ [l EXCEPT !.pc = pc, !.begin = b] \in Locals(PC)
         /\ [l EXCEPT !.pc = pc, !.len1 = l1, !.len2 = l2] \in Locals(PC)
         /\ [l EXCEPT !.pc = pc, !.next = n] \in Locals(PC)
  BY DEF Locals

LEMMA OneCopy ==
  ASSUME NEW PC, NEW l \in Locals(PC), "copy" \in PC, NEW n \in Int, NEW z \in Int
  PROVE  [l EXCEPT !.pc = "copy", !.len1 = n, !.len2 = z] \in Locals(PC)
  BY DEF Locals

LEMMA OutsideType ==
  ASSUME NEW PC, "idle" \in PC
  PROVE  Outside \in Locals(PC)
  BY CapacityPositive DEF Outside, Locals, Index

LEMMA InitTypeOK == Init => TypeOK
  <1>1. "idle" \in WriterPc /\ "idle" \in ReaderPc
    BY DEF WriterPc, ReaderPc
  <1>2. 0 \in Index
    BY CapacityPositive DEF Index
  <1> QED
    BY <1>1, <1>2, OutsideType DEF Init, TypeOK

LEMMA WriterTypeOK ==
  ASSUME TypeOK, Writer
  PROVE  TypeOK'
  <1> USE DEF TypeOK
  <1>0. /\ "idle" \in WriterPc /\ 0 \in Index
        /\ rear \in Int /\ Capacity \in Int /\ WriteLen \in Nat
    BY CapacityPositive, QueueAssumption DEF Index, WriterPc
  <1>1. CASE WEnter
    BY <1>1, LocalsUpdate, <1>0 DEF WEnter, WriterPc
  <1>2. CASE WOverflow
    BY <1>2, LocalsUpdate, <1>0 DEF WOverflow, WriterPc
  <1>3. CASE WDropFront
    BY <1>3, LocalsUpdate, <1>0 DEF WDropFront, WriterPc
  <1>4. CASE WDropRear
    BY <1>4, OutsideType, <1>0 DEF WDropRear
  <1>5. CASE WBegin
    BY <1>5, LocalsUpdate, <1>0 DEF WBegin, WriterPc
  <1>6. CASE WCheck
    <2>1. [w EXCEPT !.pc = "copy", !.len1 = WriteLen, !.len2 = 0] \in Locals(WriterPc)
      <3>1. "copy" \in WriterPc /\ WriteLen \in Int /\ 0 \in Int
        BY <1>0 DEF WriterPc
      <3> QED
        BY <3>1, OneCopy, Zenon
    <2>2. [w EXCEPT !.pc = "split"] \in Locals(WriterPc)
      BY <1>0, LocalsUpdate DEF WriterPc
    <2> QED
      BY <1>6, <2>1, <2>2 DEF WCheck
  <1>7. CASE WSplit
    <2> DEFINE d == Capacity - 1 - rear + 1
    <2>1. d \in Int /\ WriteLen - d \in Int
      BY <1>0
    <2>2. [w EXCEPT !.pc = "copy", !.len1 = d, !.len2 = WriteLen - d] \in Locals(WriterPc)
      BY <2>1 DEF Locals, WriterPc
    <2> QED
      BY <1>7, <2>2 DEF WSplit
  <1>8. CASE WCopy
    BY <1>8, LocalsUpdate, <1>0 DEF WCopy, WriterPc
  <1>9. CASE WLoad
    BY <1>9, LocalsUpdate, ForwardRange, <1>0 DEF WLoad, WriterPc
  <1>10. CASE WStore
    <2>1. w.next \in Index
      BY DEF Locals
    <2> QED
      BY <1>10, <2>1, LocalsUpdate, <1>0 DEF WStore, WriterPc
  <1>11. CASE WSignal
    <2>1. w' \in Locals(WriterPc)
      BY <1>11, OutsideType, <1>0 DEF WSignal
    <2>2. waiters' \subseteq Readers /\ rd' \in [Readers -> Locals(ReaderPc)]
      <3>1. CASE UNCHANGED <<waiters, rd>>
        BY <3>1
      <3>2. ASSUME NEW r \in waiters, waiters' = waiters \ {r},
                   rd' = [rd EXCEPT ![r].pc = "wake"]
            PROVE  waiters' \subseteq Readers /\ rd' \in [Readers -> Locals(ReaderPc)]
        BY <3>2, LocalsUpdate, <1>0 DEF ReaderPc
      <3> QED
        BY <1>11, <3>1, <3>2 DEF WSignal
    <2> QED
      BY <1>11, <2>1, <2>2 DEF WSignal
  <1> QED
    BY <1>1, <1>2, <1>3, <1>4, <1>5, <1>6, <1>7, <1>8, <1>9, <1>10, <1>11 DEF Writer

LEMMA ReaderTypeOK ==
  ASSUME TypeOK, NEW r \in Readers, Reader(r)
  PROVE  TypeOK'
  <1> USE DEF TypeOK
  <1>0. /\ "idle" \in ReaderPc /\ 0 \in Index
        /\ front \in Int /\ Capacity \in Int /\ ReadLen \in Nat
        /\ rd[r] \in Locals(ReaderPc)
    BY CapacityPositive, QueueAssumption DEF Index, ReaderPc
  <1>1. CASE RCall(r)
    <2>1. PICK shouldClear \in {FALSE, Clearing} :
            rd' = [rd EXCEPT ![r].pc = IF shouldClear THEN "clearFront" ELSE "lock"]
      BY <1>1 DEF RCall
    <2>2. /\ [rd[r] EXCEPT !.pc = "clearFront"] \in Locals(ReaderPc)
          /\ [rd[r] EXCEPT !.pc = "lock"] \in Locals(ReaderPc)
      BY <1>0 DEF Locals, ReaderPc
    <2>3. rd' \in [Readers -> Locals(ReaderPc)]
      BY <2>1, <2>2
    <2> QED
      BY <1>1, <2>3 DEF RCall
  <1>2. CASE RClearFront(r)
    BY <1>2, LocalsUpdate, <1>0 DEF RClearFront, ReaderPc
  <1>3. CASE RClearRear(r)
    BY <1>3, LocalsUpdate, <1>0 DEF RClearRear, ReaderPc
  <1>4. CASE RLock(r)
    BY <1>4, LocalsUpdate, <1>0 DEF RLock, ReaderPc
  <1>5. CASE RCheck(r)
    BY <1>5, LocalsUpdate, <1>0 DEF RCheck, ReaderPc
  <1>6. CASE RSleep(r)
    BY <1>6, LocalsUpdate, <1>0 DEF RSleep, ReaderPc
  <1>7. CASE RSpurious(r)
    BY <1>7, LocalsUpdate, <1>0 DEF RSpurious, ReaderPc
  <1>8. CASE RWake(r)
    BY <1>8, LocalsUpdate, <1>0 DEF RWake, ReaderPc
  <1>9. CASE RBranch(r)
    <2>1. [rd[r] EXCEPT !.pc = "copy", !.len1 = ReadLen, !.len2 = 0] \in Locals(ReaderPc)
      <3>1. "copy" \in ReaderPc /\ ReadLen \in Int /\ 0 \in Int
        BY <1>0 DEF ReaderPc
      <3> QED
        BY <1>0, <3>1, OneCopy, Zenon
    <2>2. [rd[r] EXCEPT !.pc = "split"] \in Locals(ReaderPc)
      BY <1>0, LocalsUpdate DEF ReaderPc
    <2> QED
      BY <1>9, <2>1, <2>2 DEF RBranch
  <1>10. CASE RSplit(r)
    <2> DEFINE d == Capacity - 1 - front + 1
    <2>1. d \in Int /\ ReadLen - d \in Int
      BY <1>0
    <2>2. [rd[r] EXCEPT !.pc = "copy", !.len1 = d, !.len2 = ReadLen - d] \in Locals(ReaderPc)
      BY <1>0, <2>1 DEF Locals, ReaderPc
    <2> QED
      BY <1>10, <2>2 DEF RSplit
  <1>11. CASE RCopy(r)
    BY <1>11, LocalsUpdate, <1>0 DEF RCopy, ReaderPc
  <1>12. CASE RLoad(r)
    BY <1>12, LocalsUpdate, ForwardRange, <1>0 DEF RLoad, ReaderPc
  <1>13. CASE RStore(r)
    <2>1. rd[r].next \in Index
      BY <1>0 DEF Locals
    <2> QED
      BY <1>13, <2>1, OutsideType, <1>0 DEF RStore
  <1> QED
    BY <1>1, <1>2, <1>3, <1>4, <1>5, <1>6, <1>7, <1>8, <1>9, <1>10, <1>11,
       <1>12, <1>13 DEF Reader

LEMMA NextTypeOK == TypeOK /\ [Next]_vars => TypeOK'
  <1> SUFFICES ASSUME TypeOK, [Next]_vars PROVE TypeOK'
    OBVIOUS
  <1>1. CASE Writer
    BY <1>1, WriterTypeOK
  <1>2. ASSUME NEW r \in Readers, Reader(r) PROVE TypeOK'
    BY <1>2, ReaderTypeOK
  <1>3. CASE UNCHANGED vars
    BY <1>3 DEF vars, TypeOK
  <1> QED
    BY <1>1, <1>2, <1>3 DEF Next

\* front, rear and every index computed from them stay inside the data area
\* of queue_init, for any number of readers, with overflow resets and clears
\* racing the writer: the modulus of AudioQueue.c:170 and :211 is enough.
THEOREM TypeCorrect == Spec => []TypeOK
  BY InitTypeOK, NextTypeOK, PTL DEF Spec

-----------------------------------------------------------------------------
(* The writer stays in the block.                                          *)

\* No reader is inside the clearing of PcmRead.
NoClear == \A r \in Readers : rd[r].pc \notin {"clearFront", "clearRear"}

\* Every load of rear in a queue_write call returns the rear of its first.
WriterInv ==
  /\ w.pc \in {"check", "split", "copy"} => w.begin = rear
  /\ w.pc = "split" => rear + WriteLen > Capacity - 1
  /\ w.pc = "copy" =>
       \/ w.len1 = WriteLen /\ w.len2 = 0 /\ rear + WriteLen <= Capacity - 1
       \/ /\ w.len1 = Capacity - rear /\ w.len2 = WriteLen - w.len1
          /\ rear + WriteLen > Capacity - 1

BlockInv == TypeOK /\ NoClear /\ WriterInv

LEMMA BlockInvWriter ==
  ASSUME BlockInv, Writer
  PROVE  NoClear' /\ WriterInv'
  <1> USE DEF BlockInv, TypeOK
  <1>0. /\ rear \in Int /\ Capacity \in Int /\ WriteLen \in Nat
        /\ w = [pc |-> w.pc, begin |-> w.begin, len1 |-> w.len1,
                len2 |-> w.len2, next |-> w.next]
    BY CapacityPositive, QueueAssumption DEF Index, Locals
  <1>1. NoClear'
    <2>1. CASE WSignal
      <3>1. CASE UNCHANGED <<waiters, rd>>
        BY <3>1 DEF NoClear
      <3>2. ASSUME NEW r \in waiters, rd' = [rd EXCEPT ![r].pc = "wake"]
            PROVE  NoClear'
        <4>1. r \in Readers /\ rd[r] \in Locals(ReaderPc)
          OBVIOUS
        <4> QED
          BY <3>2, <4>1 DEF NoClear, Locals
      <3> QED
        BY <2>1, <3>1, <3>2 DEF WSignal
    <2>2. CASE UNCHANGED rd
      BY <2>2 DEF NoClear
    <2> QED
      BY <2>1, <2>2 DEF Writer, WEnter, WOverflow, WDropFront, WDropRear, WBegin,
         WCheck, WSplit, WCopy, WLoad, WStore
  <1>2. WriterInv'
    <2>1. CASE WEnter \/ WOverflow \/ WDropFront \/ WCopy \/ WLoad \/ WStore
      <3>1. w'.pc \in {"begin", "dropFront", "dropRear", "load", "store", "signal"}
        BY <1>0, <2>1 DEF WEnter, WOverflow, WDropFront, WCopy, WLoad, WStore
      <3> QED
        BY <3>1 DEF WriterInv
    <2>2. CASE WDropRear \/ WSignal
      BY <2>2 DEF WDropRear, WSignal, Outside, WriterInv
    <2>3. CASE WBegin
      BY <1>0, <2>3 DEF WBegin, WriterInv
    <2>4. CASE WCheck
      BY <1>0, <2>4 DEF WCheck, WriterInv
    <2>5. CASE WSplit
      BY <1>0, <2>5 DEF WSplit, WriterInv
    <2> QED
      BY <2>1, <2>2, <2>3, <2>4, <2>5 DEF Writer
  <1> QED
    BY <1>1, <1>2

LEMMA BlockInvReader ==
  ASSUME BlockInv, ~Clearing, NEW r \in Readers, Reader(r)
  PROVE  NoClear' /\ WriterInv'
  <1> USE DEF BlockInv, TypeOK
  <1>1. ~(RClearFront(r) \/ RClearRear(r))
    BY DEF RClearFront, RClearRear, NoClear
  <1>2. UNCHANGED <<rear, w>>
    BY <1>1 DEF Reader, RCall, RLock, RCheck, RSleep, RSpurious, RWake, RBranch,
       RSplit, RCopy, RLoad, RStore
  <1>3. WriterInv'
    BY <1>2 DEF WriterInv
  <1>4. /\ rd[r] \in Locals(ReaderPc)
        /\ DOMAIN rd = Readers
    OBVIOUS
  <1>5. \A s \in Readers \ {r} : rd'[s] = rd[s]
    BY <1>1, <1>4 DEF Reader, RCall, RLock, RCheck, RSleep, RSpurious, RWake,
       RBranch, RSplit, RCopy, RLoad, RStore
  <1>6. rd'[r].pc \notin {"clearFront", "clearRear"}
    BY <1>1, <1>4 DEF Reader, RCall, RLock, RCheck, RSleep, RSpurious, RWake,
       RBranch, RSplit, RCopy, RLoad, RStore, Locals, Outside
  <1>7. NoClear'
    BY <1>5, <1>6 DEF NoClear
  <1> QED
    BY <1>3, <1>7

LEMMA BlockInvNext ==
  ASSUME ~Clearing
  PROVE  BlockInv /\ [Next]_vars => BlockInv'
  <1> SUFFICES ASSUME BlockInv, [Next]_vars PROVE BlockInv'
    OBVIOUS
  <1>1. TypeOK'
    BY NextTypeOK DEF BlockInv
  <1>2. CASE Writer
    BY <1>1, <1>2, BlockInvWriter DEF BlockInv
  <1>3. ASSUME NEW r \in Readers, Reader(r) PROVE BlockInv'
    BY <1>1, <1>3, BlockInvReader DEF BlockInv
  <1>4. CASE UNCHANGED vars
    BY <1>1, <1>4 DEF vars, BlockInv, NoClear, WriterInv
  <1> QED
    BY <1>2, <1>3, <1>4 DEF Next

LEMMA BlockInvInit == Init => BlockInv
  <1> SUFFICES ASSUME Init PROVE BlockInv
    OBVIOUS
  <1>1. TypeOK
    BY InitTypeOK
  <1>2. NoClear /\ WriterInv
    BY DEF Init, Outside, NoClear, WriterInv
  <1> QED
    BY <1>1, <1>2 DEF BlockInv

LEMMA BlockInvEnough == BlockInv => WriteInBlock
  <1> SUFFICES ASSUME BlockInv, w.pc = "copy" PROVE InBlock(w)
    BY DEF WriteInBlock
  <1>1. /\ rear \in Nat /\ rear < Capacity
        /\ Capacity \in Nat /\ WriteLen \in Nat /\ WriteLen < Capacity
    BY CapacityPositive, QueueAssumption DEF Index, BlockInv, TypeOK
  <1> QED
    BY <1>1 DEF BlockInv, WriterInv, InBlock

\* As long as no caller of PcmRead clears the queue, queue_write never copies
\* outside the block of queue_init, although it holds no lock, may drop the
\* queue at any time and races any number of readers (AudioQueue.c:127-176).
THEOREM WriterStaysInBlock ==
  ASSUME ~Clearing
  PROVE  Spec => []WriteInBlock
  <1>1. BlockInv /\ [Next]_vars => BlockInv'
    BY BlockInvNext
  <1> QED
    BY <1>1, BlockInvInit, BlockInvEnough, PTL DEF Spec

-----------------------------------------------------------------------------
(* The readers, while nothing is cleared and nothing is dropped.           *)

\* The places of queue_read at which the mutex is held.
Holding == {"check", "sleep", "branch", "split", "copy", "load", "store"}

\* The waiters are the readers inside pthread_cond_wait.
WaitersInv == waiters = {r \in Readers : rd[r].pc = "wait"}

\* A queue_write under way has its room, whatever the readers do meanwhile.
WriterFlow ==
  /\ w.pc \notin {"dropFront", "dropRear"}
  /\ w.pc \in {"begin", "check", "split", "copy", "load", "store"}
       => QueueLeft(front, rear) >= WriteLen
  /\ w.pc = "store" => w.next = Forward(rear, WriteLen)

\* A queue_read that left its loop has its block, and front is the same at
\* each of its loads.
ReaderFlow(r) ==
  /\ rd[r].pc \in Holding => mutex = r
  /\ rd[r].pc \in {"branch", "split", "copy", "load", "store"}
       => QueueLen(front, rear) >= ReadLen
  /\ rd[r].pc = "split" => front + ReadLen > Capacity - 1
  /\ rd[r].pc = "copy" =>
       \/ rd[r].len1 = ReadLen /\ rd[r].len2 = 0 /\ front + ReadLen <= Capacity - 1
       \/ /\ rd[r].len1 = Capacity - front /\ rd[r].len2 = ReadLen - rd[r].len1
          /\ front + ReadLen > Capacity - 1
  /\ rd[r].pc = "store" => rd[r].next = Forward(front, ReadLen)

FlowInv ==
  BlockInv /\ WaitersInv /\ WriterFlow /\ \A r \in Readers : ReaderFlow(r)

\* The only reader's begin, although computed before the wait, is front.
HeadInv ==
  \A r \in Readers :
    rd[r].pc \in {"check", "sleep", "wait", "wake", "branch", "split", "copy"}
      => rd[r].begin = front

LEMMA FlowInvInit == Init => FlowInv /\ HeadInv
  <1> SUFFICES ASSUME Init PROVE FlowInv /\ HeadInv
    OBVIOUS
  <1>1. BlockInv
    BY BlockInvInit
  <1>2. w.pc = "idle" /\ \A r \in Readers : rd[r].pc = "idle"
    BY DEF Init, Outside
  <1>3. WaitersInv
    BY <1>2 DEF Init, WaitersInv
  <1>4. WriterFlow
    BY <1>2 DEF WriterFlow
  <1>5. \A r \in Readers : ReaderFlow(r)
    BY <1>2 DEF ReaderFlow, Holding
  <1>6. HeadInv
    BY <1>2 DEF HeadInv
  <1> QED
    BY <1>1, <1>3, <1>4, <1>5, <1>6 DEF FlowInv

\* The types the step proofs use, as facts about numbers and records.
LEMMA FlowFacts ==
  ASSUME TypeOK
  PROVE  /\ front \in Index /\ rear \in Index
         /\ QueueLen(front, rear) \in 0 .. Capacity - 1
         /\ QueueLeft(front, rear) = Capacity - 1 - QueueLen(front, rear)
         /\ Capacity \in Nat \ {0} /\ WriteLen \in Nat \ {0} /\ ReadLen \in Nat \ {0}
         /\ WriteLen < Capacity /\ ReadLen < Capacity
         /\ w = [pc |-> w.pc, begin |-> w.begin, len1 |-> w.len1,
                 len2 |-> w.len2, next |-> w.next]
         /\ DOMAIN rd = Readers
         /\ \A r \in Readers :
              rd[r] = [pc |-> rd[r].pc, begin |-> rd[r].begin, len1 |-> rd[r].len1,
                       len2 |-> rd[r].len2, next |-> rd[r].next]
  BY LenRange, CapacityPositive, QueueAssumption DEF QueueLeft, TypeOK, Locals

\* The steps of the writer that change only where it is.
LEMMA FlowWriterQuiet ==
  ASSUME FlowInv, WEnter \/ WBegin \/ WCheck \/ WSplit \/ WCopy \/ WLoad
  PROVE  WaitersInv' /\ WriterFlow' /\ \A r \in Readers : ReaderFlow(r)'
  <1> USE FlowFacts DEF FlowInv, BlockInv
  <1>1. UNCHANGED <<front, rear, mutex, waiters, rd>>
    BY DEF WEnter, WBegin, WCheck, WSplit, WCopy, WLoad
  <1>2. WaitersInv' /\ \A r \in Readers : ReaderFlow(r)'
    BY <1>1 DEF WaitersInv, ReaderFlow
  <1>3. WriterFlow'
    <2>1. CASE WEnter
      BY <2>1, <1>1 DEF WEnter, WriterFlow
    <2>2. CASE WBegin \/ WCheck \/ WSplit \/ WCopy
      BY <2>2, <1>1 DEF WBegin, WCheck, WSplit, WCopy, WriterFlow
    <2>3. CASE WLoad
      BY <2>3, <1>1 DEF WLoad, WriterFlow
    <2> QED
      BY <2>1, <2>2, <2>3
  <1> QED
    BY <1>2, <1>3

\* A stored buffer adds its bytes to the queue.
LEMMA StoreGrows ==
  ASSUME FlowInv, WStore
  PROVE  /\ QueueLen(front', rear') = QueueLen(front, rear) + WriteLen
         /\ rear' = Forward(rear, WriteLen) /\ front' = front
         /\ w.pc = "store" /\ w'.pc = "signal"
         /\ UNCHANGED <<mutex, waiters, rd>>
  <1>1. /\ QueueLeft(front, rear) >= WriteLen /\ rear' = Forward(rear, WriteLen)
        /\ front' = front /\ w.pc = "store" /\ UNCHANGED <<mutex, waiters, rd>>
    BY DEF FlowInv, WriterFlow, WStore
  <1>2. QueueLen(front, Forward(rear, WriteLen)) = QueueLen(front, rear) + WriteLen
    BY <1>1, LenForwardRear, FlowFacts DEF FlowInv, BlockInv
  <1>3. w'.pc = "signal"
    BY FlowFacts DEF WStore, FlowInv, BlockInv
  <1> QED
    BY <1>1, <1>2, <1>3

\* A stored front takes its bytes from the queue.
LEMMA StoreShrinks ==
  ASSUME FlowInv, NEW r \in Readers, RStore(r)
  PROVE  /\ QueueLen(front, rear) >= ReadLen
         /\ QueueLen(front', rear') = QueueLen(front, rear) - ReadLen
         /\ front' = Forward(front, ReadLen) /\ rear' = rear
         /\ mutex = r /\ rd[r].pc = "store" /\ mutex' = NoReader
         /\ rd' = [rd EXCEPT ![r] = Outside] /\ UNCHANGED <<waiters, w>>
  <1>1. ReaderFlow(r)
    BY DEF FlowInv
  <1>2. /\ QueueLen(front, rear) >= ReadLen /\ front' = Forward(front, ReadLen)
        /\ rear' = rear /\ mutex = r /\ rd[r].pc = "store" /\ mutex' = NoReader
        /\ rd' = [rd EXCEPT ![r] = Outside] /\ UNCHANGED <<waiters, w>>
    BY <1>1 DEF ReaderFlow, RStore, Holding
  <1>3. QueueLen(Forward(front, ReadLen), rear) = QueueLen(front, rear) - ReadLen
    BY <1>2, LenForwardFront, FlowFacts DEF FlowInv, BlockInv
  <1> QED
    BY <1>2, <1>3

\* pthread_cond_signal: nobody waits, or one waiter moves on.
LEMMA SignalCases ==
  ASSUME FlowInv, WSignal
  PROVE  /\ w.pc = "signal" /\ w' = Outside /\ UNCHANGED <<front, rear, mutex>>
         /\ \/ waiters = {} /\ UNCHANGED <<waiters, rd>>
            \/ \E r \in Readers :
                 /\ rd[r].pc = "wait" /\ waiters' = waiters \ {r}
                 /\ rd' = [rd EXCEPT ![r].pc = "wake"]
  BY DEF WSignal, FlowInv, WaitersInv

LEMMA FlowWriter ==
  ASSUME FlowInv, Writer, ~WOverflow
  PROVE  WaitersInv' /\ WriterFlow' /\ \A r \in Readers : ReaderFlow(r)'
  <1> USE FlowFacts DEF FlowInv, BlockInv
  <1>1. CASE WEnter \/ WBegin \/ WCheck \/ WSplit \/ WCopy \/ WLoad
    BY <1>1, FlowWriterQuiet
  <1>2. CASE WDropFront \/ WDropRear
    BY <1>2 DEF WDropFront, WDropRear, WriterFlow
  <1>3. CASE WStore
    <2>1. /\ QueueLen(front', rear') = QueueLen(front, rear) + WriteLen
          /\ front' = front /\ w'.pc = "signal" /\ UNCHANGED <<mutex, waiters, rd>>
      BY <1>3, StoreGrows
    <2>2. WaitersInv'
      BY <2>1 DEF WaitersInv
    <2>3. WriterFlow'
      BY <2>1 DEF WriterFlow
    <2>4. ASSUME NEW r \in Readers PROVE ReaderFlow(r)'
      <3>1. ReaderFlow(r)
        OBVIOUS
      <3> QED
        BY <2>1, <3>1 DEF ReaderFlow
    <2> QED
      BY <2>2, <2>3, <2>4
  <1>4. CASE WSignal
    <2>1. /\ w' = Outside /\ UNCHANGED <<front, rear, mutex>>
          /\ \/ waiters = {} /\ UNCHANGED <<waiters, rd>>
             \/ \E r \in Readers :
                  /\ rd[r].pc = "wait" /\ waiters' = waiters \ {r}
                  /\ rd' = [rd EXCEPT ![r].pc = "wake"]
      BY <1>4, SignalCases
    <2>2. WriterFlow'
      BY <2>1 DEF WriterFlow, Outside
    <2>3. CASE UNCHANGED <<waiters, rd>>
      BY <2>1, <2>2, <2>3 DEF WaitersInv, ReaderFlow
    <2>4. ASSUME NEW q \in Readers, rd[q].pc = "wait", waiters' = waiters \ {q},
                 rd' = [rd EXCEPT ![q].pc = "wake"]
          PROVE  WaitersInv' /\ \A r \in Readers : ReaderFlow(r)'
      <3>1. rd'[q].pc = "wake" /\ \A r \in Readers \ {q} : rd'[r] = rd[r]
        BY <2>4
      <3>2. WaitersInv'
        BY <2>4, <3>1 DEF WaitersInv
      <3>3. ReaderFlow(q)'
        BY <3>1 DEF ReaderFlow, Holding
      <3>4. \A r \in Readers \ {q} : ReaderFlow(r)'
        BY <2>1, <3>1 DEF ReaderFlow
      <3> QED
        BY <3>2, <3>3, <3>4
    <2> QED
      BY <2>1, <2>2, <2>3, <2>4
  <1> QED
    BY <1>1, <1>2, <1>3, <1>4 DEF Writer

\* A reader changes its own locals only, and nothing of the writer.
LEMMA ReaderFrame ==
  ASSUME FlowInv, NEW r \in Readers, Reader(r)
  PROVE  /\ ~(RClearFront(r) \/ RClearRear(r))
         /\ UNCHANGED <<rear, w>> /\ DOMAIN rd' = Readers
         /\ \A s \in Readers \ {r} : rd'[s] = rd[s]
  <1> USE DEF FlowInv, BlockInv
  <1>1. ~(RClearFront(r) \/ RClearRear(r))
    BY DEF RClearFront, RClearRear, NoClear
  <1>2. UNCHANGED <<rear, w>>
    BY <1>1 DEF Reader, RCall, RLock, RCheck, RSleep, RSpurious, RWake, RBranch,
       RSplit, RCopy, RLoad, RStore
  <1>3. DOMAIN rd' = Readers /\ \A s \in Readers \ {r} : rd'[s] = rd[s]
    BY <1>1, FlowFacts DEF Reader, RCall, RLock, RCheck, RSleep, RSpurious, RWake,
       RBranch, RSplit, RCopy, RLoad, RStore
  <1> QED
    BY <1>1, <1>2, <1>3

\* The steps of a reader after which it does not hold the mutex.
LEMMA ReaderOutside ==
  ASSUME FlowInv, NEW r \in Readers,
         RCall(r) \/ RSleep(r) \/ RSpurious(r) \/ RStore(r), ~Clearing
  PROVE  rd'[r].pc \in {"lock", "wait", "wake", "idle"}
  <1> USE FlowFacts DEF FlowInv, BlockInv
  <1>1. CASE RCall(r)
    <2>1. \A shouldClear \in {FALSE, Clearing} : shouldClear = FALSE
      BY QueueAssumption
    <2> QED
      BY <1>1, <2>1 DEF RCall
  <1>2. CASE RSleep(r) \/ RSpurious(r)
    BY <1>2 DEF RSleep, RSpurious
  <1>3. CASE RStore(r)
    BY <1>3 DEF RStore, Outside
  <1> QED
    BY <1>1, <1>2, <1>3

\* The steps that leave the indices alone keep what this reader has found out.
LEMMA FlowReaderOwn ==
  ASSUME FlowInv, NEW r \in Readers, Reader(r), ~Clearing
  PROVE  ReaderFlow(r)'
  <1> USE FlowFacts DEF FlowInv, BlockInv
  <1>0. ReaderFlow(r) /\ ~(RClearFront(r) \/ RClearRear(r)) /\ rear' = rear
    BY ReaderFrame
  <1>1. CASE RCall(r) \/ RSleep(r) \/ RSpurious(r) \/ RStore(r)
    <2>1. rd'[r].pc \in {"lock", "wait", "wake", "idle"}
      BY <1>1, ReaderOutside
    <2> QED
      BY <2>1 DEF ReaderFlow, Holding
  <1>2. CASE RLock(r) \/ RWake(r)
    <2>1. rd'[r].pc = "check" /\ mutex' = r
      BY <1>2 DEF RLock, RWake
    <2> QED
      BY <2>1 DEF ReaderFlow
  <1>3. CASE RCheck(r)
    BY <1>0, <1>3 DEF RCheck, ReaderFlow, Holding
  <1>4. CASE RBranch(r)
    <2>1. /\ mutex = r /\ QueueLen(front, rear) >= ReadLen
          /\ UNCHANGED <<front, mutex>>
      BY <1>0, <1>4 DEF RBranch, ReaderFlow, Holding
    <2>2. CASE front + ReadLen <= Capacity - 1
      <3>1. rd'[r].pc = "copy" /\ rd'[r].len1 = ReadLen /\ rd'[r].len2 = 0
        BY <1>4, <2>2 DEF RBranch
      <3> QED
        BY <1>0, <2>1, <2>2, <3>1 DEF ReaderFlow
    <2>3. CASE ~(front + ReadLen <= Capacity - 1)
      <3>1. rd'[r].pc = "split"
        BY <1>4, <2>3 DEF RBranch
      <3> QED
        BY <1>0, <2>1, <2>3, <3>1 DEF ReaderFlow, Index
    <2> QED
      BY <2>2, <2>3
  <1>5. CASE RSplit(r)
    BY <1>0, <1>5 DEF RSplit, ReaderFlow, Holding, Index
  <1>6. CASE RCopy(r)
    BY <1>0, <1>6 DEF RCopy, ReaderFlow, Holding
  <1>7. CASE RLoad(r)
    BY <1>0, <1>7 DEF RLoad, ReaderFlow, Holding
  <1> QED
    BY <1>0, <1>1, <1>2, <1>3, <1>4, <1>5, <1>6, <1>7 DEF Reader

\* What another reader has found out: it does not hold the mutex, or neither
\* the mutex nor the indices change.
LEMMA FlowReaderOther ==
  ASSUME FlowInv, NEW r \in Readers, Reader(r), NEW s \in Readers \ {r}
  PROVE  ReaderFlow(s)'
  <1> USE DEF FlowInv, BlockInv
  <1>0. /\ ReaderFlow(s) /\ ReaderFlow(r) /\ rd'[s] = rd[s] /\ rear' = rear
        /\ ~(RClearFront(r) \/ RClearRear(r)) /\ s # NoReader
    BY ReaderFrame, QueueAssumption
  <1>1. CASE RLock(r) \/ RSleep(r) \/ RWake(r) \/ RStore(r)
    <2>1. mutex # s
      BY <1>0, <1>1 DEF RLock, RSleep, RWake, RStore, ReaderFlow, Holding
    <2>2. rd'[s].pc \notin Holding
      BY <1>0, <2>1 DEF ReaderFlow
    <2> QED
      BY <2>2 DEF ReaderFlow, Holding
  <1>2. CASE UNCHANGED <<front, mutex>>
    BY <1>0, <1>2 DEF ReaderFlow
  <1> QED
    BY <1>0, <1>1, <1>2 DEF Reader, RCall, RCheck, RSpurious, RBranch, RSplit,
       RCopy, RLoad

LEMMA FlowReader ==
  ASSUME FlowInv, NEW r \in Readers, Reader(r), ~Clearing
  PROVE  WaitersInv' /\ WriterFlow' /\ \A s \in Readers : ReaderFlow(s)'
  <1> USE FlowFacts DEF FlowInv, BlockInv
  <1>0. /\ UNCHANGED <<rear, w>> /\ \A s \in Readers \ {r} : rd'[s] = rd[s]
        /\ ~(RClearFront(r) \/ RClearRear(r))
    BY ReaderFrame
  <1>1. \A s \in Readers : ReaderFlow(s)'
    BY FlowReaderOwn, FlowReaderOther
  <1>2. WriterFlow'
    <2>1. CASE RStore(r)
      <3>1. /\ QueueLen(front, rear) >= ReadLen /\ front' = Forward(front, ReadLen)
            /\ rear' = rear
        BY <2>1, StoreShrinks
      <3>2. QueueLeft(front', rear') = QueueLeft(front, rear) + ReadLen
        BY <3>1, LenForwardFront
      <3> QED
        BY <1>0, <3>2 DEF WriterFlow
    <2>2. CASE UNCHANGED front
      BY <1>0, <2>2 DEF WriterFlow
    <2> QED
      BY <1>0, <2>1, <2>2 DEF Reader, RCall, RLock, RCheck, RSleep, RSpurious,
         RWake, RBranch, RSplit, RCopy, RLoad
  <1>3. WaitersInv'
    <2>1. CASE RSleep(r)
      <3>1. waiters' = waiters \union {r} /\ rd'[r].pc = "wait"
        BY <2>1 DEF RSleep
      <3> QED
        BY <1>0, <3>1 DEF WaitersInv
    <2>2. CASE RSpurious(r)
      <3>1. waiters' = waiters \ {r} /\ rd'[r].pc = "wake"
        BY <2>2 DEF RSpurious
      <3> QED
        BY <1>0, <3>1 DEF WaitersInv
    <2>3. CASE ~(RSleep(r) \/ RSpurious(r))
      <3>1. waiters' = waiters /\ rd[r].pc # "wait"
        BY <1>0, <2>3 DEF Reader, RCall, RLock, RCheck, RWake, RBranch, RSplit,
           RCopy, RLoad, RStore
      <3>2. rd'[r].pc # "wait"
        <4>1. CASE RCall(r) \/ RStore(r)
          BY <4>1 DEF RCall, RStore, Outside
        <4>2. CASE RLock(r) \/ RCheck(r) \/ RWake(r) \/ RBranch(r) \/ RSplit(r)
                   \/ RCopy(r) \/ RLoad(r)
          BY <4>2 DEF RLock, RCheck, RWake, RBranch, RSplit, RCopy, RLoad
        <4> QED
          BY <1>0, <2>3, <4>1, <4>2 DEF Reader
      <3> QED
        BY <1>0, <3>1, <3>2 DEF WaitersInv
    <2> QED
      BY <2>1, <2>2, <2>3
  <1> QED
    BY <1>1, <1>2, <1>3

LEMMA FlowInvNext ==
  ASSUME ~Clearing, FlowInv, [Next]_vars, ~WOverflow
  PROVE  FlowInv'
  <1>1. BlockInv'
    BY BlockInvNext DEF FlowInv
  <1>2. CASE Writer
    BY <1>1, <1>2, FlowWriter DEF FlowInv
  <1>3. ASSUME NEW r \in Readers, Reader(r) PROVE FlowInv'
    BY <1>1, <1>3, FlowReader DEF FlowInv
  <1>4. CASE UNCHANGED vars
    BY <1>1, <1>4 DEF vars, FlowInv, WaitersInv, WriterFlow, ReaderFlow
  <1> QED
    BY <1>2, <1>3, <1>4 DEF Next

\* While the readers keep up, nothing is dropped.
LEMMA PacedFlow ==
  ASSUME ~Clearing, Paced
  PROVE  FlowInv /\ [Next]_vars => FlowInv'
  <1>1. ~WOverflow
    BY DEF WOverflow
  <1> QED
    BY <1>1, FlowInvNext

\* The steps of the writer do not move front.
LEMMA WriterKeepsFront ==
  ASSUME FlowInv, Writer
  PROVE  front' = front
  <1>1. ~WDropFront
    BY DEF FlowInv, WriterFlow, WDropFront
  <1> QED
    BY <1>1 DEF Writer, WEnter, WOverflow, WDropRear, WBegin, WCheck, WSplit,
       WCopy, WLoad, WStore, WSignal

LEMMA HeadInvWriter ==
  ASSUME FlowInv, HeadInv, Writer
  PROVE  HeadInv'
  <1> USE FlowFacts DEF FlowInv, BlockInv
  <1>1. front' = front
    BY WriterKeepsFront
  <1>2. CASE UNCHANGED rd
    BY <1>1, <1>2 DEF HeadInv
  <1>3. CASE WSignal
    <2>1. ASSUME NEW q \in Readers, rd[q].pc = "wait", rd' = [rd EXCEPT ![q].pc = "wake"]
          PROVE  HeadInv'
      <3>1. /\ rd'[q].begin = rd[q].begin
            /\ \A r \in Readers \ {q} : rd'[r] = rd[r]
        BY <2>1
      <3>2. rd[q].begin = front
        BY <2>1 DEF HeadInv
      <3> QED
        BY <1>1, <3>1, <3>2 DEF HeadInv
    <2> QED
      BY <1>2, <1>3, <2>1, SignalCases
  <1> QED
    BY <1>2, <1>3 DEF Writer, WEnter, WOverflow, WDropFront, WDropRear, WBegin,
       WCheck, WSplit, WCopy, WLoad, WStore

\* Only the reader itself stores front, and it then computes begin again.
LEMMA HeadInvReader ==
  ASSUME FlowInv, HeadInv, ~Clearing, NEW r \in Readers, Reader(r), Readers = {r}
  PROVE  HeadInv'
  <1> USE FlowFacts DEF FlowInv, BlockInv
  <1>0. /\ ~(RClearFront(r) \/ RClearRear(r))
        /\ rd[r].pc \in {"check", "sleep", "wait", "wake", "branch", "split", "copy"}
             => rd[r].begin = front
    BY ReaderFrame DEF HeadInv
  <1> SUFFICES ASSUME rd'[r].pc \in {"check", "sleep", "wait", "wake", "branch",
                                     "split", "copy"}
               PROVE  rd'[r].begin = front'
    BY DEF HeadInv
  <1>1. CASE RCall(r) \/ RStore(r)
    <2>1. rd'[r].pc \in {"lock", "idle"}
      <3>1. CASE RCall(r)
        <4>1. \A shouldClear \in {FALSE, Clearing} : shouldClear = FALSE
          BY QueueAssumption
        <4> QED
          BY <3>1, <4>1 DEF RCall
      <3>2. CASE RStore(r)
        BY <3>2 DEF RStore, Outside
      <3> QED
        BY <1>1, <3>1, <3>2
    <2> QED
      BY <2>1
  <1>2. CASE RLock(r)
    BY <1>2 DEF RLock
  <1>3. CASE RCheck(r) \/ RSleep(r) \/ RSpurious(r) \/ RWake(r)
    BY <1>0, <1>3 DEF RCheck, RSleep, RSpurious, RWake
  <1>4. CASE RBranch(r) \/ RSplit(r)
    <2>1. rd[r].pc \in {"branch", "split"} /\ front' = front
      BY <1>4 DEF RBranch, RSplit
    <2>2. rd'[r].begin = rd[r].begin
      BY <1>4 DEF RBranch, RSplit
    <2> QED
      BY <1>0, <2>1, <2>2
  <1>5. CASE RCopy(r) \/ RLoad(r)
    BY <1>5 DEF RCopy, RLoad
  <1> QED
    BY <1>0, <1>1, <1>2, <1>3, <1>4, <1>5 DEF Reader

LEMMA HeadInvNext ==
  ASSUME ~Clearing, \A r, s \in Readers : r = s, FlowInv, HeadInv, [Next]_vars
  PROVE  HeadInv'
  <1>1. CASE Writer
    BY <1>1, HeadInvWriter
  <1>2. ASSUME NEW r \in Readers, Reader(r) PROVE HeadInv'
    <2>1. Readers = {r}
      OBVIOUS
    <2> QED
      BY <1>2, <2>1, HeadInvReader
  <1>3. CASE UNCHANGED vars
    BY <1>3 DEF vars, HeadInv
  <1> QED
    BY <1>1, <1>2, <1>3 DEF Next

-----------------------------------------------------------------------------
(* One reader that keeps up: the copies.                                   *)

\* What is known of a reader at its memcpy pair.
LEMMA ReaderAtCopy ==
  ASSUME FlowInv, HeadInv, NEW r \in Readers, rd[r].pc = "copy"
  PROVE  /\ rd[r].begin = front /\ QueueLen(front, rear) >= ReadLen
         /\ \/ rd[r].len1 = ReadLen /\ rd[r].len2 = 0 /\ front + ReadLen <= Capacity - 1
            \/ /\ rd[r].len1 = Capacity - front /\ rd[r].len2 = ReadLen - rd[r].len1
               /\ front + ReadLen > Capacity - 1
  BY DEF FlowInv, ReaderFlow, HeadInv

\* What is known of the writer at its memcpy pair.
LEMMA WriterAtCopy ==
  ASSUME FlowInv, w.pc = "copy"
  PROVE  /\ w.begin = rear /\ QueueLeft(front, rear) >= WriteLen
         /\ \/ w.len1 = WriteLen /\ w.len2 = 0 /\ rear + WriteLen <= Capacity - 1
            \/ /\ w.len1 = Capacity - rear /\ w.len2 = WriteLen - w.len1
               /\ rear + WriteLen > Capacity - 1
  BY DEF FlowInv, WriterFlow, BlockInv, WriterInv

\* The cells of a copy of n bytes from index i are those that Forward reaches.
LEMMA CellsForward ==
  ASSUME NEW i \in Index, NEW n \in Nat, n < Capacity, NEW l, l.begin = i,
         \/ l.len1 = n /\ l.len2 = 0 /\ i + n <= Capacity - 1
         \/ l.len1 = Capacity - i /\ l.len2 = n - l.len1 /\ i + n > Capacity - 1,
         NEW c \in Cells(l)
  PROVE  c \in Index /\ QueueLen(i, c) < n
  <1>1. c \in Index /\ (\/ c >= i /\ c < i + n
                        \/ c >= 0 /\ c < i + n - Capacity)
    BY CapacityPositive DEF Cells, Index
  <1> QED
    BY <1>1, LenCases, CapacityPositive DEF Index

LEMMA FlowInBlock == FlowInv /\ HeadInv => ReadInBlock
  <1> SUFFICES ASSUME FlowInv, HeadInv, NEW r \in Readers, rd[r].pc = "copy"
               PROVE  InBlock(rd[r])
    BY DEF ReadInBlock
  <1> QED
    BY ReaderAtCopy, FlowFacts DEF InBlock, Index, FlowInv, BlockInv

LEMMA FlowDisjoint == FlowInv /\ HeadInv => CopiesDisjoint
  <1> SUFFICES ASSUME FlowInv, HeadInv, NEW r \in Readers, w.pc = "copy", rd[r].pc = "copy",
                      NEW c \in Cells(w), c \in Cells(rd[r])
               PROVE  FALSE
    BY DEF CopiesDisjoint
  <1> USE FlowFacts DEF FlowInv, BlockInv
  <1>1. c \in Index /\ QueueLen(rear, c) < WriteLen
    BY WriterAtCopy, CellsForward
  <1>2. QueueLen(front, c) < ReadLen
    BY ReaderAtCopy, CellsForward
  <1>3. /\ QueueLen(rear, c) = IF rear <= c THEN c - rear ELSE c - rear + Capacity
        /\ QueueLen(front, c) = IF front <= c THEN c - front ELSE c - front + Capacity
        /\ QueueLen(front, rear) = IF front <= rear THEN rear - front
                                                   ELSE rear - front + Capacity
    BY <1>1, LenCases
  <1>4. QueueLen(front, rear) >= ReadLen /\ QueueLen(front, rear) + WriteLen < Capacity
    BY ReaderAtCopy, WriterAtCopy
  <1> QED
    BY <1>1, <1>2, <1>3, <1>4 DEF Index

LEMMA OneReaderFlow ==
  ASSUME ~Clearing, Paced, \A r, s \in Readers : r = s
  PROVE  Spec => [](FlowInv /\ HeadInv)
  <1>1. FlowInv /\ HeadInv /\ [Next]_vars => (FlowInv /\ HeadInv)'
    BY PacedFlow, HeadInvNext
  <1> QED
    BY <1>1, FlowInvInit, PTL DEF Spec

\* The only reader, when it keeps up, never copies from outside the block of
\* queue_init, although it computed begin before it slept (AudioQueue.c:185-209).
THEOREM ReaderStaysInBlock ==
  ASSUME ~Clearing, Paced, \A r, s \in Readers : r = s
  PROVE  Spec => []ReadInBlock
  BY OneReaderFlow, FlowInBlock, PTL

\* The unlocked memcpy of queue_write and that of queue_read never touch a
\* common byte: the missing lock costs nothing here.
THEOREM CopiesNeverOverlap ==
  ASSUME ~Clearing, Paced, \A r, s \in Readers : r = s
  PROVE  Spec => []CopiesDisjoint
  BY OneReaderFlow, FlowDisjoint, PTL

-----------------------------------------------------------------------------
(* Prompt readers: how far behind the queue can be, however often a signal *)
(* is missed.                                                              *)

\* One buffer may find everybody asleep over the data of the one before;
\* it then wakes somebody, who does not sleep again before the queue is
\* drained, so no third buffer begins.
LagInv ==
  /\ w.pc = "idle" =>
       \/ QueueLen(front, rear) < ReadLen + WriteLen
       \/ \E r \in Readers : rd[r].pc \notin {"sleep", "wait"}
  /\ w.pc \in {"begin", "check", "split", "copy", "load", "store"} =>
       /\ QueueLen(front, rear) < ReadLen + WriteLen
       /\ QueueLen(front, rear) < ReadLen \/ \A r \in Readers : rd[r].pc # "sleep"
  /\ w.pc = "signal" =>
       \/ QueueLen(front, rear) < ReadLen + WriteLen
       \/ QueueLen(front, rear) < 2 * WriteLen + ReadLen /\ \A r \in Readers : rd[r].pc # "sleep"
  /\ QueueLen(front, rear) < 2 * WriteLen + ReadLen

\* The timing of PromptNext, as a condition on a step.
PromptStep == w.pc = "idle" /\ w'.pc # "idle" => Settled

LEMMA LagWriter ==
  ASSUME FlowInv, LagInv, Writer, PromptStep, Readers # {}, ~WOverflow
  PROVE  LagInv'
  <1> USE FlowFacts DEF FlowInv, BlockInv
  <1>1. CASE WEnter
    <2>1. /\ w.pc = "idle" /\ w'.pc = "begin" /\ UNCHANGED <<front, rear, rd>>
      BY <1>1 DEF WEnter
    <2>2. Settled
      BY <2>1 DEF PromptStep
    <2>3. CASE ~HasData
      BY <2>1, <2>3 DEF LagInv, HasData
    <2>4. CASE \A r \in Readers : rd[r].pc = "wait"
      BY <2>1, <2>4 DEF LagInv
    <2> QED
      BY <2>2, <2>3, <2>4 DEF Settled
  <1>2. CASE WBegin \/ WCheck \/ WSplit \/ WCopy \/ WLoad
    <2>1. /\ w.pc \in {"begin", "check", "split", "copy", "load"}
          /\ w'.pc \in {"check", "split", "copy", "load", "store"}
          /\ UNCHANGED <<front, rear, rd>>
      BY <1>2 DEF WBegin, WCheck, WSplit, WCopy, WLoad
    <2> QED
      BY <2>1 DEF LagInv
  <1>3. CASE WStore
    <2>1. /\ QueueLen(front', rear') = QueueLen(front, rear) + WriteLen
          /\ w.pc = "store" /\ w'.pc = "signal" /\ UNCHANGED rd
      BY <1>3, StoreGrows
    <2> QED
      BY <2>1 DEF LagInv
  <1>4. CASE WSignal
    <2>1. /\ w.pc = "signal" /\ w'.pc = "idle" /\ UNCHANGED <<front, rear>>
      BY <1>4, SignalCases DEF Outside
    <2>2. QueueLen(front, rear) < 2 * WriteLen + ReadLen
      BY DEF LagInv
    <2>3. CASE waiters = {} /\ UNCHANGED rd
      BY <2>1, <2>2, <2>3 DEF LagInv, WaitersInv
    <2>4. ASSUME NEW q \in Readers, rd' = [rd EXCEPT ![q].pc = "wake"]
          PROVE  LagInv'
      <3>1. rd'[q].pc = "wake"
        BY <2>4
      <3> QED
        BY <2>1, <2>2, <3>1 DEF LagInv
    <2> QED
      BY <1>4, <2>3, <2>4, SignalCases
  <1>5. ~WDropFront /\ ~WDropRear
    BY DEF WDropFront, WDropRear, WriterFlow
  <1> QED
    BY <1>1, <1>2, <1>3, <1>4, <1>5 DEF Writer

\* A reader goes to sleep only where it found too little data.
LEMMA LagReader ==
  ASSUME FlowInv, LagInv, NEW r \in Readers, Reader(r), ~Clearing
  PROVE  LagInv'
  <1> USE FlowFacts DEF FlowInv, BlockInv
  <1>0. /\ ~(RClearFront(r) \/ RClearRear(r)) /\ UNCHANGED <<rear, w>>
        /\ \A s \in Readers \ {r} : rd'[s] = rd[s]
    BY ReaderFrame
  <1>1. CASE RCheck(r)
    <2>1. front' = front /\ rd[r].pc = "check"
      BY <1>1 DEF RCheck
    <2>2. CASE QueueLen(front, rear) < ReadLen
      BY <1>0, <2>1, <2>2 DEF LagInv
    <2>3. CASE ~(QueueLen(front, rear) < ReadLen)
      <3>1. rd'[r].pc = "branch"
        BY <1>1, <2>3 DEF RCheck
      <3> QED
        BY <1>0, <2>1, <2>3, <3>1 DEF LagInv
    <2> QED
      BY <2>2, <2>3
  <1>2. CASE RSleep(r)
    <2>1. front' = front /\ rd[r].pc = "sleep" /\ rd'[r].pc = "wait"
      BY <1>2 DEF RSleep
    <2> QED
      BY <1>0, <2>1 DEF LagInv
  <1>3. CASE RStore(r)
    <2>1. /\ QueueLen(front', rear') = QueueLen(front, rear) - ReadLen
          /\ rd' = [rd EXCEPT ![r] = Outside]
      BY <1>3, StoreShrinks
    <2>2. rd'[r].pc = "idle"
      BY <2>1 DEF Outside
    <2> QED
      BY <1>0, <2>1, <2>2 DEF LagInv
  <1>4. CASE RCall(r)
    <2>1. rd'[r].pc = "lock" /\ front' = front
      BY <1>4, ReaderOutside DEF RCall
    <2> QED
      BY <1>0, <2>1 DEF LagInv
  <1>5. CASE RLock(r) \/ RSpurious(r) \/ RWake(r) \/ RBranch(r) \/ RSplit(r)
             \/ RCopy(r) \/ RLoad(r)
    <2>1. rd'[r].pc \notin {"sleep", "wait"} /\ front' = front
      BY <1>5 DEF RLock, RSpurious, RWake, RBranch, RSplit, RCopy, RLoad
    <2> QED
      BY <1>0, <2>1 DEF LagInv
  <1> QED
    BY <1>0, <1>1, <1>2, <1>3, <1>4, <1>5 DEF Reader

\* A queue that can hold the lag never overflows.
LEMMA LagFits ==
  ASSUME FlowInv, LagInv, PromptStep, 2 * WriteLen + ReadLen <= Capacity
  PROVE  ~WOverflow
  <1> SUFFICES ASSUME WOverflow PROVE FALSE
    OBVIOUS
  <1> USE FlowFacts DEF FlowInv, BlockInv
  <1>1. w.pc = "idle" /\ w'.pc # "idle" /\ QueueLeft(front, rear) < WriteLen
    BY DEF WOverflow
  <1>2. QueueLen(front, rear) < ReadLen + WriteLen
    BY <1>1 DEF PromptStep, Settled, HasData, LagInv
  <1> QED
    BY <1>1, <1>2

LEMMA LagInvNext ==
  ASSUME ~Clearing, Readers # {}, 2 * WriteLen + ReadLen <= Capacity
  PROVE  FlowInv /\ LagInv /\ [PromptNext]_vars => (FlowInv /\ LagInv)'
  <1> SUFFICES ASSUME FlowInv, LagInv, [PromptNext]_vars PROVE (FlowInv /\ LagInv)'
    OBVIOUS
  <1>1. CASE UNCHANGED vars
    <2>1. ~WOverflow
      BY <1>1, FlowFacts DEF vars, WOverflow, FlowInv, BlockInv
    <2>2. FlowInv'
      BY <1>1, <2>1, FlowInvNext
    <2> QED
      BY <1>1, <2>2 DEF vars, LagInv
  <1>2. CASE PromptNext
    <2>1. Next /\ PromptStep
      BY <1>2 DEF PromptNext, PromptStep
    <2>2. ~WOverflow
      BY <2>1, LagFits
    <2>3. FlowInv'
      BY <2>1, <2>2, FlowInvNext
    <2>4. LagInv'
      BY <2>1, <2>2, LagWriter, LagReader DEF Next
    <2> QED
      BY <2>3, <2>4
  <1> QED
    BY <1>1, <1>2

LEMMA LagInvInit == Init => LagInv
  <1> SUFFICES ASSUME Init PROVE LagInv
    OBVIOUS
  <1>1. TypeOK /\ w.pc = "idle" /\ front = rear
    BY InitTypeOK DEF Init, Outside
  <1>2. QueueLen(front, rear) = 0
    BY <1>1, LenCases, FlowFacts DEF Index
  <1> QED
    BY <1>1, <1>2, FlowFacts DEF LagInv

LEMMA PromptTypeOK == PromptSpec => []TypeOK
  <1>1. TypeOK /\ [PromptNext]_vars => TypeOK'
    BY NextTypeOK DEF PromptNext
  <1> QED
    BY <1>1, InitTypeOK, PTL DEF PromptSpec

\* With any number of prompt readers, the queue never holds two buffers and a
\* block, although pthread_cond_signal is sent without the mutex and may be
\* missed (AudioQueue.c:173, :194-196).
THEOREM LagStaysBounded ==
  ASSUME ~Clearing, Readers # {}
  PROVE  PromptSpec => []LagBounded
  <1>1. CASE 2 * WriteLen + ReadLen <= Capacity
    <2>1. FlowInv /\ LagInv /\ [PromptNext]_vars => (FlowInv /\ LagInv)'
      BY <1>1, LagInvNext
    <2>2. Init => FlowInv /\ LagInv
      BY FlowInvInit, LagInvInit
    <2>3. FlowInv /\ LagInv => LagBounded
      BY DEF LagInv, LagBounded
    <2> QED
      BY <2>1, <2>2, <2>3, PTL DEF PromptSpec
  <1>2. CASE ~(2 * WriteLen + ReadLen <= Capacity)
    <2>1. TypeOK => LagBounded
      BY <1>2, FlowFacts DEF LagBounded
    <2> QED
      BY <2>1, PromptTypeOK, PTL
  <1> QED
    BY <1>1, <1>2

\* The writer is not dropping the queue.
NotDropping == w.pc \notin {"dropFront", "dropRear"}

\* And if the queue is at least that large, queue_write never finds it too
\* full, so the branch that throws the whole queue away is never taken.
THEOREM PromptReadersLoseNothing ==
  ASSUME ~Clearing, Readers # {}, 2 * WriteLen + ReadLen <= Capacity
  PROVE  PromptSpec => []NotDropping
  <1>1. FlowInv /\ LagInv /\ [PromptNext]_vars => (FlowInv /\ LagInv)'
    BY LagInvNext
  <1>2. Init => FlowInv /\ LagInv
    BY FlowInvInit, LagInvInit
  <1>3. FlowInv => NotDropping
    BY DEF FlowInv, WriterFlow, NotDropping
  <1> QED
    BY <1>1, <1>2, <1>3, PTL DEF PromptSpec

\* So what the only reader computed before its wait and tested after it still
\* holds at its copy: nothing drops the queue under it, although the writer
\* takes no lock and signals may be missed (AudioQueue.c:137-138, :187-209).
THEOREM PromptReaderReadsHead ==
  ASSUME ~Clearing, Readers # {}, \A r, s \in Readers : r = s,
         2 * WriteLen + ReadLen <= Capacity
  PROVE  PromptSpec => []ReadsWholeHead
  <1>1. FlowInv /\ LagInv /\ HeadInv /\ [PromptNext]_vars
          => (FlowInv /\ LagInv /\ HeadInv)'
    BY LagInvNext, HeadInvNext DEF PromptNext
  <1>2. Init => FlowInv /\ LagInv /\ HeadInv
    BY FlowInvInit, LagInvInit
  <1>3. FlowInv /\ HeadInv => ReadsWholeHead
    BY ReaderAtCopy DEF ReadsWholeHead
  <1> QED
    BY <1>1, <1>2, <1>3, PTL DEF PromptSpec

=============================================================================

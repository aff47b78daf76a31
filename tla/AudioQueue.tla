----------------------------- MODULE AudioQueue -----------------------------
(***************************************************************************)
(* The ring buffer of util/queue/AudioQueue.c together with the clearing   *)
(* that PcmRead of recorder/alsa/alsa_recorder.cpp does on it.             *)
(*                                                                         *)
(* One capture thread calls queue_write, which takes no lock (the lock     *)
(* calls are commented out in the source).  The record threads call        *)
(* PcmRead, which may clear the indices, again with no lock, and then      *)
(* queue_read, which holds the mutex.  Because the writer and the clearing *)
(* are unlocked, every load and store of front and rear that another       *)
(* thread can separate is a step of its own; two accesses are one step     *)
(* only where no other thread can tell the difference.                     *)
(*                                                                         *)
(* This module is the control state: indices, locals, the mutex and the    *)
(* condition variable.  AudioQueueData adds the bytes.                     *)
(***************************************************************************)
EXTENDS Integers

CONSTANTS
  Capacity,   \* the capacity argument of queue_init: bytes of the data area
  WriteLen,   \* dataLen of every queue_write: one capture buffer
  ReadLen,    \* readLen of every queue_read: one block of the record loop
  Readers,    \* the record threads
  NoReader,   \* a value outside Readers: the mutex is free
  Clearing,   \* TRUE: callers of PcmRead may pass shouldClear = true
  Paced       \* TRUE: the readers keep up, the writer never finds it too full

ASSUME QueueAssumption ==
  /\ Capacity \in Nat /\ WriteLen \in Nat \ {0} /\ ReadLen \in Nat \ {0}
  /\ WriteLen < Capacity /\ ReadLen < Capacity
  /\ NoReader \notin Readers
  /\ Clearing \in BOOLEAN /\ Paced \in BOOLEAN

VARIABLES
  front,    \* queue->front
  rear,     \* queue->rear
  mutex,    \* the reader that holds queue->mutex, or NoReader
  waiters,  \* the readers blocked in pthread_cond_wait on queue->cond
  w,        \* the writer: where it is in queue_write, and its locals
  rd        \* each reader: where it is in PcmRead / queue_read, its locals

vars == <<front, rear, mutex, waiters, w, rd>>

Index == 0 .. Capacity - 1

\* The locals of a call: begin as an offset into the data area, the lengths
\* of the two memcpy calls, and the new index once it has been computed.
Locals(PC) ==
  [pc: PC, begin: Index, len1: Int, len2: Int, next: Index]

WriterPc == {"idle", "dropFront", "dropRear", "begin", "check", "split",
             "copy", "load", "store", "signal"}
ReaderPc == {"idle", "clearFront", "clearRear", "lock", "check", "sleep",
             "wait", "wake", "branch", "split", "copy", "load", "store"}

-----------------------------------------------------------------------------
(* Lengths and indices.                                                    *)

\* queue_len_unlock, also what queue_len computes under the mutex
QueueLen(f, r) == (r - f + Capacity) % Capacity

\* queue_left_unlock, also queue_left: one byte is never used
QueueLeft(f, r) == Capacity - 1 - QueueLen(f, r)

\* queue_empty and queue_full
QueueEmpty(f, r) == r = f
QueueFull(f, r) == (r + 1 + Capacity) % Capacity = f

\* Mutant: the index is not taken modulo the capacity.
ForwardNoWrap(i, n) == i + n

\* The index n bytes further on.
Forward(i, n) == (i + n) % Capacity

-----------------------------------------------------------------------------
\* A thread outside a call has no locals.
Outside == [pc |-> "idle", begin |-> 0, len1 |-> 0, len2 |-> 0, next |-> 0]

\* queue_init
Init ==
  /\ front = 0 /\ rear = 0
  /\ mutex = NoReader /\ waiters = {}
  /\ w = Outside /\ rd = [r \in Readers |-> Outside]

-----------------------------------------------------------------------------
(* The writer: queue_write.                                                *)

\* Mutant: any room at all is enough.
WEnterAnyRoom ==
  /\ w.pc = "idle"
  /\ QueueLeft(front, rear) > 0
  /\ w' = [w EXCEPT !.pc = "begin"]
  /\ UNCHANGED <<front, rear, mutex, waiters, rd>>

\* queueLeft is computed from one load of each index, rear first.  Loading
\* both at once yields the same outcomes: nobody else stores rear, except a
\* clear, and during the clear of a single reader front stays 0 after it.
WEnter ==
  /\ w.pc = "idle"
  /\ QueueLeft(front, rear) >= WriteLen
  /\ w' = [w EXCEPT !.pc = "begin"]
  /\ UNCHANGED <<front, rear, mutex, waiters, rd>>

\* Too little room: return false, having dropped the buffer and, index by
\* index, the whole queue.  Nobody is signalled.
WOverflow ==
  /\ w.pc = "idle"
  /\ ~Paced /\ QueueLeft(front, rear) < WriteLen
  /\ w' = [w EXCEPT !.pc = "dropFront"]
  /\ UNCHANGED <<front, rear, mutex, waiters, rd>>

WDropFront ==
  /\ w.pc = "dropFront"
  /\ front' = 0
  /\ w' = [w EXCEPT !.pc = "dropRear"]
  /\ UNCHANGED <<rear, mutex, waiters, rd>>

WDropRear ==
  /\ w.pc = "dropRear"
  /\ rear' = 0
  /\ w' = Outside
  /\ UNCHANGED <<front, mutex, waiters, rd>>

WBegin ==
  /\ w.pc = "begin"
  /\ w' = [w EXCEPT !.pc = "check", !.begin = rear]
  /\ UNCHANGED <<front, rear, mutex, waiters, rd>>

\* One memcpy is enough when the data end before the last index.
WCheck ==
  /\ w.pc = "check"
  /\ w' = IF rear + WriteLen <= Capacity - 1
            THEN [w EXCEPT !.pc = "copy", !.len1 = WriteLen, !.len2 = 0]
            ELSE [w EXCEPT !.pc = "split"]
  /\ UNCHANGED <<front, rear, mutex, waiters, rd>>

\* Mutant: the first part is one byte too long.
WSplitOneMore ==
  /\ w.pc = "split"
  /\ LET dataLen1 == Capacity - rear + 1
     IN  w' = [w EXCEPT !.pc = "copy", !.len1 = dataLen1,
                        !.len2 = WriteLen - dataLen1]
  /\ UNCHANGED <<front, rear, mutex, waiters, rd>>

\* dataLen1 is computed from another load of rear.
WSplit ==
  /\ w.pc = "split"
  /\ LET dataLen1 == Capacity - 1 - rear + 1
     IN  w' = [w EXCEPT !.pc = "copy", !.len1 = dataLen1,
                        !.len2 = WriteLen - dataLen1]
  /\ UNCHANGED <<front, rear, mutex, waiters, rd>>

\* The memcpy calls.
WCopy ==
  /\ w.pc = "copy"
  /\ w' = [w EXCEPT !.pc = "load"]
  /\ UNCHANGED <<front, rear, mutex, waiters, rd>>

\* The new rear is computed from a load of rear, then stored.
WLoad ==
  /\ w.pc = "load"
  /\ w' = [w EXCEPT !.pc = "store", !.next = Forward(rear, WriteLen)]
  /\ UNCHANGED <<front, rear, mutex, waiters, rd>>

WStore ==
  /\ w.pc = "store"
  /\ rear' = w.next
  /\ w' = [w EXCEPT !.pc = "signal"]
  /\ UNCHANGED <<front, mutex, waiters, rd>>

\* Mutant: nobody is signalled.
WSignalNobody ==
  /\ w.pc = "signal"
  /\ w' = Outside
  /\ UNCHANGED <<front, rear, mutex, waiters, rd>>

\* pthread_cond_signal wakes one waiter, and is lost when there is none.
WSignal ==
  /\ w.pc = "signal"
  /\ w' = Outside
  /\ \/ waiters = {} /\ UNCHANGED <<waiters, rd>>
     \/ \E r \in waiters : /\ waiters' = waiters \ {r}
                           /\ rd' = [rd EXCEPT ![r].pc = "wake"]
  /\ UNCHANGED <<front, rear, mutex>>

Writer ==
  \/ WEnter \/ WOverflow \/ WDropFront \/ WDropRear \/ WBegin \/ WCheck
  \/ WSplit \/ WCopy \/ WLoad \/ WStore \/ WSignal

-----------------------------------------------------------------------------
(* A reader: PcmRead, then queue_read.                                     *)

\* PcmRead is called; whether it clears the queue first is the caller's choice.
RCall(r) ==
  /\ rd[r].pc = "idle"
  /\ \E shouldClear \in {FALSE, Clearing} :
       rd' = [rd EXCEPT ![r].pc = IF shouldClear THEN "clearFront" ELSE "lock"]
  /\ UNCHANGED <<front, rear, mutex, waiters, w>>

RClearFront(r) ==
  /\ rd[r].pc = "clearFront"
  /\ front' = 0
  /\ rd' = [rd EXCEPT ![r].pc = "clearRear"]
  /\ UNCHANGED <<rear, mutex, waiters, w>>

RClearRear(r) ==
  /\ rd[r].pc = "clearRear"
  /\ rear' = 0
  /\ rd' = [rd EXCEPT ![r].pc = "lock"]
  /\ UNCHANGED <<front, mutex, waiters, w>>

\* queue_read takes the mutex and computes begin before it knows the length.
RLock(r) ==
  /\ rd[r].pc = "lock"
  /\ mutex = NoReader
  /\ mutex' = r
  /\ rd' = [rd EXCEPT ![r].pc = "check", ![r].begin = front]
  /\ UNCHANGED <<front, rear, waiters, w>>

\* queueLen is computed and the condition of the while loop tested.
RCheck(r) ==
  /\ rd[r].pc = "check"
  /\ rd' = [rd EXCEPT ![r].pc = IF QueueLen(front, rear) < ReadLen
                                  THEN "sleep" ELSE "branch"]
  /\ UNCHANGED <<front, rear, mutex, waiters, w>>

\* pthread_cond_wait releases the mutex and starts waiting, atomically.
RSleep(r) ==
  /\ rd[r].pc = "sleep"
  /\ mutex' = NoReader
  /\ waiters' = waiters \union {r}
  /\ rd' = [rd EXCEPT ![r].pc = "wait"]
  /\ UNCHANGED <<front, rear, w>>

\* pthread_cond_wait may also return without a signal.
RSpurious(r) ==
  /\ rd[r].pc = "wait"
  /\ waiters' = waiters \ {r}
  /\ rd' = [rd EXCEPT ![r].pc = "wake"]
  /\ UNCHANGED <<front, rear, mutex, w>>

\* The mutex is held again and the loop goes round; begin is not recomputed.
RWake(r) ==
  /\ rd[r].pc = "wake"
  /\ mutex = NoReader
  /\ mutex' = r
  /\ rd' = [rd EXCEPT ![r].pc = "check"]
  /\ UNCHANGED <<front, rear, waiters, w>>

\* Mutant: the read never wraps.
RBranchNoWrap(r) ==
  /\ rd[r].pc = "branch"
  /\ rd' = [rd EXCEPT ![r].pc = "copy", ![r].len1 = ReadLen, ![r].len2 = 0]
  /\ UNCHANGED <<front, rear, mutex, waiters, w>>

\* One memcpy is enough when the block ends before the last index.
RBranch(r) ==
  /\ rd[r].pc = "branch"
  /\ rd' = IF front + ReadLen <= Capacity - 1
             THEN [rd EXCEPT ![r].pc = "copy", ![r].len1 = ReadLen, ![r].len2 = 0]
             ELSE [rd EXCEPT ![r].pc = "split"]
  /\ UNCHANGED <<front, rear, mutex, waiters, w>>

RSplit(r) ==
  /\ rd[r].pc = "split"
  /\ LET readLen1 == Capacity - 1 - front + 1
     IN  rd' = [rd EXCEPT ![r].pc = "copy", ![r].len1 = readLen1,
                          ![r].len2 = ReadLen - readLen1]
  /\ UNCHANGED <<front, rear, mutex, waiters, w>>

RCopy(r) ==
  /\ rd[r].pc = "copy"
  /\ rd' = [rd EXCEPT ![r].pc = "load"]
  /\ UNCHANGED <<front, rear, mutex, waiters, w>>

\* Mutant: front only moves past the first part of a block read in two.
RLoadFirstPart(r) ==
  /\ rd[r].pc = "load"
  /\ rd' = [rd EXCEPT ![r].pc = "store", ![r].next = Forward(front, rd[r].len1)]
  /\ UNCHANGED <<front, rear, mutex, waiters, w>>

RLoad(r) ==
  /\ rd[r].pc = "load"
  /\ rd' = [rd EXCEPT ![r].pc = "store", ![r].next = Forward(front, ReadLen)]
  /\ UNCHANGED <<front, rear, mutex, waiters, w>>

\* The store, the unlock and the return.
RStore(r) ==
  /\ rd[r].pc = "store"
  /\ front' = rd[r].next
  /\ mutex' = NoReader
  /\ rd' = [rd EXCEPT ![r] = Outside]
  /\ UNCHANGED <<rear, waiters, w>>

Reader(r) ==
  \/ RCall(r) \/ RClearFront(r) \/ RClearRear(r) \/ RLock(r) \/ RCheck(r)
  \/ RSleep(r) \/ RSpurious(r) \/ RWake(r) \/ RBranch(r) \/ RSplit(r)
  \/ RCopy(r) \/ RLoad(r) \/ RStore(r)

-----------------------------------------------------------------------------
Next == Writer \/ \E r \in Readers : Reader(r)

Spec == Init /\ [][Next]_vars

HasData == QueueLen(front, rear) >= ReadLen

\* The threads are scheduled, but nobody counts on a spurious wakeup.
ReaderFairness == \A r \in Readers : WF_vars(rd[r].pc # "wait" /\ Reader(r))

\* The timing of the program: a buffer takes the device 128 ms, so when the
\* next one begins the readers have drained the queue, or they are asleep
\* with data in it because they missed a signal.
Settled == ~HasData \/ \A r \in Readers : rd[r].pc = "wait"
PromptNext == Next /\ (w.pc = "idle" /\ w'.pc # "idle" => Settled)
PromptSpec == Init /\ [][PromptNext]_vars /\ WF_vars(Writer) /\ ReaderFairness

\* The device may stop delivering: the writer finishes a call it has begun,
\* but need not begin another.
StallSpec == Spec /\ WF_vars(w.pc # "idle" /\ Writer) /\ ReaderFairness

-----------------------------------------------------------------------------
(* Properties.                                                             *)

\* Whatever is cleared, dropped or raced for, front and rear (and every
\* index a call has computed) stay indices of the data area.
TypeOK ==
  /\ front \in Index /\ rear \in Index
  /\ mutex \in Readers \union {NoReader}
  /\ waiters \subseteq Readers
  /\ w \in Locals(WriterPc)
  /\ rd \in [Readers -> Locals(ReaderPc)]

\* The cells a memcpy pair touches, and whether they lie in the data area.
Cells(l) == (l.begin .. l.begin + l.len1 - 1) \union (0 .. l.len2 - 1)
InBlock(l) == /\ l.len1 >= 0 /\ l.begin + l.len1 <= Capacity
              /\ l.len2 >= 0 /\ l.len2 <= Capacity

\* queue_write never copies outside the block given to queue_init, whose
\* data area is Capacity bytes long (AudioQueue.h:34).
WriteInBlock == w.pc = "copy" => InBlock(w)

\* queue_read never copies from outside that block.
ReadInBlock == \A r \in Readers : rd[r].pc = "copy" => InBlock(rd[r])

\* The unlocked writer and a reader never copy to and from a common cell.
CopiesDisjoint ==
  \A r \in Readers :
    w.pc = "copy" /\ rd[r].pc = "copy" => Cells(w) \intersect Cells(rd[r]) = {}

\* What queue_read computed before its wait and tested after it still holds
\* when it copies: the whole block is there, at the head of the queue.  The
\* mutex keeps no writer out, so only the timing prevents the overflow that
\* would empty the queue in between (AudioQueue.c:137-138, :187-209).
ReadsWholeHead ==
  \A r \in Readers :
    rd[r].pc = "copy" => rd[r].begin = front /\ QueueLen(front, rear) >= ReadLen

\* A missed signal costs one buffer of delay, not more: with prompt readers
\* the queue never holds more than two buffers and a partial block.
LagBounded == QueueLen(front, rear) < 2 * WriteLen + ReadLen

\* Every queue_read that is called returns, as long as buffers keep coming.
ReadCompletes ==
  \A r \in Readers : rd[r].pc = "lock" ~> rd[r].pc = "idle"

\* A reader only waits while there is too little data (AudioQueue.c:194):
\* it does not stay in pthread_cond_wait with a whole block in the queue.
WaitsOnlyForData ==
  \A r \in Readers :
    (rd[r].pc = "wait" /\ HasData) ~> ~(rd[r].pc = "wait" /\ HasData)

=============================================================================

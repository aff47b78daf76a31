------------------------ MODULE AudioQueueDataProofs ------------------------
(***************************************************************************)
(* What TLAPS proves about the bytes in the audio queue, for every         *)
(* capacity, buffer size and block size.                                   *)
(*                                                                         *)
(* The control state is AudioQueueProofs' matter: a step of DataNext is a  *)
(* step of Next.  Added here are LenInv, which counts the bytes, and       *)
(* ContentInv, which says where in the stream each byte of the queue       *)
(* belongs; the refinement of ByteStream follows from the two.             *)
(***************************************************************************)
EXTENDS AudioQueueData, AudioQueueProofs

-----------------------------------------------------------------------------
(* The control part.                                                       *)

LEMMA DataStepIsStep == [DataNext]_allVars => [Next]_vars
  <1> SUFFICES ASSUME DataNext PROVE Next
    BY DEF allVars
  <1>1. CASE DataWriter
    BY <1>1 DEF DataWriter, DataWCopy, DataWEnd, Next, Writer
  <1>2. ASSUME NEW r \in Readers, DataReader(r) PROVE Next
    BY <1>2 DEF DataReader, DataRCopy, Next, Reader
  <1> QED
    BY <1>1, <1>2 DEF DataNext

\* The bytes change nothing about the indices and the threads.
LEMMA DataSpecIsSpec == DataSpec => Spec
  BY DataStepIsStep, PTL DEF DataSpec, Spec, DataInit

-----------------------------------------------------------------------------
(* Types.                                                                  *)

\* What is stored are positions in the stream, for lengths the writer computes.
LEMMA StoredType ==
  ASSUME BlockInv, w.pc = "copy", captured \in Nat, mem \in [Index -> Nat]
  PROVE  Stored(w) \in [Index -> Nat]
  <1> USE FlowFacts DEF BlockInv
  <1>1. /\ w.begin = rear /\ w.len1 \in Nat /\ w.begin \in Nat
    BY DEF WriterInv, Index
  <1>2. ASSUME NEW i \in Index
        PROVE  (IF i < w.len2 THEN captured + w.len1 + i + 1
                ELSE IF i \in w.begin .. w.begin + w.len1 - 1
                  THEN captured + (i - w.begin) + 1 ELSE mem[i]) \in Nat
    <2>1. mem[i] \in Nat /\ i \in Nat
      BY DEF Index
    <2>2. CASE i < w.len2
      BY <1>1, <2>1, <2>2
    <2>3. CASE ~(i < w.len2) /\ i \in w.begin .. w.begin + w.len1 - 1
      <3>1. i >= w.begin
        BY <1>1, <2>3
      <3> QED
        BY <1>1, <2>1, <2>3, <3>1
    <2>4. CASE ~(i < w.len2) /\ i \notin w.begin .. w.begin + w.len1 - 1
      BY <2>1, <2>4
    <2> QED
      BY <2>2, <2>3, <2>4
  <1> QED
    BY <1>2 DEF Stored

LEMMA FetchedType ==
  ASSUME mem \in [Index -> Nat], NEW l
  PROVE  Fetched(l) \in [1 .. ReadLen -> Nat]
  BY DEF Fetched

LEMMA DataTypeNext ==
  ASSUME ~Clearing
  PROVE  BlockInv /\ DataTypeOK /\ [DataNext]_allVars => (BlockInv /\ DataTypeOK)'
  <1> SUFFICES ASSUME BlockInv, DataTypeOK, [DataNext]_allVars
               PROVE  (BlockInv /\ DataTypeOK)'
    OBVIOUS
  <1> USE DEF DataTypeOK
  <1>1. BlockInv' /\ TypeOK'
    BY DataStepIsStep, BlockInvNext DEF BlockInv
  <1>2. CASE UNCHANGED dataVars
    BY <1>1, <1>2 DEF dataVars
  <1>3. CASE DataWCopy
    <2>1. mem' \in [Index -> Nat]
      BY <1>3, StoredType DEF DataWCopy, WCopy
    <2> QED
      BY <1>1, <1>3, <2>1 DEF DataWCopy
  <1>4. CASE DataWEnd
    BY <1>1, <1>4, QueueAssumption DEF DataWEnd
  <1>5. ASSUME NEW r \in Readers, DataRCopy(r) PROVE (BlockInv /\ DataTypeOK)'
    <2>1. Fetched(rd[r]) \in [1 .. ReadLen -> Nat]
      BY FetchedType
    <2> QED
      BY <1>1, <1>5, <2>1, QueueAssumption DEF DataRCopy
  <1> QED
    BY <1>2, <1>3, <1>4, <1>5 DEF DataNext, DataWriter, DataReader, allVars

LEMMA DataTypeInit == DataInit => BlockInv /\ DataTypeOK
  <1> SUFFICES ASSUME DataInit PROVE BlockInv /\ DataTypeOK
    OBVIOUS
  <1>1. BlockInv
    BY BlockInvInit DEF DataInit
  <1> QED
    BY <1>1 DEF DataInit, DataTypeOK, BlockInv

\* Whatever is dropped or raced for, every cell and every delivered byte is a
\* position of the stream, as long as nobody clears the queue.
THEOREM DataTypeCorrect ==
  ASSUME ~Clearing
  PROVE  DataSpec => []DataTypeOK
  <1>1. BlockInv /\ DataTypeOK /\ [DataNext]_allVars => (BlockInv /\ DataTypeOK)'
    BY DataTypeNext
  <1> QED
    BY <1>1, DataTypeInit, PTL DEF DataSpec

-----------------------------------------------------------------------------
(* Every byte is accounted for.                                            *)

\* A reader that has copied its block and not yet stored front.
PastCopy(r) == rd[r].pc \in {"load", "store"}

LenInv ==
  /\ (\A r \in Readers : ~PastCopy(r)) => QueueLen(front, rear) = captured - taken
  /\ (\E r \in Readers : PastCopy(r))
       => QueueLen(front, rear) = captured - taken + ReadLen

\* The other readers, while one holds the mutex.
LEMMA OthersOutside ==
  ASSUME FlowInv, NEW r \in Readers, rd[r].pc \in Holding, NEW s \in Readers \ {r}
  PROVE  rd[s].pc \notin Holding /\ ~PastCopy(s)
  <1>1. mutex = r
    BY DEF FlowInv, ReaderFlow
  <1>2. rd[s].pc \notin Holding
    BY <1>1 DEF FlowInv, ReaderFlow
  <1> QED
    BY <1>2 DEF Holding, PastCopy

\* The steps that neither copy nor move an index.
Quiet ==
  /\ UNCHANGED <<front, rear, dataVars>>
  /\ \A s \in Readers : PastCopy(s)' <=> PastCopy(s)
  /\ w'.pc \in {"load", "store"} => w.pc \in {"load", "store"}

LEMMA WriterQuiet ==
  ASSUME FlowInv, DataWriter, ~WOverflow, ~DataWCopy, ~WStore
  PROVE  Quiet
  <1> USE FlowFacts DEF FlowInv, BlockInv
  <1>1. ~WDropFront /\ ~WDropRear
    BY DEF WDropFront, WDropRear, WriterFlow
  <1>2. CASE WSignal /\ UNCHANGED dataVars
    <2>1. UNCHANGED <<front, rear>> /\ w'.pc = "idle"
      BY <1>2 DEF WSignal, Outside
    <2>2. CASE UNCHANGED rd
      BY <1>2, <2>1, <2>2 DEF Quiet, PastCopy
    <2>3. ASSUME NEW q \in Readers, rd[q].pc = "wait", rd' = [rd EXCEPT ![q].pc = "wake"]
          PROVE  Quiet
      <3>1. rd'[q].pc = "wake" /\ \A s \in Readers \ {q} : rd'[s] = rd[s]
        BY <2>3
      <3> QED
        BY <1>2, <2>1, <2>3, <3>1 DEF Quiet, PastCopy
    <2> QED
      BY <1>2, <2>2, <2>3, SignalCases
  <1>3. CASE (WEnter \/ WBegin \/ WCheck \/ WSplit \/ WLoad) /\ UNCHANGED dataVars
    BY <1>3 DEF WEnter, WBegin, WCheck, WSplit, WLoad, Quiet, PastCopy
  <1> QED
    BY <1>1, <1>2, <1>3 DEF DataWriter, DataWEnd

LEMMA ReaderQuiet ==
  ASSUME FlowInv, ~Clearing, NEW r \in Readers, DataReader(r), ~DataRCopy(r), ~RStore(r)
  PROVE  Quiet
  <1> USE FlowFacts DEF FlowInv, BlockInv
  <1>0. Reader(r) /\ UNCHANGED dataVars /\ rd[r].pc # "copy"
    BY DEF DataReader
  <1>1. /\ ~(RClearFront(r) \/ RClearRear(r)) /\ UNCHANGED <<rear, w>>
        /\ \A s \in Readers \ {r} : rd'[s] = rd[s]
    BY <1>0, ReaderFrame
  <1>2. ~RCopy(r)
    BY <1>0 DEF RCopy
  <1>3. front' = front
    BY <1>0, <1>1 DEF Reader, RCall, RLock, RCheck, RSleep, RSpurious, RWake,
       RBranch, RSplit, RCopy, RLoad
  <1>4. PastCopy(r)' <=> PastCopy(r)
    <2>1. CASE RLoad(r)
      BY <2>1 DEF RLoad, PastCopy
    <2>2. CASE RCall(r)
      <3>1. rd'[r].pc \in {"lock", "wait", "wake", "idle"} /\ rd[r].pc = "idle"
        BY <2>2, ReaderOutside DEF RCall
      <3> QED
        BY <3>1 DEF PastCopy
    <2>3. CASE RLock(r) \/ RCheck(r) \/ RSleep(r) \/ RSpurious(r) \/ RWake(r)
               \/ RBranch(r) \/ RSplit(r)
      BY <2>3 DEF RLock, RCheck, RSleep, RSpurious, RWake, RBranch, RSplit, PastCopy
    <2> QED
      BY <1>0, <1>1, <1>2, <2>1, <2>2, <2>3 DEF Reader
  <1> QED
    BY <1>0, <1>1, <1>3, <1>4 DEF Quiet, PastCopy

\* The steps of the data module, one by one.
LEMMA DataCases ==
  ASSUME FlowInv, ~Clearing, ~WOverflow, [DataNext]_allVars
  PROVE  \/ Quiet
         \/ DataWCopy
         \/ DataWEnd /\ WStore
         \/ \E r \in Readers : DataRCopy(r)
         \/ \E r \in Readers : RStore(r) /\ UNCHANGED dataVars
  <1>1. CASE UNCHANGED allVars
    BY <1>1 DEF allVars, vars, Quiet, PastCopy
  <1>2. CASE DataWriter
    <2>1. CASE WStore
      <3>1. w.pc = "store"
        BY <2>1 DEF WStore
      <3>2. DataWEnd
        BY <1>2, <3>1 DEF DataWriter, DataWCopy, WEnter, WOverflow, WDropFront, WBegin,
           WCheck, WSplit, WCopy, WLoad, WSignal
      <3> QED
        BY <2>1, <3>2
    <2> QED
      BY <1>2, <2>1, WriterQuiet
  <1>3. ASSUME NEW r \in Readers, DataReader(r)
        PROVE  Quiet \/ DataRCopy(r) \/ (RStore(r) /\ UNCHANGED dataVars)
    <2>1. CASE RStore(r)
      <3>1. ~RCopy(r)
        BY <2>1 DEF RStore, RCopy
      <3> QED
        BY <1>3, <2>1, <3>1 DEF DataReader, DataRCopy
    <2> QED
      BY <1>3, <2>1, ReaderQuiet
  <1> QED
    BY <1>1, <1>2, <1>3 DEF DataNext

LEMMA LenInvNext ==
  ASSUME FlowInv, DataTypeOK, LenInv, ~Clearing, ~WOverflow, [DataNext]_allVars
  PROVE  LenInv'
  <1> USE FlowFacts DEF FlowInv, BlockInv, DataTypeOK
  <1>1. CASE Quiet
    BY <1>1 DEF Quiet, dataVars, LenInv
  <1>2. CASE DataWCopy
    BY <1>2 DEF DataWCopy, WCopy, LenInv, PastCopy
  <1>3. CASE DataWEnd /\ WStore
    <2>1. /\ QueueLen(front', rear') = QueueLen(front, rear) + WriteLen
          /\ captured' = captured + WriteLen /\ UNCHANGED <<taken, rd>>
      BY <1>3, StoreGrows DEF DataWEnd
    <2>2. \A s \in Readers : PastCopy(s)' <=> PastCopy(s)
      BY <2>1 DEF PastCopy
    <2>3. ASSUME NEW c \in {0, ReadLen}, QueueLen(front, rear) = captured - taken + c
          PROVE  QueueLen(front', rear') = captured' - taken' + c
      BY ONLY <2>1, <2>3, FlowFacts, captured \in Nat, taken \in Nat, TypeOK
    <2>4. CASE \E s \in Readers : PastCopy(s)
      BY <2>2, <2>3, <2>4 DEF LenInv
    <2>5. CASE \A s \in Readers : ~PastCopy(s)
      BY <2>1, <2>2, <2>3, <2>5 DEF LenInv
    <2> QED
      BY <2>4, <2>5
  <1>4. ASSUME NEW r \in Readers, DataRCopy(r) PROVE LenInv'
    <2>1. /\ rd[r].pc = "copy" /\ rd'[r].pc = "load" /\ UNCHANGED <<front, rear, captured>>
          /\ taken' = taken + ReadLen
      BY <1>4 DEF DataRCopy, RCopy
    <2>2. \A s \in Readers : ~PastCopy(s)
      BY <2>1, OthersOutside DEF Holding, PastCopy
    <2>3. QueueLen(front, rear) = captured - taken
      BY <2>2 DEF LenInv
    <2>4. PastCopy(r)'
      BY <2>1 DEF PastCopy
    <2>5. QueueLen(front', rear') = captured' - taken' + ReadLen
      BY <2>1, <2>3, QueueAssumption
    <2> QED
      BY <2>4, <2>5 DEF LenInv
  <1>5. ASSUME NEW r \in Readers, RStore(r), UNCHANGED dataVars PROVE LenInv'
    <2>1. /\ QueueLen(front', rear') = QueueLen(front, rear) - ReadLen
          /\ rd[r].pc = "store" /\ rd' = [rd EXCEPT ![r] = Outside]
      BY <1>5, StoreShrinks
    <2>2. PastCopy(r) /\ \A s \in Readers \ {r} : ~PastCopy(s)
      BY <2>1, OthersOutside DEF Holding, PastCopy
    <2>3. \A s \in Readers : ~PastCopy(s)'
      BY <2>1, <2>2 DEF PastCopy, Outside
    <2>4. QueueLen(front, rear) = captured - taken + ReadLen
      BY <2>2 DEF LenInv
    <2> QED
      BY <1>5, <2>1, <2>3, <2>4 DEF LenInv, dataVars
  <1> QED
    BY <1>1, <1>2, <1>3, <1>4, <1>5, DataCases

LEMMA LenInvInit == DataInit => LenInv
  <1> SUFFICES ASSUME DataInit PROVE LenInv
    OBVIOUS
  <1>1. /\ TypeOK /\ front = rear /\ captured = 0 /\ taken = 0
        /\ \A r \in Readers : rd[r].pc = "idle"
    BY InitTypeOK DEF DataInit, Init, Outside
  <1>2. QueueLen(front, rear) = 0
    BY <1>1, LenCases, FlowFacts DEF Index
  <1> QED
    BY <1>1, <1>2 DEF LenInv, PastCopy

\* The control invariant, the types and the count together.
CountInv == FlowInv /\ DataTypeOK /\ LenInv

LEMMA CountInvNext ==
  ASSUME ~Clearing, ~WOverflow, CountInv, [DataNext]_allVars
  PROVE  CountInv'
  <1> USE DEF CountInv
  <1>1. FlowInv'
    BY DataStepIsStep, FlowInvNext
  <1>2. DataTypeOK'
    BY DataTypeNext DEF FlowInv
  <1>3. LenInv'
    BY LenInvNext
  <1> QED
    BY <1>1, <1>2, <1>3

LEMMA CountInvInit == DataInit => CountInv
  BY DataTypeInit, LenInvInit, FlowInvInit DEF DataInit, CountInv

\* While the readers keep up, the indices account for every byte, however
\* many readers share the queue: they differ by what was captured and not
\* yet taken, up to the block that is copied and not yet counted off.
THEOREM EveryByteCounted ==
  ASSUME ~Clearing, Paced
  PROVE  DataSpec => []LenExact
  <1>1. CountInv /\ [DataNext]_allVars => CountInv'
    BY CountInvNext DEF WOverflow
  <1>2. CountInv => LenExact
    BY DEF CountInv, LenInv, LenExact, PastCopy
  <1> QED
    BY <1>1, <1>2, CountInvInit, PTL DEF DataSpec

-----------------------------------------------------------------------------
(* Every byte is where it belongs.                                         *)

\* Forward adds up.
LEMMA ForwardForward ==
  ASSUME NEW i \in Index, NEW m \in Nat, NEW n \in Nat, m + n <= Capacity
  PROVE  Forward(Forward(i, m), n) = Forward(i, m + n)
  <1>1. /\ Forward(i, m) = IF i + m < Capacity THEN i + m ELSE i + m - Capacity
        /\ Forward(i, m) \in Index
    BY ForwardCases, ForwardRange, CapacityPositive
  <1>2. Forward(Forward(i, m), n) = IF Forward(i, m) + n < Capacity THEN Forward(i, m) + n
                                      ELSE Forward(i, m) + n - Capacity
    BY <1>1, ForwardCases, CapacityPositive
  <1>3. Forward(i, m + n) = IF i + (m + n) < Capacity THEN i + (m + n)
                              ELSE i + (m + n) - Capacity
    BY ForwardCases, CapacityPositive
  <1> QED
    BY <1>1, <1>2, <1>3, CapacityPositive DEF Index

\* rear is as far from front as the queue is long.
LEMMA ForwardLen ==
  ASSUME NEW f \in Index, NEW r \in Index
  PROVE  Forward(f, QueueLen(f, r)) = r
  <1>1. /\ QueueLen(f, r) \in 0 .. Capacity - 1
        /\ QueueLen(f, r) = IF f <= r THEN r - f ELSE r - f + Capacity
    BY LenRange, LenCases
  <1>2. Forward(f, QueueLen(f, r)) = IF f + QueueLen(f, r) < Capacity THEN f + QueueLen(f, r)
                                       ELSE f + QueueLen(f, r) - Capacity
    BY <1>1, ForwardCases, CapacityPositive
  <1> QED
    BY <1>1, <1>2, CapacityPositive DEF Index

\* The kth cell from an index on.
LEMMA KthCell ==
  ASSUME NEW i \in Index, NEW k \in 1 .. Capacity
  PROVE  /\ Forward(i, k - 1) \in Index
         /\ Forward(i, k - 1) = IF i + (k - 1) < Capacity THEN i + (k - 1)
                                  ELSE i + (k - 1) - Capacity
  <1>1. k - 1 \in Nat /\ k - 1 <= Capacity
    BY CapacityPositive
  <1> QED
    BY <1>1, ForwardCases, ForwardRange

\* The kth cell of the queue holds the byte that many places into what the
\* queue still carries of the stream; and the room that the writer has filled
\* but not yet told of holds the next buffer.
ContentInv ==
  /\ \A k \in 1 .. QueueLen(front, rear) :
       mem[Forward(front, k - 1)] = captured - QueueLen(front, rear) + k
  /\ w.pc \in {"load", "store"} =>
       \A k \in 1 .. WriteLen : mem[Forward(rear, k - 1)] = captured + k

\* The memcpy pair of queue_write: the buffer goes behind rear ...
LEMMA StoredBuffer ==
  ASSUME FlowInv, w.pc = "copy", captured \in Nat, NEW k \in 1 .. WriteLen
  PROVE  Stored(w)[Forward(rear, k - 1)] = captured + k
  <1> USE FlowFacts DEF FlowInv, BlockInv
  <1> DEFINE i == Forward(rear, k - 1)
  <1>1. /\ i \in Index
        /\ i = IF rear + (k - 1) < Capacity THEN rear + (k - 1) ELSE rear + (k - 1) - Capacity
    <2>1. k \in 1 .. Capacity
      OBVIOUS
    <2> QED
      BY <2>1, KthCell
  <1>2. Stored(w)[i] = IF i < w.len2 THEN captured + w.len1 + i + 1
                       ELSE IF i \in w.begin .. w.begin + w.len1 - 1
                         THEN captured + (i - w.begin) + 1 ELSE mem[i]
    BY <1>1 DEF Stored
  <1> HIDE DEF i
  <1>3. CASE w.len1 = WriteLen /\ w.len2 = 0 /\ rear + WriteLen <= Capacity - 1
    <2>1. i = rear + (k - 1)
      BY <1>1, <1>3 DEF Index
    <2>2. ~(i < w.len2) /\ i \in w.begin .. w.begin + w.len1 - 1 /\ w.begin = rear
      BY <1>3, <2>1, WriterAtCopy DEF Index
    <2> QED
      BY <1>2, <2>1, <2>2 DEF i, Index
  <1>4. CASE /\ w.len1 = Capacity - rear /\ w.len2 = WriteLen - w.len1
             /\ rear + WriteLen > Capacity - 1
    <2>1. CASE rear + (k - 1) < Capacity
      <3>1. i = rear + (k - 1)
        BY <1>1, <2>1
      <3>2. ~(i < w.len2) /\ i \in w.begin .. w.begin + w.len1 - 1 /\ w.begin = rear
        BY <1>4, <2>1, <3>1, WriterAtCopy DEF Index
      <3> QED
        BY <1>2, <3>1, <3>2 DEF i, Index
    <2>2. CASE ~(rear + (k - 1) < Capacity)
      <3>1. i = rear + (k - 1) - Capacity
        BY <1>1, <2>2
      <3>2. i < w.len2
        BY <1>4, <3>1 DEF Index
      <3> QED
        BY <1>2, <1>4, <3>1, <3>2 DEF i, Index
    <2> QED
      BY <2>1, <2>2
  <1> QED
    BY <1>3, <1>4, WriterAtCopy

\* ... and touches nothing the queue holds.
LEMMA StoredElsewhere ==
  ASSUME FlowInv, w.pc = "copy", captured \in Nat, NEW k \in 1 .. QueueLen(front, rear)
  PROVE  Stored(w)[Forward(front, k - 1)] = mem[Forward(front, k - 1)]
  <1> USE FlowFacts DEF FlowInv, BlockInv
  <1> DEFINE i == Forward(front, k - 1)
  <1>1. /\ i \in Index
        /\ i = IF front + (k - 1) < Capacity THEN front + (k - 1)
                 ELSE front + (k - 1) - Capacity
    <2>1. k \in 1 .. Capacity
      OBVIOUS
    <2> QED
      BY <2>1, KthCell
  <1>2. Stored(w)[i] = IF i < w.len2 THEN captured + w.len1 + i + 1
                       ELSE IF i \in w.begin .. w.begin + w.len1 - 1
                         THEN captured + (i - w.begin) + 1 ELSE mem[i]
    BY <1>1 DEF Stored
  <1> HIDE DEF i
  <1>3. /\ QueueLen(front, rear) = IF front <= rear THEN rear - front
                                                    ELSE rear - front + Capacity
        /\ QueueLen(front, rear) + WriteLen < Capacity /\ w.begin = rear
    BY LenCases, WriterAtCopy
  <1>4. ~(i < w.len2)
    BY <1>1, <1>3, WriterAtCopy DEF Index
  <1>5. i \notin w.begin .. w.begin + w.len1 - 1
    BY <1>1, <1>3, WriterAtCopy DEF Index
  <1> QED
    BY <1>2, <1>4, <1>5 DEF i

\* The memcpy pair of queue_read: the block is the bytes after front.
LEMMA FetchedBlock ==
  ASSUME FlowInv, HeadInv, ContentInv, NEW r \in Readers, rd[r].pc = "copy"
  PROVE  Fetched(rd[r]) =
           [k \in 1 .. ReadLen |-> captured - QueueLen(front, rear) + k]
  <1> USE FlowFacts DEF FlowInv, BlockInv
  <1> DEFINE l == rd[r]
             Cell(i) == IF i \in Index THEN mem[i] ELSE 0
             at(k) == IF k <= l.len1 THEN l.begin + k - 1 ELSE k - l.len1 - 1
  <1>1. ASSUME NEW k \in 1 .. ReadLen
        PROVE  at(k) = Forward(front, k - 1) /\ Forward(front, k - 1) \in Index
    <2>1. /\ Forward(front, k - 1) \in Index
          /\ Forward(front, k - 1) = IF front + (k - 1) < Capacity THEN front + (k - 1)
                                       ELSE front + (k - 1) - Capacity
      <3>1. k \in 1 .. Capacity
        OBVIOUS
      <3> QED
        BY <3>1, KthCell
    <2>2. at(k) = Forward(front, k - 1)
      BY <2>1, ReaderAtCopy DEF Index
    <2> QED
      BY <2>1, <2>2
  <1>2. ASSUME NEW k \in 1 .. ReadLen
        PROVE  Cell(at(k)) = captured - QueueLen(front, rear) + k
    <2>1. k \in 1 .. QueueLen(front, rear)
      BY ReaderAtCopy
    <2>2. mem[Forward(front, k - 1)] = captured - QueueLen(front, rear) + k
      BY <2>1 DEF ContentInv
    <2> QED
      BY <1>1, <2>2
  <1>3. Fetched(l) = [k \in 1 .. ReadLen |-> Cell(at(k))]
    BY DEF Fetched
  <1> QED
    BY <1>2, <1>3

LEMMA ContentInvNext ==
  ASSUME CountInv, ContentInv, ~Clearing, ~WOverflow, [DataNext]_allVars
  PROVE  ContentInv'
  <1> USE FlowFacts DEF CountInv, FlowInv, BlockInv, DataTypeOK
  <1>1. CASE Quiet
    BY <1>1 DEF Quiet, dataVars, ContentInv
  <1>2. CASE DataWCopy
    <2>1. /\ w.pc = "copy" /\ mem' = Stored(w) /\ w'.pc = "load"
          /\ UNCHANGED <<front, rear, captured>>
      BY <1>2 DEF DataWCopy, WCopy
    <2>2. ASSUME NEW k \in 1 .. QueueLen(front, rear)
          PROVE  mem'[Forward(front, k - 1)] = captured - QueueLen(front, rear) + k
      BY <2>1, StoredElsewhere DEF ContentInv
    <2>3. ASSUME NEW k \in 1 .. WriteLen
          PROVE  mem'[Forward(rear, k - 1)] = captured + k
      BY <2>1, StoredBuffer
    <2> QED
      BY <2>1, <2>2, <2>3 DEF ContentInv
  <1>3. CASE DataWEnd /\ WStore
    <2> DEFINE n == QueueLen(front, rear)
    <2>1. /\ QueueLen(front', rear') = n + WriteLen /\ front' = front
          /\ captured' = captured + WriteLen /\ mem' = mem
          /\ w.pc = "store" /\ w'.pc = "signal"
      BY <1>3, StoreGrows DEF DataWEnd
    <2>2. /\ n \in Nat /\ n + WriteLen < Capacity
          /\ \A k \in 1 .. n : mem[Forward(front, k - 1)] = captured - n + k
          /\ \A k \in 1 .. WriteLen : mem[Forward(rear, k - 1)] = captured + k
      BY <2>1 DEF WriterFlow, ContentInv
    <2>3. Forward(front, n) = rear
      BY ForwardLen
    <2> HIDE DEF n
    <2>4. ASSUME NEW k \in 1 .. n + WriteLen
          PROVE  mem[Forward(front, k - 1)] = captured - n + k
      <3>1. CASE k \in 1 .. n
        BY <2>2, <3>1
      <3>2. CASE k \notin 1 .. n
        <4> DEFINE j == k - n
        <4>0. /\ k \in Int /\ n < k /\ k <= n + WriteLen /\ n + WriteLen < Capacity
              /\ n \in Nat /\ WriteLen \in Nat /\ Capacity \in Nat
          BY <2>2, <3>2
        <4>1. /\ j \in 1 .. WriteLen /\ j - 1 \in Nat /\ n + (j - 1) = k - 1
              /\ n + (j - 1) <= Capacity
          BY ONLY <4>0
        <4> HIDE DEF j
        <4>2. Forward(rear, j - 1) = Forward(front, n + (j - 1))
          BY <2>2, <2>3, <4>1, ForwardForward
        <4>3. mem[Forward(rear, j - 1)] = captured + j
          BY <2>2, <4>1
        <4>4. captured + j = captured - n + k
          BY <2>2 DEF j
        <4> QED
          BY <4>1, <4>2, <4>3, <4>4
      <3> QED
        BY <3>1, <3>2
    <2>5. captured' - (n + WriteLen) = captured - n
      BY <2>1, <2>2
    <2> QED
      BY <2>1, <2>4, <2>5 DEF ContentInv
  <1>4. ASSUME NEW r \in Readers, DataRCopy(r) PROVE ContentInv'
    BY <1>4 DEF DataRCopy, RCopy, ContentInv
  <1>5. ASSUME NEW r \in Readers, RStore(r), UNCHANGED dataVars PROVE ContentInv'
    <2> DEFINE n == QueueLen(front, rear)
    <2>1. /\ n >= ReadLen /\ QueueLen(front', rear') = n - ReadLen
          /\ front' = Forward(front, ReadLen) /\ UNCHANGED <<rear, w>>
      BY <1>5, StoreShrinks
    <2>2. /\ n \in Nat /\ n < Capacity
          /\ \A k \in 1 .. n : mem[Forward(front, k - 1)] = captured - n + k
      BY DEF ContentInv
    <2> HIDE DEF n
    <2>3. ASSUME NEW k \in 1 .. n - ReadLen
          PROVE  mem[Forward(front', k - 1)] = captured - (n - ReadLen) + k
      <3> DEFINE j == ReadLen + k
      <3>0. /\ k \in Int /\ 1 <= k /\ k + ReadLen <= n /\ n \in Nat
            /\ n < Capacity /\ ReadLen \in Nat /\ Capacity \in Nat
        BY <2>1, <2>2
      <3>1. /\ j \in 1 .. n /\ j - 1 = ReadLen + (k - 1) /\ k - 1 \in Nat
            /\ ReadLen + (k - 1) <= Capacity
        BY ONLY <3>0
      <3>2. captured - n + j = captured - (n - ReadLen) + k
        BY <3>0
      <3> HIDE DEF j
      <3>3. Forward(front', k - 1) = Forward(front, j - 1)
        BY <2>1, <3>1, ForwardForward
      <3> QED
        BY <2>2, <3>1, <3>2, <3>3
    <2> QED
      BY <1>5, <2>1, <2>3 DEF ContentInv, dataVars
  <1> QED
    BY <1>1, <1>2, <1>3, <1>4, <1>5, DataCases

LEMMA ContentInvInit == DataInit => ContentInv
  <1> SUFFICES ASSUME DataInit PROVE ContentInv
    OBVIOUS
  <1>1. TypeOK /\ front = rear /\ w.pc = "idle"
    BY InitTypeOK DEF DataInit, Init, Outside
  <1>2. QueueLen(front, rear) = 0
    BY <1>1, LenCases, FlowFacts DEF Index
  <1> QED
    BY <1>1, <1>2 DEF ContentInv

-----------------------------------------------------------------------------
(* One reader that keeps up: the queue is a byte stream.                   *)

StreamInv == CountInv /\ HeadInv /\ ContentInv

LEMMA StreamInvNext ==
  ASSUME ~Clearing, ~WOverflow, \A r, s \in Readers : r = s,
         StreamInv, [DataNext]_allVars
  PROVE  StreamInv'
  <1> USE DEF StreamInv
  <1>1. CountInv'
    BY CountInvNext
  <1>2. HeadInv'
    BY DataStepIsStep, HeadInvNext DEF CountInv
  <1>3. ContentInv'
    BY ContentInvNext
  <1> QED
    BY <1>1, <1>2, <1>3

LEMMA StreamInvInit == DataInit => StreamInv
  BY CountInvInit, ContentInvInit, FlowInvInit DEF DataInit, StreamInv

StreamStep == [Stream!Next]_(Stream!vars)

\* The store of rear is the Put: the buffer was in the queue before, but only
\* now can a reader know of it.
LEMMA PutStep ==
  ASSUME StreamInv, DataWEnd, WStore
  PROVE  Stream!Put
  <1> USE FlowFacts DEF StreamInv, CountInv, FlowInv, BlockInv, DataTypeOK
  <1>1. /\ captured' = captured + WriteLen /\ UNCHANGED <<taken, out>>
        /\ w.pc = "store"
    BY DEF DataWEnd, WStore
  <1>2. QueueLen(front, rear) + WriteLen <= Capacity - 1
    BY <1>1 DEF WriterFlow
  <1>3. QueueLen(front, rear) >= captured - taken
    BY DEF LenInv
  <1>4. captured + WriteLen - taken <= Capacity - 1
    BY <1>2, <1>3
  <1> QED
    BY <1>1, <1>4 DEF Stream!Put

\* The memcpy pair of queue_read is the Take.
LEMMA TakeStep ==
  ASSUME StreamInv, Readers = {TheReader}, NEW r \in Readers, DataRCopy(r)
  PROVE  Stream!Take
  <1> USE FlowFacts DEF StreamInv, CountInv, FlowInv, BlockInv, DataTypeOK
  <1>1. /\ r = TheReader /\ rd[r].pc = "copy" /\ captured' = captured
        /\ taken' = taken + ReadLen /\ out' = [out EXCEPT ![r] = Fetched(rd[r])]
    BY DEF DataRCopy, RCopy
  <1>2. QueueLen(front, rear) = captured - taken
    BY <1>1 DEF LenInv, PastCopy
  <1>3. taken + ReadLen <= captured
    BY <1>1, <1>2, ReaderAtCopy
  <1>4. Fetched(rd[r]) = [k \in 1 .. ReadLen |-> captured - QueueLen(front, rear) + k]
    BY <1>1, FetchedBlock
  <1>5. captured - QueueLen(front, rear) = taken
    BY <1>2
  <1>6. out'[TheReader] = [k \in 1 .. ReadLen |-> taken + k]
    BY <1>1, <1>4, <1>5
  <1> QED
    BY <1>1, <1>3, <1>6 DEF Stream!Take

LEMMA StreamStepHolds ==
  ASSUME ~Clearing, ~WOverflow, Readers = {TheReader}, StreamInv, [DataNext]_allVars
  PROVE  StreamStep
  <1>1. CASE Quiet
    BY <1>1 DEF Quiet, dataVars, StreamStep, Stream!vars
  <1>2. CASE DataWCopy
    BY <1>2 DEF DataWCopy, StreamStep, Stream!vars
  <1>3. CASE DataWEnd /\ WStore
    BY <1>3, PutStep DEF StreamStep, Stream!Next
  <1>4. ASSUME NEW r \in Readers, DataRCopy(r) PROVE StreamStep
    BY <1>4, TakeStep DEF StreamStep, Stream!Next
  <1>5. ASSUME NEW r \in Readers, UNCHANGED dataVars PROVE StreamStep
    BY <1>5 DEF dataVars, StreamStep, Stream!vars
  <1> QED
    BY <1>1, <1>2, <1>3, <1>4, <1>5, DataCases DEF StreamInv, CountInv

\* For every capacity, buffer and block, one record thread that keeps up gets
\* the captured bytes in order, none lost and none twice, although the writer
\* takes no lock and the reader sleeps and wakes inside queue_read: the queue
\* of AudioQueue.c is the byte stream.
THEOREM QueueIsByteStream ==
  ASSUME ~Clearing, Paced, Readers = {TheReader}
  PROVE  DataSpec => ImplementsStream
  <1>1. \A r, s \in Readers : r = s
    OBVIOUS
  <1>2. StreamInv /\ [DataNext]_allVars => StreamInv'
    BY <1>1, StreamInvNext DEF WOverflow
  <1>3. StreamInv /\ [DataNext]_allVars => StreamStep
    BY StreamStepHolds DEF WOverflow
  <1>4. DataInit => Stream!Init
    BY DEF DataInit, Stream!Init
  <1> QED
    BY <1>2, <1>3, <1>4, StreamInvInit, PTL
    DEF DataSpec, ImplementsStream, Stream!Spec, StreamStep


-----------------------------------------------------------------------------
(* The program's timing instead of a queue that is never too full.         *)

PromptDataNext == DataNext /\ PromptStep
PromptDataSpec == DataInit /\ [][PromptDataNext]_allVars

\* The timing is a condition on the control state alone, so what it keeps of
\* that it keeps here; in particular the writer never drops the queue.
LEMMA PromptDataLag ==
  ASSUME ~Clearing, Readers # {}, 2 * WriteLen + ReadLen <= Capacity,
         FlowInv, LagInv, [PromptDataNext]_allVars
  PROVE  LagInv' /\ ~WOverflow /\ [DataNext]_allVars
  <1>1. [DataNext]_allVars /\ PromptStep
    BY DEF PromptDataNext, PromptStep, allVars, vars
  <1>2. [PromptNext]_vars
    BY <1>1, DataStepIsStep DEF PromptNext, PromptStep
  <1>3. LagInv'
    BY <1>2, LagInvNext
  <1> QED
    BY <1>1, <1>3, LagFits

\* With the timing of the program, in which the device takes as long for a
\* buffer as the record thread for many blocks (alsa_recorder.cpp:135,
\* Recorder.cpp:308), and a queue that has room for two buffers and a block
\* (Recorder.cpp:319), the queue is that byte stream although nothing tells the
\* writer to wait: signals may be missed, no byte is.
THEOREM PromptQueueIsByteStream ==
  ASSUME ~Clearing, Readers = {TheReader}, 2 * WriteLen + ReadLen <= Capacity
  PROVE  PromptDataSpec => ImplementsStream
  <1>1. Readers # {} /\ \A r, s \in Readers : r = s
    OBVIOUS
  <1>2. StreamInv /\ LagInv /\ [PromptDataNext]_allVars => (StreamInv /\ LagInv)'
    BY <1>1, PromptDataLag, StreamInvNext DEF StreamInv, CountInv
  <1>3. StreamInv /\ LagInv /\ [PromptDataNext]_allVars => StreamStep
    BY <1>1, PromptDataLag, StreamStepHolds DEF StreamInv, CountInv
  <1>4. DataInit => Stream!Init /\ LagInv
    BY LagInvInit DEF DataInit, Stream!Init
  <1> QED
    BY <1>2, <1>3, <1>4, StreamInvInit, PTL
    DEF PromptDataSpec, ImplementsStream, Stream!Spec, StreamStep
=============================================================================

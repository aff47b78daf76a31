--------------------------- MODULE AudioQueueData ---------------------------
(***************************************************************************)
(* AudioQueue with the bytes it carries.  A byte is represented by its     *)
(* position in the captured stream, 1, 2, ..., so that loss, repetition    *)
(* and reordering show; 0 stands for a byte nobody has written.  captured  *)
(* and taken only record what happened.                                    *)
(***************************************************************************)
EXTENDS AudioQueue

CONSTANT MaxCaptured  \* bound: queue_write is called while captured is below it

VARIABLES
  mem,       \* the data area
  captured,  \* bytes of the queue_write calls that have ended
  out,       \* the data[] buffer of each reader
  taken      \* bytes copied out by all readers

dataVars == <<mem, captured, out, taken>>
allVars == <<vars, dataVars>>

DataInit ==
  /\ Init
  /\ mem = [i \in Index |-> 0]
  /\ captured = 0
  /\ out = [r \in Readers |-> [k \in 1 .. ReadLen |-> 0]]
  /\ taken = 0

\* memcpy(begin, data, len1), then memcpy(queueBase, data + len1, len2), of
\* the buffer that follows the captured bytes.
Stored(l) ==
  [i \in Index |->
     IF i < l.len2 THEN captured + l.len1 + i + 1
     ELSE IF i \in l.begin .. l.begin + l.len1 - 1
       THEN captured + (i - l.begin) + 1
       ELSE mem[i]]

\* Mutant: the second memcpy goes to the start of data[] again.
FetchedTwice(l) ==
  LET Cell(i) == IF i \in Index THEN mem[i] ELSE 0
  IN  [k \in 1 .. ReadLen |-> Cell(IF k <= l.len2 THEN k - 1 ELSE l.begin + k - 1)]

\* memcpy(data, begin, len1), then memcpy(&data[len1], queueBase, len2); what
\* lies behind the block is not written by anybody.
Fetched(l) ==
  LET Cell(i) == IF i \in Index THEN mem[i] ELSE 0
  IN  [k \in 1 .. ReadLen |->
         Cell(IF k <= l.len1 THEN l.begin + k - 1 ELSE k - l.len1 - 1)]

-----------------------------------------------------------------------------
DataWCopy == WCopy /\ mem' = Stored(w) /\ UNCHANGED <<captured, out, taken>>

\* The call that stored the buffer, or dropped it, has consumed it.
DataWEnd ==
  /\ WStore \/ WDropRear
  /\ captured' = captured + WriteLen
  /\ UNCHANGED <<mem, out, taken>>

DataWriter ==
  \/ (WEnter \/ WOverflow) /\ captured < MaxCaptured /\ UNCHANGED dataVars
  \/ (WDropFront \/ WBegin \/ WCheck \/ WSplit \/ WLoad \/ WSignal)
     /\ UNCHANGED dataVars
  \/ DataWCopy
  \/ DataWEnd

DataRCopy(r) ==
  /\ RCopy(r)
  /\ out' = [out EXCEPT ![r] = Fetched(rd[r])]
  /\ taken' = taken + ReadLen
  /\ UNCHANGED <<mem, captured>>

DataReader(r) ==
  \/ DataRCopy(r)
  \/ rd[r].pc # "copy" /\ Reader(r) /\ UNCHANGED dataVars

DataNext == DataWriter \/ \E r \in Readers : DataReader(r)

DataSpec == DataInit /\ [][DataNext]_allVars

-----------------------------------------------------------------------------
(* Properties.                                                             *)

DataTypeOK ==
  /\ TypeOK
  /\ mem \in [Index -> Nat]
  /\ captured \in Nat /\ taken \in Nat
  /\ out \in [Readers -> [1 .. ReadLen -> Nat]]

\* The indices account for every byte: unless a reader has copied a block
\* and not yet moved front, what queue_len reports is what was captured and
\* not yet taken.
LenExact ==
  (\A r \in Readers : rd[r].pc \notin {"load", "store"})
    => QueueLen(front, rear) = captured - taken

\* For one reader that keeps up, the queue is a lossless byte stream.
TheReader == CHOOSE r \in Readers : TRUE
Stream == INSTANCE ByteStream WITH
            PutLen <- WriteLen, BlockLen <- ReadLen, Room <- Capacity - 1,
            sent <- captured, got <- taken, block <- out[TheReader]
ImplementsStream == Stream!Spec

=============================================================================

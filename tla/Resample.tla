------------------------------ MODULE Resample ------------------------------
(***************************************************************************)
(* ReSamples of Recorder.cpp with checkStart and getChannelIndex: finding  *)
(* the start of a frame of six channels in the first block of a session,   *)
(* taking four of the channels of every frame, and the alarm about frames  *)
(* whose second channel lacks its mark.                                    *)
(*                                                                         *)
(* A byte matters only by its high bit.  A device that is set up marks the *)
(* first byte of channels one and two of each frame; which other bytes     *)
(* have the bit set is up to the sound, here alike in all frames of a      *)
(* block.  Every block of a session begins at the same byte of a frame,    *)
(* since the buffers between the device and ReSamples hold whole frames    *)
(* (the clearing of the queue, which can undo that, is AudioQueue's).      *)
(***************************************************************************)
EXTENDS Integers, FiniteSets, FiniteSetsExt

CONSTANTS
  BlockFrames,  \* frames in a block (128 in record())
  AlarmAt,      \* the number of unmarked frames that raises an alarm (1024)
  Skews,        \* the bytes of a frame at which sessions may begin
  Sounds        \* the sets of bytes of a frame that may have the bit set

SampleBytes == 4
FrameBytes == 24
Marks == {0, SampleBytes}

ASSUME ResampleAssumption ==
  /\ BlockFrames \in Nat /\ BlockFrames >= 4
  /\ AlarmAt \in Nat \ {0}
  /\ Skews \subseteq 0 .. FrameBytes - 1
  /\ Sounds \subseteq SUBSET (0 .. FrameBytes - 1)

None == -1

VARIABLES
  skew,        \* the byte of a frame with which each block of the session begins
  isFirst,     \* isFirst of record()
  statistics,  \* the global counter, which outlives the sessions
  from,        \* where the frames of the last block were taken from, or None
  alarm,       \* whether CAEAudioException has been called in this session
  clean        \* whether all blocks of this session carried the marks

vars == <<skew, isFirst, statistics, from, alarm, clean>>

BlockBytes == BlockFrames * FrameBytes

\* The high bit of byte i of a block.
Marked(i, sound) == (i + skew) % FrameBytes \in sound

\* Mutant: the second channel's mark is not looked at.
CheckStartOneMark(i, sound) ==
  /\ BlockBytes - i >= 2 * FrameBytes
  /\ \A j \in {0, FrameBytes} : Marked(i + j, sound)

\* checkStart: of its tests of twelve samples only these four can fail.
CheckStart(i, sound) ==
  /\ BlockBytes - i >= 2 * FrameBytes
  /\ \A j \in {0, SampleBytes, FrameBytes, FrameBytes + SampleBytes} :
       Marked(i + j, sound)

\* getChannelIndex: -1 when there is no start
ChannelIndex(sound) ==
  LET starts == {i \in 0 .. BlockBytes - 2 * FrameBytes - 1 : CheckStart(i, sound)}
  IN  IF starts = {} THEN None ELSE Min(starts)

\* Mutant: the byte behind the copied channel is looked at.
SecondLater(start, k) == start + k * FrameBytes + 2 * SampleBytes

\* The frames whose second channel lacks its mark, and those whose second
\* channel lies behind the block, where the byte may be anything.
Second(start, k) == start + k * FrameBytes + SampleBytes
Unmarked(start, sound) ==
  {k \in 0 .. BlockFrames - 1 : /\ Second(start, k) < BlockBytes
                                /\ ~Marked(Second(start, k), sound)}
Behind(start) == {k \in 0 .. BlockFrames - 1 : Second(start, k) >= BlockBytes}

-----------------------------------------------------------------------------
Init ==
  /\ skew \in Skews
  /\ isFirst = TRUE /\ statistics = 0 /\ from = None
  /\ alarm = FALSE /\ clean = TRUE

\* record() begins again, in the middle of a frame perhaps.
NewSession ==
  /\ skew' \in Skews
  /\ isFirst' = TRUE /\ from' = None /\ alarm' = FALSE /\ clean' = TRUE
  /\ UNCHANGED statistics

\* Mutant: the counter is not set back.
TakeNoReset(start, sound) ==
  /\ from' = start
  /\ \E n \in 0 .. Cardinality(Behind(start)) :
       LET total == statistics + Cardinality(Unmarked(start, sound)) + n
       IN  /\ statistics' = total
           /\ alarm' = (alarm \/ total >= AlarmAt)

\* Mutant: what earlier blocks have added to the counter is forgotten.
TakeForgets(start, sound) ==
  /\ from' = start
  /\ \E n \in 0 .. Cardinality(Behind(start)) :
       LET total == Cardinality(Unmarked(start, sound)) + n
       IN  /\ statistics' = total % AlarmAt
           /\ alarm' = (alarm \/ total >= AlarmAt)

\* The frames of the block are counted and copied.
Take(start, sound) ==
  /\ from' = start
  /\ \E n \in 0 .. Cardinality(Behind(start)) :
       LET total == statistics + Cardinality(Unmarked(start, sound)) + n
       IN  /\ statistics' = total % AlarmAt
           /\ alarm' = (alarm \/ total >= AlarmAt)

\* A first block without a start is discarded, and the next is first again.
Discard(start) ==
  /\ isFirst /\ start = None
  /\ UNCHANGED <<isFirst, statistics, from, alarm>>

FirstBlock(start, sound) ==
  /\ isFirst /\ start # None
  /\ Take(start, sound)
  /\ isFirst' = FALSE

\* Later blocks are taken from their beginning.
NextBlock(sound) ==
  /\ ~isFirst
  /\ Take(0, sound)
  /\ UNCHANGED isFirst

ReSamples ==
  /\ UNCHANGED skew
  /\ \E sound \in Sounds :
       /\ clean' = (clean /\ Marks \subseteq sound)
       /\ LET start == ChannelIndex(sound)
          IN  Discard(start) \/ FirstBlock(start, sound) \/ NextBlock(sound)

Next == NewSession \/ ReSamples

Spec == Init /\ [][Next]_vars /\ WF_vars(ReSamples)

-----------------------------------------------------------------------------
(* Properties.                                                             *)

TypeOK ==
  /\ skew \in Skews
  /\ isFirst \in BOOLEAN /\ alarm \in BOOLEAN /\ clean \in BOOLEAN
  /\ statistics \in 0 .. AlarmAt - 1
  /\ from \in {None} \union (0 .. BlockBytes - 1)

\* Sound is mistaken for a mark only if it has the bit set in two samples of
\* neighbouring channels (Recorder.cpp:188-193); else getChannelIndex finds
\* the first byte of a frame, wherever the block begins.
FoundIsStart ==
  \A sound \in Sounds :
    /\ Marks \subseteq sound
    /\ \A o \in sound \ {0} : (o + SampleBytes) % FrameBytes \notin sound
    => (skew + ChannelIndex(sound)) % FrameBytes = 0

\* A session that begins on a frame's first byte and whose blocks all carry
\* the marks is taken from there, and raises no alarm whatever the counter
\* was left at by earlier sessions (Recorder.cpp:217, :265-273).
NoFalseAlarm == skew = 0 /\ clean => from \in {None, 0} /\ ~alarm

\* The start found in the first block is not applied to later ones, so a
\* session that begins inside a frame is taken from the wrong bytes; unless
\* those have the bit set too, the counter raises the alarm in the end
\* (Recorder.cpp:265-273).
SlipNoticed ==
  /\ ~isFirst
  /\ (skew + SampleBytes) % FrameBytes \notin UNION Sounds
  ~> alarm \/ isFirst

=============================================================================

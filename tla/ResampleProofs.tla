---------------------------- MODULE ResampleProofs ----------------------------
(***************************************************************************)
(* What TLAPS proves about ReSamples: where a frame is found, and that a   *)
(* session in step with the frames of a device that is set up raises no    *)
(* alarm, for blocks of any length, any sound and any number of sessions.  *)
(***************************************************************************)
EXTENDS Resample, FiniteSetTheorems, WellFoundedInduction, TLAPS

-----------------------------------------------------------------------------
(* The first of a set of indices.                                          *)

LEMMA MinOfNaturals ==
  ASSUME NEW S \in SUBSET Nat, S # {}
  PROVE  Min(S) \in S /\ \A k \in S : Min(S) <= k
  <1>1. PICK m \in S : \A k \in S : ~(<<k, m>> \in OpToRel(<, Nat))
    BY NatLessThanWellFounded, WFMin
  <1>2. \A k \in S : m <= k
    <2> TAKE k \in S
    <2>1. k \in Nat /\ m \in Nat
      OBVIOUS
    <2>2. ~(k < m)
      BY <1>1, <2>1 DEF OpToRel
    <2> QED
      BY <2>1, <2>2
  <1> QED
    BY <1>2 DEF Min

-----------------------------------------------------------------------------
(* Where a frame is found.                                                 *)

Starts(sound) == {i \in 0 .. BlockBytes - 2 * FrameBytes - 1 : CheckStart(i, sound)}

LEMMA Sizes ==
  /\ BlockBytes \in Nat /\ BlockBytes = 24 * BlockFrames /\ BlockBytes >= 96
  /\ FrameBytes = 24 /\ SampleBytes = 4 /\ Marks = {0, 4}
  BY ResampleAssumption DEF BlockBytes, FrameBytes, SampleBytes, Marks

\* The index is that of a byte of the block that passes the test, and none
\* before it does.
LEMMA ChannelIndexFound ==
  ASSUME NEW sound \in Sounds
  PROVE  /\ Starts(sound) = {} => ChannelIndex(sound) = None
         /\ Starts(sound) # {} =>
              /\ ChannelIndex(sound) \in Starts(sound)
              /\ \A k \in Starts(sound) : ChannelIndex(sound) <= k
  <1>1. Starts(sound) \in SUBSET Nat
    BY Sizes DEF Starts
  <1>2. ChannelIndex(sound) = IF Starts(sound) = {} THEN None ELSE Min(Starts(sound))
    BY DEF ChannelIndex, Starts
  <1> QED
    BY <1>1, <1>2, MinOfNaturals

LEMMA ChannelIndexType ==
  ASSUME NEW sound \in Sounds
  PROVE  ChannelIndex(sound) \in {None} \union (0 .. BlockBytes - 1)
  <1>1. Starts(sound) \subseteq 0 .. BlockBytes - 1
    BY Sizes DEF Starts
  <1> QED
    BY <1>1, ChannelIndexFound

\* A byte passes the test exactly if it and the next sample's first byte are
\* marked, where the two frames that follow it are in the block.
LEMMA StartsAre ==
  ASSUME NEW sound \in Sounds, skew \in 0 .. 23, NEW i \in Nat
  PROVE  i \in Starts(sound) <=> /\ i + 48 < BlockBytes
                                 /\ (i + skew) % 24 \in sound
                                 /\ (i + 4 + skew) % 24 \in sound
  <1>1. i \in 0 .. BlockBytes - 2 * FrameBytes - 1 <=> i + 48 < BlockBytes
    BY Sizes
  <1>2. (i + 24 + skew) % 24 = (i + skew) % 24 /\ (i + 28 + skew) % 24 = (i + 4 + skew) % 24
    OBVIOUS
  <1>3. CheckStart(i, sound) <=> /\ BlockBytes - i >= 48
                                 /\ (i + 0 + skew) % 24 \in sound
                                 /\ (i + 4 + skew) % 24 \in sound
                                 /\ (i + 24 + skew) % 24 \in sound
                                 /\ (i + 28 + skew) % 24 \in sound
    BY Sizes DEF CheckStart, Marked
  <1>4. i + 48 < BlockBytes => BlockBytes - i >= 48
    BY Sizes
  <1>5. i + 0 = i
    OBVIOUS
  <1> QED
    BY <1>1, <1>2, <1>3, <1>4, <1>5, Zenon DEF Starts

LEMMA FrameStartFound ==
  ASSUME skew \in 0 .. 23, NEW sound \in Sounds, Marks \subseteq sound,
         \A o \in sound \ {0} : (o + SampleBytes) % FrameBytes \notin sound
  PROVE  (skew + ChannelIndex(sound)) % FrameBytes = 0
  <1> DEFINE first == IF skew = 0 THEN 0 ELSE 24 - skew
             index == ChannelIndex(sound)
  <1>1. /\ first \in Nat /\ first + 48 < BlockBytes
        /\ (first + skew) % 24 = 0 /\ (first + 4 + skew) % 24 = 4
    BY Sizes
  <1>2. first \in Starts(sound)
    <2>1. 0 \in sound /\ 4 \in sound
      BY Sizes
    <2> HIDE DEF first
    <2> QED
      BY <1>1, <2>1, StartsAre
  <1>3. index \in Starts(sound) /\ index \in Nat
    BY <1>2, ChannelIndexFound, Sizes DEF Starts
  <1> HIDE DEF first, index
  <1>4. (index + skew) % 24 \in sound /\ (index + 4 + skew) % 24 \in sound
    BY <1>3, StartsAre
  <1>5. (((index + skew) % 24) + 4) % 24 = (index + 4 + skew) % 24
    BY <1>3
  <1>6. (index + skew) % 24 = 0
    BY <1>4, <1>5, Sizes
  <1>7. index + skew = skew + index
    BY <1>3
  <1> QED
    BY <1>6, <1>7, Sizes DEF index

-----------------------------------------------------------------------------
(* The counter.                                                            *)

LEMMA Finite ==
  ASSUME NEW start, NEW sound
  PROVE  Cardinality(Unmarked(start, sound)) \in Nat /\ Cardinality(Behind(start)) \in Nat
  <1>1. IsFiniteSet(0 .. BlockFrames - 1)
    BY FS_Interval, ResampleAssumption
  <1>2. Unmarked(start, sound) \subseteq 0 .. BlockFrames - 1
    BY DEF Unmarked
  <1>3. Behind(start) \subseteq 0 .. BlockFrames - 1
    BY DEF Behind
  <1> QED
    BY <1>1, <1>2, <1>3, FS_Subset, FS_CardinalityType

LEMMA TakeType ==
  ASSUME TypeOK, NEW sound \in Sounds,
         NEW start \in 0 .. BlockBytes - 1, Take(start, sound)
  PROVE  /\ from' = start /\ statistics' \in 0 .. AlarmAt - 1 /\ alarm' \in BOOLEAN
  <1>1. PICK n \in 0 .. Cardinality(Behind(start)) :
          LET total == statistics + Cardinality(Unmarked(start, sound)) + n
          IN  /\ statistics' = total % AlarmAt
              /\ alarm' = (alarm \/ total >= AlarmAt)
    BY DEF Take
  <1> DEFINE total == statistics + Cardinality(Unmarked(start, sound)) + n
  <1>2. total \in Nat
    BY Finite DEF TypeOK
  <1>3. statistics' = total % AlarmAt /\ alarm' = (alarm \/ total >= AlarmAt)
    BY <1>1
  <1> HIDE DEF total
  <1>4. total % AlarmAt \in 0 .. AlarmAt - 1
    BY <1>2, ResampleAssumption
  <1> QED
    BY <1>3, <1>4, Zenon DEF Take

\* A block that is in step and carries the marks adds nothing to the counter.
LEMMA TakeInStep ==
  ASSUME TypeOK, skew = 0, NEW sound \in Sounds, Marks \subseteq sound, Take(0, sound)
  PROVE  alarm' = alarm
  <1>1. \A k \in 0 .. BlockFrames - 1 : /\ Second(0, k) < BlockBytes
                                        /\ Marked(Second(0, k), sound)
    <2> TAKE k \in 0 .. BlockFrames - 1
    <2>1. k \in Nat /\ k < BlockFrames
      BY ResampleAssumption
    <2>2. Second(0, k) = k * 24 + 4
      BY <2>1, Sizes DEF Second
    <2>3. k * 24 + 4 < BlockBytes
      BY <2>1, Sizes, ResampleAssumption
    <2>4. (k * 24 + 4 + skew) % 24 = 4
      BY <2>1
    <2> QED
      BY <2>2, <2>3, <2>4, Sizes DEF Marked
  <1>2. Unmarked(0, sound) = {} /\ Behind(0) = {}
    <2>1. \A k \in 0 .. BlockFrames - 1 : ~(Second(0, k) >= BlockBytes)
      <3> TAKE k \in 0 .. BlockFrames - 1
      <3>1. k \in Nat
        BY ResampleAssumption
      <3>2. Second(0, k) \in Nat
        BY <3>1, Sizes DEF Second
      <3> QED
        BY <1>1, <3>2, Sizes
    <2> QED
      BY <1>1, <2>1, Zenon DEF Unmarked, Behind
  <1>3. Cardinality(Unmarked(0, sound)) = 0 /\ Cardinality(Behind(0)) = 0
    BY <1>2, FS_EmptySet
  <1>4. PICK n \in 0 .. Cardinality(Behind(0)) :
          LET total == statistics + Cardinality(Unmarked(0, sound)) + n
          IN  /\ statistics' = total % AlarmAt
              /\ alarm' = (alarm \/ total >= AlarmAt)
    BY DEF Take
  <1>5. n = 0
    BY <1>3
  <1>6. ~(statistics + 0 + 0 >= AlarmAt)
    BY ResampleAssumption DEF TypeOK
  <1>7. alarm' = (alarm \/ statistics + 0 + 0 >= AlarmAt)
    BY <1>3, <1>4, <1>5, Zenon
  <1> QED
    BY <1>6, <1>7, Zenon DEF TypeOK
-----------------------------------------------------------------------------
(* The session's blocks.                                                   *)

ResampleInv == TypeOK /\ NoFalseAlarm

LEMMA SkewRange ==
  ASSUME TypeOK
  PROVE  skew \in 0 .. 23
  BY ResampleAssumption, Sizes DEF TypeOK

\* In step with a frame the session is taken from there.
LEMMA InStepFound ==
  ASSUME skew = 0, NEW sound \in Sounds, Marks \subseteq sound
  PROVE  ChannelIndex(sound) = 0
  <1>1. 0 \in sound /\ 4 \in sound
    BY Sizes
  <1>2. 0 + 48 < BlockBytes /\ (0 + skew) % 24 = 0 /\ (0 + 4 + skew) % 24 = 4
    BY Sizes
  <1>3. 0 \in Starts(sound)
    BY <1>1, <1>2, StartsAre
  <1>4. /\ ChannelIndex(sound) \in Starts(sound)
        /\ ChannelIndex(sound) <= 0
    BY <1>3, ChannelIndexFound
  <1>5. ChannelIndex(sound) \in Nat
    BY <1>4, Sizes DEF Starts
  <1> QED
    BY <1>4, <1>5

LEMMA ResampleInvInit == Init => ResampleInv
  <1> SUFFICES ASSUME Init PROVE ResampleInv
    OBVIOUS
  <1>1. 0 \in 0 .. AlarmAt - 1
    BY ResampleAssumption
  <1> QED
    BY <1>1 DEF Init, ResampleInv, TypeOK, NoFalseAlarm

LEMMA NewSessionKeeps ==
  ASSUME ResampleInv, NewSession
  PROVE  ResampleInv'
  BY DEF ResampleInv, TypeOK, NoFalseAlarm, NewSession

LEMMA ReSamplesKeeps ==
  ASSUME ResampleInv, ReSamples
  PROVE  ResampleInv'
  <1>1. PICK sound \in Sounds :
          /\ clean' = (clean /\ Marks \subseteq sound)
          /\ \/ Discard(ChannelIndex(sound))
             \/ FirstBlock(ChannelIndex(sound), sound)
             \/ NextBlock(sound)
    BY DEF ReSamples
  <1>2. TypeOK /\ NoFalseAlarm /\ skew' = skew
    BY DEF ResampleInv, ReSamples
  <1>3. clean' \in BOOLEAN /\ skew' \in Skews /\ None \in {None} \union (0 .. BlockBytes - 1)
    BY <1>1, <1>2 DEF TypeOK
  <1>4. CASE Discard(ChannelIndex(sound))
    <2>1. TypeOK'
      BY <1>2, <1>3, <1>4 DEF Discard, TypeOK
    <2>2. NoFalseAlarm'
      BY <1>1, <1>2, <1>4 DEF Discard, NoFalseAlarm
    <2> QED
      BY <2>1, <2>2 DEF ResampleInv
  <1>5. ASSUME NEW start \in 0 .. BlockBytes - 1, Take(start, sound), isFirst' \in BOOLEAN,
               skew = 0 /\ Marks \subseteq sound => start = 0
        PROVE  ResampleInv'
    <2>1. from' = start /\ statistics' \in 0 .. AlarmAt - 1 /\ alarm' \in BOOLEAN
      BY <1>2, <1>5, TakeType
    <2>2. TypeOK'
      BY <1>3, <1>5, <2>1 DEF TypeOK
    <2>3. NoFalseAlarm'
      <3> SUFFICES ASSUME skew' = 0, clean' PROVE from' \in {None, 0} /\ ~alarm'
        BY DEF NoFalseAlarm
      <3>1. skew = 0 /\ clean /\ Marks \subseteq sound
        BY <1>1, <1>2
      <3>2. start = 0 /\ Take(0, sound)
        BY <1>5, <3>1
      <3>3. alarm' = alarm /\ ~alarm
        BY <1>2, <3>1, <3>2, TakeInStep DEF NoFalseAlarm
      <3> QED
        BY <2>1, <3>2, <3>3
    <2> QED
      BY <2>2, <2>3 DEF ResampleInv
  <1>6. CASE FirstBlock(ChannelIndex(sound), sound)
    <2>1. ChannelIndex(sound) \in 0 .. BlockBytes - 1
      BY <1>6, ChannelIndexType DEF FirstBlock
    <2>2. skew = 0 /\ Marks \subseteq sound => ChannelIndex(sound) = 0
      BY InStepFound
    <2> QED
      BY <1>5, <1>6, <2>1, <2>2 DEF FirstBlock
  <1>7. CASE NextBlock(sound)
    <2>1. 0 \in 0 .. BlockBytes - 1
      BY Sizes
    <2>2. Take(0, sound) /\ isFirst' \in BOOLEAN
      BY <1>2, <1>7 DEF NextBlock, TypeOK
    <2> QED
      BY <1>5, <2>1, <2>2
  <1> QED
    BY <1>1, <1>4, <1>6, <1>7

LEMMA ResampleInvNext == ResampleInv /\ [Next]_vars => ResampleInv'
  <1> SUFFICES ASSUME ResampleInv, [Next]_vars PROVE ResampleInv'
    OBVIOUS
  <1>1. CASE UNCHANGED vars
    BY <1>1 DEF vars, ResampleInv, TypeOK, NoFalseAlarm
  <1> QED
    BY <1>1, NewSessionKeeps, ReSamplesKeeps DEF Next

\* The counter stays below the number that raises the alarm, and frames are
\* taken from a byte of the block (Recorder.cpp:195-275).
THEOREM ResampleTypeCorrect == Spec => []TypeOK
  BY ResampleInvInit, ResampleInvNext, PTL DEF Spec, ResampleInv

\* A session in step with the frames of a device that is set up is taken from
\* their beginning and raises no alarm, after any earlier sessions and for any
\* sound (Recorder.cpp:217, :265-273).
THEOREM NoAlarmInStep == Spec => []NoFalseAlarm
  BY ResampleInvInit, ResampleInvNext, PTL DEF Spec, ResampleInv

\* Wherever the block begins inside a frame, getChannelIndex finds the first
\* byte of a frame, for blocks of four frames or more and any sound that has
\* not the bit in two neighbouring samples (Recorder.cpp:195-213).
THEOREM FrameIsFound == Spec => []FoundIsStart
  <1>1. TypeOK => FoundIsStart
    BY SkewRange, FrameStartFound DEF FoundIsStart
  <1> QED
    BY <1>1, ResampleTypeCorrect, PTL
=============================================================================

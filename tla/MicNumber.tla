------------------------------ MODULE MicNumber ------------------------------
(***************************************************************************)
(* AddPcmMicNumber of alsa_recorder.cpp: to every sample of interleaved    *)
(* channels it adds the number of its channel.  Whole rounds over the      *)
(* channels are made, so that the last one may pass the end.  There is at  *)
(* least one channel: with none the outer loop would never end.            *)
(***************************************************************************)
EXTENDS Naturals, Sequences

CONSTANT MaxSamples  \* bound: the samples of a buffer, and the channels

ASSUME MicAssumption == MaxSamples \in Nat

VARIABLES
  samples,   \* dataNum
  channels,  \* channel_count
  turn,      \* i
  tagged     \* the channel numbers in the output so far; dataIndex is its length

micVars == <<samples, channels, turn, tagged>>

MicInit == samples = 0 /\ channels = 1 /\ turn = 0 /\ tagged = <<>>

\* Mutant: a round is begun while samples are left over at its end, too.
NextRoundLate == Len(tagged) <= samples

\* The condition of the outer loop.
NextRound == Len(tagged) < samples

\* One turn of the inner loop; the outer one is tested before the first.
AddMicNumber ==
  /\ turn = 0 => NextRound
  /\ tagged' = Append(tagged, turn + 1)
  /\ turn' = (turn + 1) % channels
  /\ UNCHANGED <<samples, channels>>

\* The function returns and is called for another buffer.
NextBuffer ==
  /\ turn = 0 /\ ~NextRound
  /\ samples' \in 0 .. MaxSamples /\ channels' \in 1 .. MaxSamples
  /\ turn' = 0 /\ tagged' = <<>>

MicNext == AddMicNumber \/ NextBuffer

MicSpec == MicInit /\ [][MicNext]_micVars

-----------------------------------------------------------------------------
(* Properties.                                                             *)

\* Sample k gets the number of channel k modulo their number, and no sample
\* behind the buffer is touched unless the buffer ends inside a round, and then
\* fewer than there are channels (alsa_recorder.cpp:216-226).
MicNumbersRight ==
  /\ \A k \in 1 .. Len(tagged) : tagged[k] = ((k - 1) % channels) + 1
  /\ samples % channels = 0 => Len(tagged) <= samples
  /\ Len(tagged) < samples + channels

=============================================================================

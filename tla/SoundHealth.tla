----------------------------- MODULE SoundHealth -----------------------------
(***************************************************************************)
(* RecordCallback::Process in com_iflytek_iflyos_AlsaCAE.cpp: each buffer  *)
(* of audio that the engine delivers is judged, and counters decide when   *)
(* the application is told that the microphones seem dead                  *)
(* (CAEAudioTinyException) or weak (CAEAudioException).                    *)
(*                                                                         *)
(* A buffer is judged silent (every sample is zero), quiet (more than 70   *)
(* dB below full scale) or loud.  The judgement is arbitrary here: the     *)
(* length in bytes is taken for one in samples, so that what lies behind   *)
(* the buffer is judged with it.                                           *)
(***************************************************************************)
EXTENDS Naturals

CONSTANT Patience  \* the bad buffers a counter admits before it tells (1024)

ASSUME HealthAssumption == Patience \in Nat

VARIABLES
  silent,  \* statistics_exception
  quiet,   \* statistics, the member of RecordCallback
  told,    \* what the application was told about the last buffer
  heard,   \* what buffers were judged to be since init
  ever     \* what the application was told since init

healthVars == <<silent, quiet, told, heard, ever>>

Levels == {"silent", "quiet", "loud"}
Alarms == {"tiny", "exception"}

HealthInit ==
  /\ silent = 0 /\ quiet = 0
  /\ told = {} /\ heard = {} /\ ever = {}

\* init makes a new callback, whose counters are zero.
NewCallback ==
  /\ silent' = 0 /\ quiet' = 0
  /\ told' = {} /\ heard' = {} /\ ever' = {}

\* Mutant: the counter tells one buffer late.
CountLate(n, counted) == IF ~counted THEN n ELSE IF n <= Patience THEN n + 1 ELSE 0

\* Mutant: only bad buffers in a row tell.
CountInRow(n, counted) == IF counted /\ n < Patience THEN n + 1 ELSE 0

\* A counter that would exceed Patience is set back; a buffer that does not
\* count leaves it alone.
Count(n, counted) == IF ~counted THEN n ELSE IF n < Patience THEN n + 1 ELSE 0

\* Mutant: every silent buffer counts as quiet.
WeakAtOnce(level) == level # "loud"

\* The silent buffer that tells is looked at further, and the logarithm of
\* zero makes it count as quiet; the others are not.
Weak(level) == level = "quiet" \/ (level = "silent" /\ silent = Patience)

Tells(level) ==
  {a \in Alarms : \/ a = "tiny" /\ level = "silent" /\ silent = Patience
                  \/ a = "exception" /\ Weak(level) /\ quiet = Patience}

Process(level) ==
  /\ silent' = Count(silent, level = "silent")
  /\ quiet' = Count(quiet, Weak(level))
  /\ told' = Tells(level)
  /\ heard' = heard \union {level}
  /\ ever' = ever \union Tells(level)

HealthNext == NewCallback \/ \E level \in Levels : Process(level)

HealthSpec == HealthInit /\ [][HealthNext]_healthVars

-----------------------------------------------------------------------------
(* Properties.                                                             *)

\* The counters stay below the bound at which they are set back.
HealthTypeOK ==
  /\ silent \in 0 .. Patience /\ quiet \in 0 .. Patience
  /\ heard \subseteq Levels
  /\ told \subseteq ever /\ ever \subseteq Alarms

\* The application, which restarts the device when it hears an exception
\* (MainActivity.java:81-106), hears none while every buffer is loud; and
\* silence alone counts as weak only once it has been told as silence
\* (com_iflytek_iflyos_AlsaCAE.cpp:87-110).
AlarmsFounded ==
  /\ "tiny" \in ever => "silent" \in heard
  /\ heard \subseteq {"loud"} => ever = {}
  /\ heard \subseteq {"silent", "loud"} /\ quiet > 0 => "tiny" \in ever

\* Bad buffers tell in the end even when good ones come between them, as
\* long as the callback lives (com_iflytek_iflyos_AlsaCAE.cpp:88-94, :102-109).
BadSoundTold ==
  \/ []<><<NewCallback>>_healthVars
  \/ /\ []<><<Process("silent")>>_healthVars => []<>("tiny" \in told)
     /\ []<><<Process("quiet")>>_healthVars => []<>("exception" \in told)

=============================================================================

--------------------------- MODULE SessionRequests ---------------------------
(***************************************************************************)
(* RecordSession with two history variables: what the application asked    *)
(* for last, a session or none, and what its last call was answered, which *)
(* changes no state of the program.                                        *)
(***************************************************************************)
EXTENDS RecordSession

VARIABLES
  wanted,  \* TRUE after a startRecord that was accepted, FALSE after stopRecord
           \* and destroy
  answer   \* the error the last startRecord or stopRecord reported at once

requestVars == <<vars, wanted, answer>>

\* An answer, CAE_ERROR_UNINIT, CAE_ERROR_RECORDING or CAE_ERROR_NOT_RECORDING,
\* is made only when there is a callback, and then there is a listener.
Answered(error) == answer' = IF callback THEN error ELSE "none"

RequestInit == Init /\ wanted = FALSE /\ answer = "none"

Ask == StartAccepted /\ wanted' = TRUE /\ answer' = "none"

AskInVain ==
  /\ UiAt("idle") /\ ("start" \in Waits => AtRest)
  /\ \/ ~isInit /\ Answered("uninit")
     \/ isInit /\ isRecording /\ Answered("recording")
  /\ UNCHANGED <<vars, wanted>>

Unask ==
  /\ \/ StopRecord /\ isRecording /\ answer' = "none"
     \/ StopRecord /\ ~isRecording /\ Answered("notRecording")
     \/ DestroyFlags /\ answer' = "none"
  /\ wanted' = FALSE

Other ==
  /\ \/ StartCreate \/ SetClearBuffer
     \/ InitCallback \/ InitCae \/ InitListener
     \/ DestroyCallback \/ DestroyCae \/ DestroyListener
     \/ \E r \in RecordThreads : Record(r) \/ InAlsa(r)
     \/ \E c \in Captures : CaptureStep(c)
  /\ UNCHANGED <<wanted, answer>>

RequestNext == Ask \/ AskInVain \/ Unask \/ Other

RequestSpec ==
  /\ RequestInit /\ [][RequestNext]_requestVars
  /\ RecordFairness /\ CaptureFairness /\ UiFairness

\* "Stop recording" (AlsaCAE.java:52): after stopRecord recording stops, or the
\* application asks for it again.
StopObeyed ==
  ~wanted ~> \/ wanted \/ crashed
             \/ \A r \in RecordThreads : ~Running(r)

=============================================================================

----------------------------- MODULE SessionLife -----------------------------
(***************************************************************************)
(* What recording sessions promise the listener: each reports how its      *)
(* start went, then, if it did start, that it failed (which a session that *)
(* is alone always reports) and that it was stopped (unless recording is   *)
(* asked for again by then), in this order, each at most once and only to  *)
(* a listener there is.  RecordSession is shown to implement this.         *)
(***************************************************************************)
CONSTANT Sessions

VARIABLES
  phase,      \* how far each session has come
  told,       \* what each session has reported
  listening,  \* whether there is a listener
  asked       \* whether recording is asked for

lifeVars == <<phase, told, listening, asked>>

Phases == {"none", "created", "starting", "recording", "ending", "over"}

LifeInit ==
  /\ phase = [s \in Sessions |-> "none"]
  /\ told = [s \in Sessions |-> {}]
  /\ listening = FALSE /\ asked = FALSE

Enter(s, from, to) ==
  /\ phase[s] = from
  /\ phase' = [phase EXCEPT ![s] = to]
  /\ UNCHANGED listening

Pass(s, from, to) == Enter(s, from, to) /\ UNCHANGED <<told, asked>>

\* Only the first step of a session asks for recording.
Begin(s) == Enter(s, "created", "starting") /\ asked' = TRUE /\ UNCHANGED told

Say(s, what, from, to) ==
  /\ Enter(s, from, to)
  /\ told' = IF listening THEN [told EXCEPT ![s] = @ \union {what}] ELSE told
  /\ UNCHANGED asked

\* Whether a session other than s has begun.
OtherBegan(s) == \E q \in Sessions \ {s} : phase[q] \notin {"none", "created"}

\* A session ends without reporting a failure only if another one has begun, and
\* without reporting a stop only while recording is asked for: it failed, or a
\* session that began after the stop has asked again.
Session(s) ==
  \/ Pass(s, "none", "created")
  \/ Begin(s)
  \/ Say(s, "started", "starting", "recording")
  \/ \E why \in {"openFailed", "startFailed"} : Say(s, why, "starting", "over")
  \/ Say(s, "error", "recording", "ending")
  \/ Pass(s, "recording", "ending") /\ OtherBegan(s)
  \/ Say(s, "stopped", "ending", "over")
  \/ Pass(s, "ending", "over") /\ asked

\* The application stops, or a session that has failed or ended no longer asks.
Unask == asked' = FALSE /\ UNCHANGED <<phase, told, listening>>

Listen == listening' \in BOOLEAN /\ UNCHANGED <<phase, told, asked>>

LifeNext == Unask \/ Listen \/ \E s \in Sessions : Session(s)

LifeSpec == LifeInit /\ [][LifeNext]_lifeVars

=============================================================================

------------------------------ MODULE CpuBurner ------------------------------
(***************************************************************************)
(* android_cpu.c: threads that keep the processor busy, created and        *)
(* destroyed by a caller outside src/, one call at a time.  Joining a      *)
(* thread that was never created, or was joined before, returns at once.   *)
(***************************************************************************)
EXTENDS Naturals

CONSTANTS
  Burners,   \* bound: the threads that can be created
  NoBurner,
  TdNum      \* TD_NUM (3)

ASSUME CpuAssumption == NoBurner \notin Burners /\ TdNum \in Nat \ {0}

VARIABLES
  running,   \* the flag dummy_worker looks at
  tds,       \* the threads created last
  burner,    \* what each thread does
  caller,    \* the call in progress and its counter i
  lost       \* the threads whose handle in tds was overwritten

cpuVars == <<running, tds, burner, caller, lost>>

Idle == [call |-> "none", i |-> 0]

CpuInit ==
  /\ running = TRUE
  /\ tds = [i \in 0 .. TdNum - 1 |-> NoBurner]
  /\ burner = [b \in Burners |-> "unborn"]
  /\ caller = Idle
  /\ lost = {}

In(call) == caller.call = call
\* One of the threads that can still be created: they are alike.
Fresh == LET unborn == {b \in Burners : burner[b] = "unborn"}
         IN  IF unborn = {} THEN {} ELSE {CHOOSE b \in unborn : TRUE}

Burning == {b \in Burners : burner[b] = "burns"}

CreateBegin ==
  /\ In("none")
  /\ caller' = [call |-> "create", i |-> 0]
  /\ UNCHANGED <<running, tds, burner, lost>>

\* Threads that were created before a failure stay.
CreateOne ==
  /\ In("create") /\ caller.i < TdNum
  /\ \/ \E b \in Fresh :
          /\ burner' = [burner EXCEPT ![b] = "burns"]
          /\ tds' = [tds EXCEPT ![caller.i] = b]
          /\ lost' = lost \union ({tds[caller.i]} \ {NoBurner})
          /\ caller' = [caller EXCEPT !.i = @ + 1]
     \/ caller' = Idle /\ UNCHANGED <<tds, burner, lost>>
  /\ UNCHANGED running

\* Only now is the flag set: threads that have already looked at it end when it
\* was cleared by an earlier destroy.
CreateEnd ==
  /\ In("create") /\ caller.i = TdNum
  /\ running' = TRUE
  /\ caller' = Idle
  /\ UNCHANGED <<tds, burner, lost>>

\* Mutant: the threads are joined before the flag is cleared.
DestroyBeginJoins ==
  /\ In("none") /\ running
  /\ caller' = [call |-> "destroy", i |-> 0]
  /\ UNCHANGED <<running, tds, burner, lost>>

\* Without the flag nothing is done.
DestroyBegin ==
  /\ In("none") /\ running
  /\ running' = FALSE
  /\ caller' = [call |-> "destroy", i |-> 0]
  /\ UNCHANGED <<tds, burner, lost>>

\* Mutant: the last thread is not joined.
DestroyJoinFewer ==
  /\ In("destroy")
  /\ caller' = IF caller.i + 1 >= TdNum - 1 THEN Idle ELSE [caller EXCEPT !.i = @ + 1]
  /\ tds[caller.i] \notin Burning
  /\ UNCHANGED <<running, tds, burner, lost>>

DestroyJoin ==
  /\ In("destroy")
  /\ tds[caller.i] \notin Burning
  /\ caller' = IF caller.i + 1 = TdNum THEN Idle ELSE [caller EXCEPT !.i = @ + 1]
  /\ UNCHANGED <<running, tds, burner, lost>>

\* dummy_worker: once more round its loop, or out of it.
BurnerLoops(b) == burner[b] = "burns" /\ running /\ UNCHANGED cpuVars

BurnerEnds(b) ==
  /\ burner[b] = "burns" /\ ~running
  /\ burner' = [burner EXCEPT ![b] = "ended"]
  /\ UNCHANGED <<running, tds, caller, lost>>

CpuProgress == DestroyJoin \/ \E b \in Burners : BurnerEnds(b)

CpuNext ==
  \/ CreateBegin \/ CreateOne \/ CreateEnd \/ DestroyBegin \/ CpuProgress
  \/ \E b \in Burners : BurnerLoops(b)

CpuSpec == CpuInit /\ [][CpuNext]_cpuVars

-----------------------------------------------------------------------------
(* Properties.                                                             *)

\* destroy waits for the threads (android_cpu.h:11): when it returns, only
\* threads whose handle a later create has overwritten can still be running,
\* whichever creates failed half-way (android_cpu.c:70-76, :93-96).
DestroyWaits ==
  [][In("destroy") /\ In("none")' => Burning' \subseteq lost']_cpuVars

\* destroy returns, whatever was created before it (android_cpu.c:85-97).
DestroyReturns == In("destroy") ~> In("none")

=============================================================================

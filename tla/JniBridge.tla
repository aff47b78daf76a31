------------------------------ MODULE JniBridge ------------------------------
(***************************************************************************)
(* How the callbacks of com_iflytek_iflyos_AlsaCAE.cpp reach the listener: *)
(* a thread must be attached to the Java VM while Java code runs on it,    *)
(* and one that the VM does not own must be detached before it ends.       *)
(*                                                                         *)
(* onStartRecord and onStopRecord use getEnv of jvm.cpp, which attaches    *)
(* only a thread that is not attached and tells so in a local flag; the    *)
(* other callbacks always attach and detach.  The listener is Java code    *)
(* and may call startRecord or stopRecord, which report on the same thread *)
(* when they refuse: callbacks nest.                                       *)
(***************************************************************************)
EXTENDS Naturals

CONSTANTS
  JavaThreads,    \* threads of the VM, among them the user interface's
  NativeThreads,  \* record threads
  MaxDepth        \* bound: how deep callbacks nest

ASSUME JniAssumption == JavaThreads \intersect NativeThreads = {} /\ MaxDepth \in Nat

VARIABLES
  attached,  \* the threads that are attached to the VM
  depth,     \* the callbacks each thread is in, whose listener methods run
  detaches   \* which of them, by depth, will detach the thread

jniVars == <<attached, depth, detaches>>

JniThreads == JavaThreads \union NativeThreads

JniInit ==
  /\ attached = JavaThreads
  /\ depth = [t \in JniThreads |-> 0]
  /\ detaches = [t \in JniThreads |-> {}]

\* A callback attaches its thread and calls the listener.
CallListener(t, detach) ==
  /\ depth[t] < MaxDepth
  /\ attached' = attached \union {t}
  /\ depth' = [depth EXCEPT ![t] = @ + 1]
  /\ detaches' = IF detach THEN [detaches EXCEPT ![t] = @ \union {depth[t] + 1}]
                           ELSE detaches

\* Mutant: the flag is set whether or not the thread was attached.
OtherThreadAlways(t) == TRUE

\* Mutant: the flag is never set.
OtherThreadNever(t) == FALSE

\* getEnv: the flag other_thread, false to begin with.
OtherThread(t) == t \notin attached

\* onStartRecord, onStopRecord: from record() on a native thread that is in no
\* callback, and from startRecord and stopRecord when Java code calls them.
Report(t) == CallListener(t, OtherThread(t))

\* CAEWakeup, CAEIvwAudio, CAEAudio and the two alarms: the engine and record()
\* call them on the record thread, outside any other callback.
EngineCallback(t) == t \in NativeThreads /\ depth[t] = 0 /\ CallListener(t, TRUE)

\* The listener returns, and so does the callback.
ListenerReturns(t) ==
  /\ depth[t] > 0
  /\ attached' = IF depth[t] \in detaches[t] THEN attached \ {t} ELSE attached
  /\ depth' = [depth EXCEPT ![t] = @ - 1]
  /\ detaches' = [detaches EXCEPT ![t] = @ \ {depth[t]}]

JniNext == \E t \in JniThreads : Report(t) \/ EngineCallback(t) \/ ListenerReturns(t)

JniSpec == JniInit /\ [][JniNext]_jniVars

-----------------------------------------------------------------------------
(* Properties.                                                             *)

\* No thread is detached under Java code that runs on it: neither the threads
\* of the VM nor a record thread whose listener method is running or is below
\* another callback, however deep they nest (jvm.cpp:18-32,
\* com_iflytek_iflyos_AlsaCAE.cpp:30-48).
JavaIsAttached ==
  JavaThreads \union {t \in NativeThreads : depth[t] > 0} \subseteq attached

\* A record thread that is in no callback, and so may end, is not attached: the
\* VM ends the process when an attached thread ends
\* (com_iflytek_iflyos_AlsaCAE.cpp:34, :44, :61, :76, :126, :136, :145).
EndsDetached == \A t \in NativeThreads : depth[t] = 0 => t \notin attached

=============================================================================

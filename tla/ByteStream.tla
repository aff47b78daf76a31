----------------------------- MODULE ByteStream -----------------------------
(***************************************************************************)
(* What the audio queue promises between the capture thread and one        *)
(* record thread: a byte stream of bounded delay, delivered in blocks, in  *)
(* order, without loss and without repetition.  A byte is represented by   *)
(* its position in the stream.                                             *)
(***************************************************************************)
EXTENDS Integers

CONSTANTS
  PutLen,    \* bytes put at a time
  BlockLen,  \* bytes in a delivered block
  Room       \* the most bytes ever in flight

VARIABLES
  sent,   \* bytes put so far
  got,    \* bytes delivered so far
  block   \* the last delivered block

vars == <<sent, got, block>>

Init == sent = 0 /\ got = 0 /\ block = [i \in 1 .. BlockLen |-> 0]

Put ==
  /\ sent + PutLen - got <= Room
  /\ sent' = sent + PutLen
  /\ UNCHANGED <<got, block>>

\* A block is delivered only when all its bytes have been put.
Take ==
  /\ got + BlockLen <= sent
  /\ got' = got + BlockLen
  /\ block' = [i \in 1 .. BlockLen |-> got + i]
  /\ UNCHANGED sent

Next == Put \/ Take

Spec == Init /\ [][Next]_vars

=============================================================================

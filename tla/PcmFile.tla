------------------------------- MODULE PcmFile -------------------------------
(***************************************************************************)
(* PcmFileUtil.java of the demo application, as its methods may be called: *)
(* write and closeWriteFile, which are synchronized, by any threads, and   *)
(* createPcmFile, which is not.  The demo itself asks less of it: it       *)
(* creates and closes its files on the thread of the user interface        *)
(* (MainActivity.java:168-177), and the calls of write in its callbacks    *)
(* are commented out (:48, :54).                                           *)
(***************************************************************************)
EXTENDS FiniteSets

CONSTANTS
  Streams,   \* bound: the streams that can be opened
  NoStream,
  Creators,  \* the threads that call createPcmFile
  Savers     \* the threads that call write and closeWriteFile

ASSUME FileAssumption ==
  NoStream \notin Streams \union Savers /\ Creators \intersect Savers = {}

VARIABLES
  mFos,     \* the stream in use
  monitor,  \* the saver that holds the monitor
  creator,  \* the next step of each creator
  saver,    \* the next step of each saver and the stream it has loaded
  made,     \* the streams that were opened
  done      \* the streams that were closed

fileVars == <<mFos, monitor, creator, saver, made, done>>

Resting == [pc |-> "rest", fos |-> NoStream]

FileInit ==
  /\ mFos = NoStream /\ monitor = NoStream
  /\ creator = [c \in Creators |-> "rest"]
  /\ saver = [s \in Savers |-> Resting]
  /\ made = {} /\ done = {}

\* Mutant: createPcmFile does not look at mFos.
CreateCheckNot(c) ==
  /\ creator[c] = "rest"
  /\ creator' = [creator EXCEPT ![c] = "open"]
  /\ UNCHANGED <<mFos, monitor, saver, made, done>>

CreateCheck(c) ==
  /\ creator[c] = "rest" /\ mFos = NoStream
  /\ creator' = [creator EXCEPT ![c] = "open"]
  /\ UNCHANGED <<mFos, monitor, saver, made, done>>

\* createNewFile says no when the name, made of the time in seconds, is taken;
\* it and the constructor of the stream may also throw.
CreateOpen(c) ==
  /\ creator[c] = "open"
  /\ creator' = [creator EXCEPT ![c] = "rest"]
  /\ \/ UNCHANGED <<mFos, made>>
     \/ \E f \in Streams \ made : mFos' = f /\ made' = made \union {f}
  /\ UNCHANGED <<monitor, saver, done>>

\* Mutant: the monitor is not waited for.
SaverEnterAnyway(s) ==
  /\ saver[s].pc = "rest"
  /\ monitor' = s
  /\ saver' = [saver EXCEPT ![s].pc = "check"]
  /\ UNCHANGED <<mFos, creator, made, done>>

SaverEnter(s) ==
  /\ saver[s].pc = "rest" /\ monitor = NoStream
  /\ monitor' = s
  /\ saver' = [saver EXCEPT ![s].pc = "check"]
  /\ UNCHANGED <<mFos, creator, made, done>>

\* Both functions test mFos and then load it again.
SaverCheck(s) ==
  /\ saver[s].pc = "check"
  /\ saver' = [saver EXCEPT ![s].pc = IF mFos = NoStream THEN "leave" ELSE "use"]
  /\ UNCHANGED <<mFos, monitor, creator, made, done>>

SaverUse(s) ==
  /\ saver[s].pc = "use"
  /\ \E pc \in {"write", "close"} : saver' = [saver EXCEPT ![s] = [pc |-> pc, fos |-> mFos]]
  /\ UNCHANGED <<mFos, monitor, creator, made, done>>

\* An exception is printed and otherwise ignored.
Write(s) ==
  /\ saver[s].pc = "write"
  /\ saver' = [saver EXCEPT ![s] = [pc |-> "leave", fos |-> NoStream]]
  /\ UNCHANGED <<mFos, monitor, creator, made, done>>

\* Mutant: after an exception mFos stays.
CloseWriteKeeps(s) ==
  /\ saver[s].pc = "close"
  /\ done' = done \union {saver[s].fos}
  /\ \E pc \in {"null", "leave"} : saver' = [saver EXCEPT ![s].pc = pc]
  /\ UNCHANGED <<mFos, monitor, creator, made>>

\* A stream counts as closed even if close throws; mFos is nulled either way.
CloseWrite(s) ==
  /\ saver[s].pc = "close"
  /\ done' = done \union {saver[s].fos}
  /\ saver' = [saver EXCEPT ![s].pc = "null"]
  /\ UNCHANGED <<mFos, monitor, creator, made>>

CloseNulls(s) ==
  /\ saver[s].pc = "null"
  /\ mFos' = NoStream
  /\ saver' = [saver EXCEPT ![s] = [pc |-> "leave", fos |-> NoStream]]
  /\ UNCHANGED <<monitor, creator, made, done>>

SaverLeave(s) ==
  /\ saver[s].pc = "leave"
  /\ monitor' = NoStream
  /\ saver' = [saver EXCEPT ![s] = Resting]
  /\ UNCHANGED <<mFos, creator, made, done>>

FileNext ==
  \/ \E c \in Creators : CreateCheck(c) \/ CreateOpen(c)
  \/ \E s \in Savers :
       \/ SaverEnter(s) \/ SaverCheck(s) \/ SaverUse(s) \/ Write(s)
       \/ CloseWrite(s) \/ CloseNulls(s) \/ SaverLeave(s)

FileSpec == FileInit /\ [][FileNext]_fileVars

-----------------------------------------------------------------------------
(* Properties.                                                             *)

\* No block of sound is written to null or to a stream that was closed: the
\* file whose creation another thread does without the monitor does not get
\* between the test and the use (PcmFileUtil.java:97-136).
WritesToOpenStream ==
  \A s \in Savers : saver[s].pc = "write" => saver[s].fos \in made \ done

\* No stream is forgotten while it is open, and none that was closed is kept,
\* if only one thread creates, whoever writes and closes: a stream that was opened
\* and not closed is mFos, although mFos is tested and set without the monitor
\* (PcmFileUtil.java:79-95, :123-135).
StreamsKept ==
  /\ made \ done \subseteq {mFos}
  /\ mFos \in done => \E s \in Savers : saver[s].pc = "null"

=============================================================================

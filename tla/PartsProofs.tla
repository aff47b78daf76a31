----------------------------- MODULE PartsProofs -----------------------------
(***************************************************************************)
(* What TLAPS proves about the parts that work alone: the judgement of the *)
(* sound, the card lookup, the threads of android_cpu.c, the demo's file,  *)
(* the microphone numbers and the JNI bridge.  Each is proved as a         *)
(* specification of its own; in MCParts every behaviour is one of them.    *)
(***************************************************************************)
EXTENDS SoundHealth, CardLookup, CpuBurner, PcmFile, MicNumber, JniBridge, TLAPS

-----------------------------------------------------------------------------
(* SoundHealth.                                                            *)

HealthInv == HealthTypeOK /\ AlarmsFounded

\* A counter that is below its bound stays there.
LEMMA CountRange ==
  ASSUME NEW n \in 0 .. Patience, NEW counted \in BOOLEAN
  PROVE  /\ Count(n, counted) \in 0 .. Patience
         /\ ~counted => Count(n, counted) = n
  BY HealthAssumption DEF Count

LEMMA HealthProcess ==
  ASSUME HealthInv, NEW level \in Levels, Process(level)
  PROVE  HealthInv'
  <1> USE HealthAssumption DEF HealthInv, HealthTypeOK
  <1>1. silent' \in 0 .. Patience /\ quiet' \in 0 .. Patience
    <2>1. (level = "silent") \in BOOLEAN /\ Weak(level) \in BOOLEAN
      BY DEF Weak
    <2> QED
      BY <2>1, CountRange DEF Process
  <1>2. Tells(level) \subseteq Alarms
    BY DEF Tells
  <1>3. HealthTypeOK'
    BY <1>1, <1>2 DEF Process
  <1>4. ("tiny" \in ever => "silent" \in heard)'
    BY DEF AlarmsFounded, Process, Tells
  <1>5. (heard \subseteq {"loud"} => ever = {})'
    <2> SUFFICES ASSUME heard' \subseteq {"loud"} PROVE ever' = {}
      OBVIOUS
    <2>1. level = "loud" /\ heard \subseteq {"loud"}
      BY DEF Process
    <2>2. Tells(level) = {}
      BY <2>1 DEF Tells, Weak
    <2> QED
      BY <2>1, <2>2 DEF Process, AlarmsFounded
  <1>6. (heard \subseteq {"silent", "loud"} /\ quiet > 0 => "tiny" \in ever)'
    <2> SUFFICES ASSUME heard' \subseteq {"silent", "loud"}, quiet' > 0
                 PROVE  "tiny" \in ever'
      OBVIOUS
    <2>1. level # "quiet" /\ heard \subseteq {"silent", "loud"}
      BY DEF Process
    <2>2. CASE level = "silent" /\ silent = Patience
      BY <2>2 DEF Process, Tells, Alarms
    <2>3. CASE ~(level = "silent" /\ silent = Patience)
      <3>1. ~Weak(level)
        BY <2>1, <2>3 DEF Weak
      <3>2. quiet' = quiet
        BY <3>1 DEF Process, Count
      <3> QED
        BY <2>1, <3>2 DEF AlarmsFounded, Process
    <2> QED
      BY <2>2, <2>3
  <1> QED
    BY <1>3, <1>4, <1>5, <1>6 DEF AlarmsFounded

LEMMA HealthInvNext == HealthInv /\ [HealthNext]_healthVars => HealthInv'
  <1> SUFFICES ASSUME HealthInv, [HealthNext]_healthVars PROVE HealthInv'
    OBVIOUS
  <1>1. CASE NewCallback
    BY <1>1, HealthAssumption DEF NewCallback, HealthInv, HealthTypeOK, AlarmsFounded
  <1>2. ASSUME NEW level \in Levels, Process(level) PROVE HealthInv'
    BY <1>2, HealthProcess
  <1>3. CASE UNCHANGED healthVars
    BY <1>3 DEF healthVars, HealthInv, HealthTypeOK, AlarmsFounded
  <1> QED
    BY <1>1, <1>2, <1>3 DEF HealthNext

LEMMA HealthInvInit == HealthInit => HealthInv
  BY HealthAssumption DEF HealthInit, HealthInv, HealthTypeOK, AlarmsFounded

\* For every patience the two counters stay below it.
THEOREM HealthTypeCorrect == HealthSpec => []HealthTypeOK
  BY HealthInvInit, HealthInvNext, PTL DEF HealthSpec, HealthInv

\* No alarm without its reason, whatever the patience, and silence counts as
\* weak only after it was told as silence.
THEOREM AlarmsHaveReasons == HealthSpec => []AlarmsFounded
  BY HealthInvInit, HealthInvNext, PTL DEF HealthSpec, HealthInv

-----------------------------------------------------------------------------
(* CardLookup.                                                             *)

\* A search has returned nothing yet; what has the wanted card now has been
\* seen; and the cards passed, if they stayed, are others.
SearchInv ==
  searching =>
    /\ number = NotFound
    /\ \A c \in Numbers : HasWanted(c) => c \in seen
    /\ \A d \in 0 .. i - 1 : d \in kept => cards[d] # NoCard /\ ~HasWanted(d)

LookupInv == LookupTypeOK /\ SearchInv /\ FoundWasThere /\ StayingCardFound

LEMMA CardChangeKeeps ==
  ASSUME LookupInv, CardChange
  PROVE  LookupInv'
  <1> USE LookupAssumption DEF LookupInv, LookupTypeOK
  <1>1. PICK c \in Numbers, name \in Names \union {NoCard} :
          /\ cards' = [cards EXCEPT ![c] = name]
          /\ kept' = kept \ {c}
          /\ seen' = IF searching /\ name = Wanted THEN seen \union {c} ELSE seen
          /\ UNCHANGED <<searching, i, number>>
    BY DEF CardChange
  <1>2. LookupTypeOK'
    BY <1>1
  <1>3. \A d \in kept' : d \in kept /\ cards'[d] = cards[d]
    BY <1>1
  <1>4. SearchInv'
    <2> SUFFICES ASSUME searching
                 PROVE  /\ number = NotFound
                        /\ \A d \in Numbers : cards'[d] = Wanted => d \in seen'
                        /\ \A d \in 0 .. i - 1 : d \in kept' =>
                             cards'[d] # NoCard /\ cards'[d] # Wanted
      BY <1>1 DEF SearchInv, HasWanted
    <2>1. \A d \in Numbers : cards'[d] = Wanted => d \in seen'
      BY <1>1 DEF SearchInv, HasWanted
    <2> QED
      BY <1>3, <2>1 DEF SearchInv, HasWanted
  <1>5. FoundWasThere'
    BY <1>1 DEF FoundWasThere
  <1>6. StayingCardFound'
    BY <1>1, <1>3 DEF StayingCardFound, HasWanted
  <1> QED
    BY <1>2, <1>4, <1>5, <1>6

LEMMA LookKeeps ==
  ASSUME LookupInv, Look
  PROVE  LookupInv'
  <1> USE LookupAssumption DEF LookupInv, LookupTypeOK
  <1>0. searching /\ number = NotFound /\ NotFound \notin Numbers
    BY DEF Look, SearchInv, NotFound, Numbers
  <1>1. CASE i = MaxCards \/ cards[i] = NoCard
    <2>1. Return(NotFound)
      BY <1>1 DEF Look
    <2>2. LookupTypeOK' /\ SearchInv' /\ FoundWasThere'
      BY <2>1 DEF Return, SearchInv, FoundWasThere
    <2>3. ASSUME NEW c \in kept, HasWanted(c),
                 \A d \in 0 .. c - 1 : d \in kept /\ cards[d] # NoCard
          PROVE  FALSE
      <3>1. c \in 0 .. MaxCards - 1
        BY DEF Numbers
      <3>2. ~(c < i)
        BY <1>0, <2>3, <3>1 DEF SearchInv
      <3>3. cards[i] = NoCard /\ i \in Numbers
        BY <1>1, <3>1, <3>2 DEF Numbers
      <3>4. c # i
        BY <2>3, <3>3 DEF HasWanted
      <3> QED
        BY <2>3, <3>1, <3>2, <3>3, <3>4 DEF Numbers
    <2>4. StayingCardFound'
      BY <2>1, <2>3 DEF StayingCardFound, Return, HasWanted
    <2> QED
      BY <2>2, <2>4
  <1>2. CASE ~(i = MaxCards \/ cards[i] = NoCard) /\ HasWanted(i)
    <2>1. Return(i) /\ i \in Numbers
      BY <1>2 DEF Look, Numbers
    <2>2. LookupTypeOK' /\ SearchInv' /\ FoundWasThere'
      BY <1>0, <1>2, <2>1 DEF Return, SearchInv, FoundWasThere
    <2>3. ASSUME NEW c \in kept, HasWanted(c) PROVE i \in 0 .. c
      <3>1. c \in 0 .. MaxCards - 1 /\ i \in 0 .. MaxCards - 1
        BY <2>1 DEF Numbers
      <3>2. ~(c < i)
        BY <1>0, <2>3, <3>1 DEF SearchInv
      <3> QED
        BY <3>1, <3>2
    <2>4. StayingCardFound'
      BY <2>1, <2>3 DEF StayingCardFound, Return, HasWanted
    <2> QED
      BY <2>2, <2>4
  <1>3. CASE ~(i = MaxCards \/ cards[i] = NoCard) /\ ~HasWanted(i)
    <2>1. i' = i + 1 /\ UNCHANGED <<cards, searching, number, kept, seen>>
      BY <1>3 DEF Look
    <2>2. i \in Nat /\ i + 1 <= MaxCards
      BY <1>3
    <2>3. SearchInv'
      BY <1>0, <1>3, <2>1, <2>2 DEF SearchInv, HasWanted
    <2> QED
      BY <1>0, <2>1, <2>2, <2>3 DEF FoundWasThere, StayingCardFound
  <1> QED
    BY <1>1, <1>2, <1>3

LEMMA LookupInvNext == LookupInv /\ [LookupNext]_lookupVars => LookupInv'
  <1> SUFFICES ASSUME LookupInv, [LookupNext]_lookupVars PROVE LookupInv'
    OBVIOUS
  <1>1. CASE Begin
    BY <1>1, LookupAssumption
    DEF Begin, LookupInv, LookupTypeOK, SearchInv, FoundWasThere, StayingCardFound,
        HasWanted, Numbers
  <1>2. CASE UNCHANGED lookupVars
    BY <1>2 DEF lookupVars, LookupInv, LookupTypeOK, SearchInv, FoundWasThere,
       StayingCardFound, HasWanted
  <1> QED
    BY <1>1, <1>2, CardChangeKeeps, LookKeeps DEF LookupNext

LEMMA LookupInvInit == LookupInit => LookupInv
  <1> SUFFICES ASSUME LookupInit PROVE LookupInv
    OBVIOUS
  <1>1. LookupTypeOK
    <2>1. cards \in [Numbers -> Names \union {NoCard}] /\ searching \in BOOLEAN
      BY DEF LookupInit
    <2>2. i \in 0 .. MaxCards
      BY LookupAssumption DEF LookupInit
    <2>3. number \in {NotFound} /\ kept = {} /\ seen = {}
      BY DEF LookupInit
    <2> QED
      BY <2>1, <2>2, <2>3 DEF LookupTypeOK
  <1>2. SearchInv /\ FoundWasThere /\ StayingCardFound
    BY DEF LookupInit, SearchInv, FoundWasThere, StayingCardFound
  <1> QED
    BY <1>1, <1>2 DEF LookupInv

\* The lookup keeps within its numbers, whatever cards come and go.
THEOREM LookupTypeCorrect == LookupSpec => []LookupTypeOK
  BY LookupInvInit, LookupInvNext, PTL DEF LookupSpec, LookupInv

\* The number returned has been the wanted card's while the search ran, for
\* any number of cards and names (alsa_recorder.cpp:236-241).
THEOREM FoundCardWasThere == LookupSpec => []FoundWasThere
  BY LookupInvInit, LookupInvNext, PTL DEF LookupSpec, LookupInv

\* A wanted card is found if it and the cards below it stay.
THEOREM CardThatStaysIsFound == LookupSpec => []StayingCardFound
  BY LookupInvInit, LookupInvNext, PTL DEF LookupSpec, LookupInv

-----------------------------------------------------------------------------
(* CpuBurner.                                                              *)

CpuTypeOK ==
  /\ running \in BOOLEAN
  /\ tds \in [0 .. TdNum - 1 -> Burners \union {NoBurner}]
  /\ burner \in [Burners -> {"unborn", "burns", "ended"}]
  /\ \/ caller = Idle
     \/ caller \in [call : {"create"}, i : 0 .. TdNum]
     \/ caller \in [call : {"destroy"}, i : 0 .. TdNum - 1]

\* A thread that burns has its handle in tds, among those still to be joined
\* while destroy runs, or has lost it.
HandleInv ==
  \A b \in Burning :
    \/ b \in lost
    \/ \E j \in 0 .. TdNum - 1 : tds[j] = b /\ (In("destroy") => j >= caller.i)

CpuInv == CpuTypeOK /\ HandleInv

LEMMA CreateOneKeeps ==
  ASSUME CpuInv, CreateOne
  PROVE  CpuInv'
  <1> USE CpuAssumption DEF CpuInv, CpuTypeOK
  <1>0. /\ caller.call = "create" /\ caller.i \in 0 .. TdNum - 1
        /\ caller = [call |-> "create", i |-> caller.i]
    BY DEF CreateOne, In, Idle
  <1>1. ASSUME NEW b \in Fresh, burner' = [burner EXCEPT ![b] = "burns"],
               tds' = [tds EXCEPT ![caller.i] = b],
               lost' = lost \union ({tds[caller.i]} \ {NoBurner}),
               caller' = [caller EXCEPT !.i = @ + 1], running' = running
        PROVE  CpuInv'
    <2>1. b \in Burners
      BY DEF Fresh
    <2>2. caller' = [call |-> "create", i |-> caller.i + 1] /\ caller.i + 1 \in 0 .. TdNum
      BY <1>0, <1>1
    <2>3. CpuTypeOK'
      BY <1>0, <1>1, <2>1, <2>2
    <2>4. ASSUME NEW c \in Burning'
          PROVE  c \in lost' \/ \E j \in 0 .. TdNum - 1 : tds'[j] = c
      <3>1. CASE c = b
        BY <1>0, <1>1, <3>1
      <3>2. CASE c # b
        <4>1. c \in Burning /\ c # NoBurner
          BY <1>1, <2>1, <3>2 DEF Burning
        <4>2. c \in lost \/ \E j \in 0 .. TdNum - 1 : tds[j] = c
          BY <4>1 DEF HandleInv
        <4> QED
          BY <1>0, <1>1, <4>1, <4>2
      <3> QED
        BY <3>1, <3>2
    <2>5. ~In("destroy")'
      BY <2>2 DEF In
    <2> QED
      BY <2>3, <2>4, <2>5 DEF HandleInv
  <1>2. CASE caller' = Idle /\ UNCHANGED <<tds, burner, lost, running>>
    <2>1. ~In("destroy")'
      BY <1>2 DEF In, Idle
    <2> QED
      BY <1>2, <2>1 DEF HandleInv, Burning
  <1> QED
    BY <1>1, <1>2 DEF CreateOne

LEMMA DestroyJoinKeeps ==
  ASSUME CpuInv, DestroyJoin
  PROVE  CpuInv' /\ (In("none")' => Burning' \subseteq lost')
  <1> USE CpuAssumption DEF CpuInv, CpuTypeOK
  <1>0. /\ caller.call = "destroy" /\ caller.i \in 0 .. TdNum - 1
        /\ caller = [call |-> "destroy", i |-> caller.i]
        /\ tds[caller.i] \notin Burning /\ UNCHANGED <<running, tds, burner, lost>>
    BY DEF DestroyJoin, In, Idle
  <1>1. ASSUME NEW b \in Burning', b \notin lost'
        PROVE  \E j \in 0 .. TdNum - 1 : tds'[j] = b /\ j >= caller.i + 1
    <2>1. b \in Burning /\ b \notin lost
      BY <1>0, <1>1 DEF Burning
    <2>2. PICK j \in 0 .. TdNum - 1 : tds[j] = b /\ j >= caller.i
      BY <1>0, <2>1 DEF HandleInv, In
    <2>3. j # caller.i
      BY <1>0, <2>1, <2>2
    <2> QED
      BY <1>0, <2>2, <2>3
  <1>2. CASE caller.i + 1 = TdNum
    <2>1. caller' = Idle
      BY <1>2 DEF DestroyJoin
    <2>2. Burning' \subseteq lost'
      BY <1>0, <1>1, <1>2
    <2>3. HandleInv'
      BY <2>2 DEF HandleInv
    <2> QED
      BY <1>0, <2>1, <2>2, <2>3
  <1>3. CASE caller.i + 1 # TdNum
    <2>1. caller' = [call |-> "destroy", i |-> caller.i + 1] /\ caller.i + 1 \in 0 .. TdNum - 1
      BY <1>0, <1>3 DEF DestroyJoin
    <2>2. ~In("none")'
      BY <2>1 DEF In
    <2>3. HandleInv'
      BY <1>1, <2>1 DEF HandleInv
    <2> QED
      BY <1>0, <2>1, <2>2, <2>3
  <1> QED
    BY <1>2, <1>3

LEMMA BurnerEndsKeeps ==
  ASSUME CpuInv, NEW b \in Burners, BurnerEnds(b)
  PROVE  CpuInv'
  <1> USE DEF CpuInv, CpuTypeOK
  <1>1. burner' = [burner EXCEPT ![b] = "ended"] /\ UNCHANGED <<running, tds, caller, lost>>
    BY DEF BurnerEnds
  <1>2. Burning' \subseteq Burning
    BY <1>1 DEF Burning
  <1> QED
    BY <1>1, <1>2 DEF HandleInv, In

\* What a step does, and what it does when destroy returns.
LEMMA CpuStep ==
  CpuInv /\ [CpuNext]_cpuVars =>
    CpuInv' /\ (In("destroy") /\ In("none")' => Burning' \subseteq lost')
  <1> SUFFICES ASSUME CpuInv, [CpuNext]_cpuVars
               PROVE  CpuInv' /\ (In("destroy") /\ In("none")' => Burning' \subseteq lost')
    OBVIOUS
  <1> USE CpuAssumption DEF CpuInv
  <1>1. CASE CreateBegin
    <2>1. /\ ~In("destroy") /\ caller' = [call |-> "create", i |-> 0]
          /\ UNCHANGED <<running, tds, burner, lost>>
      BY <1>1 DEF CreateBegin, In
    <2>2. ~In("destroy")'
      BY <2>1 DEF In
    <2> QED
      BY <2>1, <2>2 DEF CpuTypeOK, HandleInv, Burning
  <1>2. CASE CreateOne
    BY <1>2, CreateOneKeeps DEF CreateOne, In
  <1>3. CASE CreateEnd
    <2>1. /\ ~In("destroy") /\ caller' = Idle /\ running' = TRUE
          /\ UNCHANGED <<tds, burner, lost>>
      BY <1>3 DEF CreateEnd, In
    <2>2. ~In("destroy")'
      BY <2>1 DEF In, Idle
    <2> QED
      BY <2>1, <2>2 DEF CpuTypeOK, HandleInv, Burning
  <1>4. CASE DestroyBegin
    <2>1. /\ ~In("destroy") /\ caller' = [call |-> "destroy", i |-> 0]
          /\ running' = FALSE /\ UNCHANGED <<tds, burner, lost>>
      BY <1>4 DEF DestroyBegin, In
    <2>2. caller'.i = 0 /\ 0 \in 0 .. TdNum - 1
      BY <2>1
    <2>3. CpuTypeOK'
      BY <2>1, <2>2 DEF CpuTypeOK
    <2>4. ASSUME NEW b \in Burning', b \notin lost'
          PROVE  \E j \in 0 .. TdNum - 1 : tds'[j] = b /\ j >= caller'.i
      <3>1. b \in Burning /\ b \notin lost
        BY <2>1, <2>4 DEF Burning
      <3>2. PICK j \in 0 .. TdNum - 1 : tds[j] = b
        BY <3>1 DEF HandleInv
      <3> QED
        BY <2>1, <2>2, <3>2
    <2> QED
      BY <2>1, <2>3, <2>4 DEF HandleInv
  <1>5. CASE DestroyJoin
    BY <1>5, DestroyJoinKeeps
  <1>6. ASSUME NEW b \in Burners, BurnerEnds(b)
        PROVE  CpuInv' /\ ~(In("destroy") /\ In("none")')
    BY <1>6, BurnerEndsKeeps DEF BurnerEnds, In
  <1>7. CASE UNCHANGED cpuVars
    BY <1>7 DEF cpuVars, CpuTypeOK, HandleInv, Burning, In
  <1> QED
    BY <1>1, <1>2, <1>3, <1>4, <1>5, <1>6, <1>7 DEF CpuNext, CpuProgress, BurnerLoops

LEMMA CpuInvInit == CpuInit => CpuInv
  <1> SUFFICES ASSUME CpuInit PROVE CpuInv
    OBVIOUS
  <1>1. CpuTypeOK
    BY CpuAssumption DEF CpuInit, CpuTypeOK, Idle
  <1>2. Burning = {}
    BY DEF CpuInit, Burning
  <1> QED
    BY <1>1, <1>2 DEF CpuInv, HandleInv

\* When destroy returns, a thread that still runs is one whose handle a later
\* create has overwritten: for any number of threads, whichever creates failed
\* half-way (android_cpu.c:70-76, :93-96).
THEOREM DestroyJoinsAll == CpuSpec => DestroyWaits
  <1>1. CpuInv /\ [CpuNext]_cpuVars =>
          [In("destroy") /\ In("none")' => Burning' \subseteq lost']_cpuVars
    BY CpuStep
  <1>2. CpuInv /\ [CpuNext]_cpuVars => CpuInv'
    BY CpuStep
  <1> QED
    BY <1>1, <1>2, CpuInvInit, PTL DEF CpuSpec, DestroyWaits

-----------------------------------------------------------------------------
(* PcmFile.                                                                *)

SaverPc == {"rest", "check", "use", "write", "close", "null", "leave"}

FileTypeOK ==
  /\ mFos \in Streams \union {NoStream}
  /\ creator \in [Creators -> {"rest", "open"}]
  /\ saver \in [Savers -> [pc : SaverPc, fos : Streams \union {NoStream}]]
  /\ made \subseteq Streams /\ done \subseteq made

\* The monitor is held by at most one saver; the stream it writes to is open,
\* and so is mFos except between the close and the null.
MonitorInv ==
  /\ \A s \in Savers : saver[s].pc # "rest" => monitor = s
  /\ \A s \in Savers : saver[s].pc = "use" => mFos # NoStream
  /\ \A s \in Savers : saver[s].pc \in {"write", "close"} => saver[s].fos \in made \ done
  /\ mFos # NoStream =>
       mFos \in made \ done \/ \E s \in Savers : saver[s].pc = "null"

FileInv == FileTypeOK /\ MonitorInv

\* What the invariant says of one saver's records.
LEMMA SaverRecord ==
  ASSUME FileTypeOK, NEW s \in Savers
  PROVE  /\ saver[s] = [pc |-> saver[s].pc, fos |-> saver[s].fos]
         /\ saver[s].pc \in SaverPc /\ saver[s].fos \in Streams \union {NoStream}
         /\ DOMAIN saver = Savers /\ s # NoStream
  BY FileAssumption DEF FileTypeOK

\* While one saver holds the monitor the others rest.
LEMMA OthersRest ==
  ASSUME FileInv, NEW s \in Savers, saver[s].pc # "rest", NEW q \in Savers \ {s}
  PROVE  saver[q].pc = "rest"
  BY DEF FileInv, MonitorInv

LEMMA CreatorKeeps ==
  ASSUME FileInv, NEW c \in Creators, CreateCheck(c) \/ CreateOpen(c)
  PROVE  FileInv'
  <1> USE FileAssumption DEF FileInv, FileTypeOK
  <1>1. CASE CreateCheck(c)
    BY <1>1 DEF CreateCheck, MonitorInv
  <1>2. CASE CreateOpen(c)
    <2>1. CASE UNCHANGED <<mFos, made>>
      BY <1>2, <2>1 DEF CreateOpen, MonitorInv
    <2>2. ASSUME NEW f \in Streams \ made, mFos' = f, made' = made \union {f}
          PROVE  FileInv'
      <3>1. f \in made' \ done /\ f # NoStream
        BY <2>2
      <3> QED
        BY <1>2, <2>2, <3>1 DEF CreateOpen, MonitorInv
    <2> QED
      BY <1>2, <2>1, <2>2 DEF CreateOpen
  <1> QED
    BY <1>1, <1>2

SaverSteps(s) ==
  \/ SaverEnter(s) \/ SaverCheck(s) \/ SaverUse(s) \/ Write(s)
  \/ CloseWrite(s) \/ CloseNulls(s) \/ SaverLeave(s)

\* One saver's step leaves the others at rest, or is the first of its call.
LEMMA SaverFrame ==
  ASSUME FileInv, NEW s \in Savers, SaverSteps(s)
  PROVE  /\ \A q \in Savers \ {s} : saver'[q] = saver[q] /\ saver[q].pc = "rest"
         /\ DOMAIN saver' = Savers /\ UNCHANGED <<creator, made>>
  <1> USE DEF FileInv
  <1>1. \A q \in Savers \ {s} : saver'[q] = saver[q]
    BY SaverRecord DEF SaverSteps, SaverEnter, SaverCheck, SaverUse, Write, CloseWrite,
       CloseNulls, SaverLeave
  <1>2. ASSUME NEW q \in Savers \ {s} PROVE saver[q].pc = "rest"
    <2>1. CASE SaverEnter(s)
      BY <2>1, SaverRecord DEF SaverEnter, MonitorInv
    <2>2. CASE ~SaverEnter(s)
      <3>1. saver[s].pc # "rest"
        BY <2>2 DEF SaverSteps, SaverCheck, SaverUse, Write, CloseWrite, CloseNulls, SaverLeave
      <3> QED
        BY <3>1, OthersRest
    <2> QED
      BY <2>1, <2>2
  <1>3. DOMAIN saver' = Savers /\ UNCHANGED <<creator, made>>
    BY SaverRecord DEF SaverSteps, SaverEnter, SaverCheck, SaverUse, Write, CloseWrite,
       CloseNulls, SaverLeave
  <1> QED
    BY <1>1, <1>2, <1>3

LEMMA SaverKeeps ==
  ASSUME FileInv, NEW s \in Savers, SaverSteps(s)
  PROVE  FileInv'
  <1> USE FileAssumption DEF FileInv, FileTypeOK, SaverPc
  <1>0. /\ \A q \in Savers \ {s} : saver'[q] = saver[q] /\ saver[q].pc = "rest"
        /\ DOMAIN saver' = Savers /\ UNCHANGED <<creator, made>>
    BY SaverFrame
  <1>1. CASE SaverEnter(s)
    <2>1. saver'[s].pc = "check" /\ monitor' = s /\ UNCHANGED <<mFos, done>>
      BY <1>1, SaverRecord DEF SaverEnter
    <2>2. FileTypeOK'
      BY <1>0, <1>1, <2>1 DEF SaverEnter
    <2>3. mFos # NoStream => mFos \in made \ done
      BY <1>0, <1>1 DEF MonitorInv, SaverEnter
    <2>4. MonitorInv'
      BY <1>0, <2>1, <2>3 DEF MonitorInv
    <2> QED
      BY <2>2, <2>4
  <1>2. CASE SaverCheck(s)
    <2>1. /\ saver[s].pc = "check" /\ monitor = s /\ UNCHANGED <<mFos, done, monitor>>
          /\ saver'[s].pc = IF mFos = NoStream THEN "leave" ELSE "use"
      BY <1>2, SaverRecord DEF SaverCheck, MonitorInv
    <2>2. FileTypeOK'
      BY <1>0, <1>2, <2>1 DEF SaverCheck
    <2>3. mFos # NoStream => mFos \in made \ done
      BY <1>0, <2>1 DEF MonitorInv
    <2>4. MonitorInv'
      BY <1>0, <2>1, <2>3 DEF MonitorInv
    <2> QED
      BY <2>2, <2>4
  <1>3. CASE SaverUse(s)
    <2>1. /\ saver[s].pc = "use" /\ monitor = s /\ UNCHANGED <<mFos, done, monitor>>
          /\ saver'[s].pc \in {"write", "close"} /\ saver'[s].fos = mFos
      BY <1>3, SaverRecord DEF SaverUse, MonitorInv
    <2>2. FileTypeOK'
      BY <1>0, <1>3, <2>1 DEF SaverUse
    <2>3. mFos # NoStream /\ mFos \in made \ done
      BY <1>0, <2>1 DEF MonitorInv
    <2>4. MonitorInv'
      BY <1>0, <2>1, <2>3 DEF MonitorInv
    <2> QED
      BY <2>2, <2>4
  <1>4. CASE Write(s)
    <2>1. /\ saver[s].pc = "write" /\ monitor = s /\ UNCHANGED <<mFos, done, monitor>>
          /\ saver'[s].pc = "leave"
      BY <1>4, SaverRecord DEF Write, MonitorInv
    <2>2. FileTypeOK'
      BY <1>0, <1>4, <2>1 DEF Write
    <2>3. mFos # NoStream => mFos \in made \ done
      BY <1>0, <2>1 DEF MonitorInv
    <2>4. MonitorInv'
      BY <1>0, <2>1, <2>3 DEF MonitorInv
    <2> QED
      BY <2>2, <2>4
  <1>5. CASE CloseWrite(s)
    <2>1. /\ saver[s].pc = "close" /\ monitor = s /\ UNCHANGED <<mFos, monitor>>
          /\ saver'[s].pc = "null" /\ done' = done \union {saver[s].fos}
      BY <1>5, SaverRecord DEF CloseWrite, MonitorInv
    <2>2. saver[s].fos \in made
      BY <2>1 DEF MonitorInv
    <2>3. FileTypeOK'
      BY <1>0, <1>5, <2>1, <2>2 DEF CloseWrite
    <2>4. MonitorInv'
      BY <1>0, <2>1 DEF MonitorInv
    <2> QED
      BY <2>3, <2>4
  <1>6. CASE CloseNulls(s)
    <2>1. /\ saver[s].pc = "null" /\ monitor = s /\ UNCHANGED <<done, monitor>>
          /\ saver'[s].pc = "leave" /\ mFos' = NoStream
      BY <1>6, SaverRecord DEF CloseNulls, MonitorInv
    <2>2. FileTypeOK'
      BY <1>0, <1>6, <2>1 DEF CloseNulls
    <2>3. MonitorInv'
      BY <1>0, <2>1 DEF MonitorInv
    <2> QED
      BY <2>2, <2>3
  <1>7. CASE SaverLeave(s)
    <2>1. /\ saver[s].pc = "leave" /\ UNCHANGED <<mFos, done>>
          /\ saver'[s] = Resting
      BY <1>7, SaverRecord DEF SaverLeave
    <2>2. FileTypeOK'
      BY <1>0, <1>7, <2>1 DEF SaverLeave, Resting
    <2>3. mFos # NoStream => mFos \in made \ done
      BY <1>0, <2>1 DEF MonitorInv
    <2>4. MonitorInv'
      BY <1>0, <2>1, <2>3 DEF MonitorInv, Resting
    <2> QED
      BY <2>2, <2>4
  <1> QED
    BY <1>1, <1>2, <1>3, <1>4, <1>5, <1>6, <1>7 DEF SaverSteps

LEMMA FileInvNext == FileInv /\ [FileNext]_fileVars => FileInv'
  <1> SUFFICES ASSUME FileInv, [FileNext]_fileVars PROVE FileInv'
    OBVIOUS
  <1>1. CASE UNCHANGED fileVars
    BY <1>1 DEF fileVars, FileInv, FileTypeOK, MonitorInv
  <1> QED
    BY <1>1, CreatorKeeps, SaverKeeps DEF FileNext, SaverSteps

LEMMA FileInvInit == FileInit => FileInv
  <1> SUFFICES ASSUME FileInit PROVE FileInv
    OBVIOUS
  <1>1. FileTypeOK
    BY DEF FileInit, FileTypeOK, Resting, SaverPc
  <1>2. MonitorInv
    BY DEF FileInit, MonitorInv, Resting
  <1> QED
    BY <1>1, <1>2 DEF FileInv

\* No block of sound is written to null or to a closed stream, for any number
\* of threads that create, write and close (PcmFileUtil.java:97-136).
THEOREM WritesAreToOpenStreams == FileSpec => []WritesToOpenStream
  <1>1. FileInv => WritesToOpenStream
    BY DEF FileInv, MonitorInv, WritesToOpenStream
  <1> QED
    BY <1>1, FileInvInit, FileInvNext, PTL DEF FileSpec

\* With one creator: a stream is opened only over null, so nothing replaces
\* the one a saver has tested and loaded.
OneStreamInv ==
  /\ \A c \in Creators : creator[c] = "open" => mFos = NoStream
  /\ \A s \in Savers : saver[s].pc \in {"write", "close", "null"} =>
       mFos # NoStream /\ saver[s].fos = mFos
  /\ \A s \in Savers : saver[s].pc = "null" => mFos \in done
  /\ made \ done \subseteq {mFos}
  /\ mFos \in done => \E s \in Savers : saver[s].pc = "null"

LEMMA OneStreamCreator ==
  ASSUME FileInv, OneStreamInv, NEW c \in Creators, Creators = {c},
         CreateCheck(c) \/ CreateOpen(c)
  PROVE  OneStreamInv'
  <1> USE FileAssumption DEF FileInv, FileTypeOK
  <1>1. CASE CreateCheck(c)
    BY <1>1 DEF CreateCheck, OneStreamInv
  <1>2. CASE CreateOpen(c)
    <2>1. /\ mFos = NoStream /\ creator'[c] = "rest" /\ UNCHANGED <<saver, done>>
          /\ made \ done = {}
      BY <1>2 DEF CreateOpen, OneStreamInv
    <2>2. CASE UNCHANGED <<mFos, made>>
      BY <2>1, <2>2 DEF OneStreamInv
    <2>3. ASSUME NEW f \in Streams \ made, mFos' = f, made' = made \union {f}
          PROVE  OneStreamInv'
      BY <2>1, <2>3 DEF OneStreamInv
    <2> QED
      BY <1>2, <2>2, <2>3 DEF CreateOpen
  <1> QED
    BY <1>1, <1>2

LEMMA OneStreamSaver ==
  ASSUME FileInv, OneStreamInv, NEW s \in Savers, SaverSteps(s)
  PROVE  OneStreamInv'
  <1> USE FileAssumption DEF FileInv, FileTypeOK
  <1>0. /\ \A q \in Savers \ {s} : saver'[q] = saver[q] /\ saver[q].pc = "rest"
        /\ DOMAIN saver' = Savers /\ UNCHANGED <<creator, made>>
    BY SaverFrame
  <1>1. CASE SaverEnter(s) \/ SaverCheck(s) \/ Write(s) \/ SaverLeave(s)
    <2>1. /\ saver[s].pc # "null" /\ UNCHANGED <<mFos, done>>
          /\ saver'[s].pc \in {"check", "leave", "use", "rest"}
      BY <1>1, SaverRecord DEF SaverEnter, SaverCheck, Write, SaverLeave, Resting
    <2>2. mFos \notin done
      BY <1>0, <2>1 DEF OneStreamInv
    <2> QED
      BY <1>0, <2>1, <2>2 DEF OneStreamInv
  <1>2. CASE SaverUse(s)
    <2>1. /\ saver[s].pc = "use" /\ UNCHANGED <<mFos, done>>
          /\ saver'[s].pc \in {"write", "close"} /\ saver'[s].fos = mFos
      BY <1>2, SaverRecord DEF SaverUse
    <2>2. mFos \notin done /\ mFos # NoStream
      BY <1>0, <2>1 DEF OneStreamInv, MonitorInv
    <2> QED
      BY <1>0, <2>1, <2>2 DEF OneStreamInv
  <1>3. CASE CloseWrite(s)
    <2>1. /\ saver[s].pc = "close" /\ mFos' = mFos /\ saver'[s].pc = "null"
          /\ saver'[s].fos = saver[s].fos /\ done' = done \union {saver[s].fos}
      BY <1>3, SaverRecord DEF CloseWrite
    <2> QED
      BY <1>0, <2>1 DEF OneStreamInv
  <1>4. CASE CloseNulls(s)
    <2>1. /\ saver[s].pc = "null" /\ mFos' = NoStream /\ saver'[s].pc = "leave"
          /\ done' = done
      BY <1>4, SaverRecord DEF CloseNulls
    <2>2. mFos \in done
      BY <1>0, <2>1 DEF OneStreamInv
    <2> QED
      BY <1>0, <2>1, <2>2 DEF OneStreamInv
  <1> QED
    BY <1>1, <1>2, <1>3, <1>4 DEF SaverSteps

LEMMA OneStreamNext ==
  ASSUME \A c, d \in Creators : c = d
  PROVE  FileInv /\ OneStreamInv /\ [FileNext]_fileVars => OneStreamInv'
  <1> SUFFICES ASSUME FileInv, OneStreamInv, [FileNext]_fileVars PROVE OneStreamInv'
    OBVIOUS
  <1>1. ASSUME NEW c \in Creators, CreateCheck(c) \/ CreateOpen(c) PROVE OneStreamInv'
    <2>1. Creators = {c}
      OBVIOUS
    <2> QED
      BY <1>1, <2>1, OneStreamCreator
  <1>2. CASE UNCHANGED fileVars
    BY <1>2 DEF fileVars, OneStreamInv
  <1> QED
    BY <1>1, <1>2, OneStreamSaver DEF FileNext, SaverSteps

LEMMA OneStreamInit == FileInit => OneStreamInv
  BY DEF FileInit, OneStreamInv, Resting

\* With one thread that creates and any number that write and close, no open
\* stream is lost and no closed one kept, although mFos is tested and set
\* without the monitor (PcmFileUtil.java:79-95, :123-135).
THEOREM NoStreamIsForgotten ==
  ASSUME \A c, d \in Creators : c = d
  PROVE  FileSpec => []StreamsKept
  <1>1. FileInv /\ OneStreamInv /\ [FileNext]_fileVars => OneStreamInv'
    BY OneStreamNext
  <1>2. OneStreamInv => StreamsKept
    BY DEF OneStreamInv, StreamsKept
  <1> QED
    BY <1>1, <1>2, FileInvInit, FileInvNext, OneStreamInit, PTL DEF FileSpec

-----------------------------------------------------------------------------
(* MicNumber.                                                              *)

MicTypeOK ==
  /\ samples \in Nat /\ channels \in Nat \ {0}
  /\ tagged \in Seq(Nat) /\ turn \in Nat

\* The round under way began inside the buffer.
RoundInv ==
  /\ turn = Len(tagged) % channels
  /\ turn # 0 => Len(tagged) - turn < samples

MicInv == MicTypeOK /\ RoundInv /\ MicNumbersRight

\* Division by the channels.
LEMMA Division ==
  ASSUME NEW k \in Nat, NEW n \in Nat \ {0}
  PROVE  k \div n \in Nat /\ k % n \in 0 .. n - 1 /\ k = n * (k \div n) + (k % n)
  OBVIOUS

LEMMA Remainder ==
  ASSUME NEW k \in Nat, NEW n \in Nat \ {0}, NEW q \in Nat, NEW r \in 0 .. n - 1,
         k = n * q + r
  PROVE  k % n = r
  OBVIOUS

LEMMA ZeroRemainder ==
  ASSUME NEW n \in Nat \ {0}
  PROVE  0 % n = 0
  BY Remainder

\* The remainder of the next number.
LEMMA NextRemainder ==
  ASSUME NEW k \in Nat, NEW n \in Nat \ {0}
  PROVE  /\ (k + 1) % n = ((k % n) + 1) % n
         /\ (k + 1) % n = IF (k % n) + 1 = n THEN 0 ELSE (k % n) + 1
  <1> DEFINE q == k \div n
             r == k % n
  <1>1. q \in Nat /\ r \in 0 .. n - 1 /\ k = n * q + r
    BY Division
  <1> HIDE DEF q, r
  <1>2. CASE r + 1 = n
    <2> DEFINE p == q + 1
    <2>1. k + 1 = n * p + 0 /\ p \in Nat /\ k + 1 \in Nat /\ 0 \in 0 .. n - 1
      BY <1>1, <1>2
    <2> HIDE DEF p
    <2>2. (k + 1) % n = 0
      BY ONLY n \in Nat \ {0}, <2>1, Remainder
    <2>3. (r + 1) % n = 0
      BY <1>2
    <2> QED
      BY <1>2, <2>2, <2>3 DEF r
  <1>3. CASE r + 1 # n
    <2> DEFINE p == k + 1
               s == r + 1
    <2>1. p = n * q + s /\ p \in Nat /\ s \in 0 .. n - 1 /\ q \in Nat
      BY <1>1, <1>3
    <2>2. s % n = s
      BY <2>1
    <2> HIDE DEF p, s
    <2>3. p % n = s
      BY ONLY n \in Nat \ {0}, <2>1, Remainder
    <2> QED
      BY <1>3, <2>2, <2>3 DEF p, s, r
  <1> QED
    BY <1>2, <1>3

\* Between two multiples of n lies n.
LEMMA MultiplesApart ==
  ASSUME NEW a \in Nat, NEW b \in Nat, NEW n \in Nat \ {0}, a % n = 0, b % n = 0, a < b
  PROVE  a + n <= b
  <1> DEFINE p == a \div n
             q == b \div n
  <1>1. p \in Nat /\ q \in Nat /\ a = n * p /\ b = n * q
    BY Division
  <1> HIDE DEF p, q
  <1>2. p < q
    BY <1>1
  <1> QED
    BY <1>1, <1>2

\* What is left of a number without its remainder is a multiple.
LEMMA RoundStart ==
  ASSUME NEW k \in Nat, NEW n \in Nat \ {0}
  PROVE  k - (k % n) \in Nat /\ (k - (k % n)) % n = 0
  <1> DEFINE q == k \div n
  <1>1. q \in Nat /\ k % n \in Nat /\ k - (k % n) = n * q + 0 /\ 0 \in 0 .. n - 1
    BY Division
  <1> HIDE DEF q
  <1>2. n * q + 0 \in Nat
    BY <1>1
  <1> QED
    BY <1>1, <1>2, Remainder

LEMMA AddMicKeeps ==
  ASSUME MicInv, AddMicNumber
  PROVE  MicInv'
  <1> USE DEF MicInv, MicTypeOK
  <1> DEFINE len == Len(tagged)
             begun == len - turn
  <1>1. /\ tagged' = Append(tagged, turn + 1) /\ turn' = (turn + 1) % channels
        /\ UNCHANGED <<samples, channels>> /\ len \in Nat
    BY DEF AddMicNumber
  <1>2. /\ tagged' \in Seq(Nat) /\ Len(tagged') = len + 1
        /\ \A k \in 1 .. len : tagged'[k] = tagged[k]
        /\ tagged'[len + 1] = turn + 1
    BY <1>1
  <1>3. /\ turn = len % channels /\ turn \in 0 .. channels - 1
        /\ begun \in Nat /\ begun % channels = 0
    BY <1>1, Division, RoundStart DEF RoundInv
  <1>4. begun < samples
    BY <1>1 DEF AddMicNumber, NextRound, RoundInv
  <1>5. /\ turn' = (len + 1) % channels
        /\ turn' = IF turn + 1 = channels THEN 0 ELSE turn + 1
    <2>1. len \in Nat /\ channels \in Nat \ {0}
      BY <1>1
    <2> HIDE DEF len, MicInv, MicTypeOK
    <2>2. /\ (len + 1) % channels = ((len % channels) + 1) % channels
          /\ (len + 1) % channels =
               IF (len % channels) + 1 = channels THEN 0 ELSE (len % channels) + 1
      BY <2>1, NextRemainder, Zenon
    <2>3. turn = len % channels
      BY <1>3
    <2> QED
      BY <1>1, <2>2, <2>3, Zenon
  <1> HIDE DEF len, begun
  <1>6. MicTypeOK'
    BY <1>1, <1>2, <1>3, <1>5
  <1>7. RoundInv'
    <2>1. turn' # 0 => len + 1 - turn' = begun
      BY <1>1, <1>3, <1>5 DEF begun
    <2> QED
      BY <1>1, <1>2, <1>4, <1>5, <2>1 DEF RoundInv
  <1>8. MicNumbersRight'
    <2>1. ASSUME NEW k \in 1 .. len + 1
          PROVE  tagged'[k] = ((k - 1) % channels) + 1
      <3>1. CASE k = len + 1
        BY <1>1, <1>2, <1>3, <3>1
      <3>2. CASE k # len + 1
        <4>1. k \in 1 .. len
          BY <1>1, <3>2
        <4> QED
          BY <1>2, <4>1 DEF MicNumbersRight, len
      <3> QED
        BY <3>1, <3>2
    <2>2. len + 1 <= begun + channels
      BY <1>1, <1>3 DEF begun
    <2>3. samples % channels = 0 => begun + channels <= samples
      BY <1>3, <1>4, MultiplesApart
    <2>4. len + 1 < samples + channels
      BY <1>1, <1>3, <1>4, <2>2
    <2>5. samples % channels = 0 => len + 1 <= samples
      BY <1>1, <1>3, <2>2, <2>3
    <2> QED
      BY <1>1, <1>2, <2>1, <2>4, <2>5 DEF MicNumbersRight
  <1> QED
    BY <1>6, <1>7, <1>8

LEMMA NextBufferKeeps ==
  ASSUME NextBuffer
  PROVE  MicInv'
  <1>0. samples' \in Nat /\ channels' \in Nat \ {0}
    BY MicAssumption DEF NextBuffer
  <1>1. turn' = 0 /\ tagged' = <<>>
    BY DEF NextBuffer
  <1>2. MicTypeOK' /\ Len(tagged') = 0
    BY <1>0, <1>1 DEF MicTypeOK
  <1>3. RoundInv'
    <2>1. 0 % channels' = 0
      BY <1>0, ZeroRemainder
    <2> QED
      BY <1>1, <1>2, <2>1, Zenon DEF RoundInv
  <1>4. MicNumbersRight'
    <2>1. 0 <= samples' /\ 0 < samples' + channels'
      <3>1. \A m \in Nat, n \in Nat \ {0} : 0 <= m /\ 0 < m + n
        OBVIOUS
      <3> QED
        BY <1>0, <3>1, Zenon
    <2>2. \A k \in 1 .. Len(tagged') : tagged'[k] = ((k - 1) % channels') + 1
      <3> SUFFICES ASSUME NEW k \in 1 .. Len(tagged') PROVE FALSE
        OBVIOUS
      <3>1. Len(tagged') = 0
        BY <1>2
      <3> QED
        BY <3>1
    <2>3. Len(tagged') <= samples' /\ Len(tagged') < samples' + channels'
      BY <1>2, <2>1, Zenon
    <2> QED
      BY <2>2, <2>3, Zenon DEF MicNumbersRight
  <1> QED
    BY <1>2, <1>3, <1>4 DEF MicInv

LEMMA MicInvNext == MicInv /\ [MicNext]_micVars => MicInv'
  <1> SUFFICES ASSUME MicInv, [MicNext]_micVars PROVE MicInv'
    OBVIOUS
  <1>1. CASE UNCHANGED micVars
    BY <1>1 DEF micVars, MicInv, MicTypeOK, RoundInv, MicNumbersRight
  <1> QED
    BY <1>1, AddMicKeeps, NextBufferKeeps DEF MicNext

LEMMA MicInvInit == MicInit => MicInv
  <1> SUFFICES ASSUME MicInit PROVE MicInv
    OBVIOUS
  <1>1. samples = 0 /\ channels = 1 /\ turn = 0 /\ tagged = <<>> /\ Len(tagged) = 0
    BY DEF MicInit
  <1> QED
    BY <1>1 DEF MicInv, MicTypeOK, RoundInv, MicNumbersRight

\* For buffers of any length and any number of channels but none, each sample gets the
\* number of its channel, and a buffer of whole rounds is never passed
\* (alsa_recorder.cpp:216-226).
THEOREM ChannelsAreNumbered == MicSpec => []MicNumbersRight
  BY MicInvInit, MicInvNext, PTL DEF MicSpec, MicInv

-----------------------------------------------------------------------------
(* JniBridge.                                                              *)
(*                                                                         *)
(* Both properties are about one thread at one depth, and neither tells    *)
(* which of several nested callbacks will detach the thread.  That is      *)
(* always the outermost one of a record thread, and none of a thread of    *)
(* the VM.                                                                 *)

JniTypeOK ==
  /\ attached \subseteq JniThreads
  /\ depth \in [JniThreads -> Nat]
  /\ detaches \in [JniThreads -> SUBSET Nat]

\* The state of one thread.
JavaInv(t) == t \in attached /\ detaches[t] = {}
NativeInv(t) ==
  /\ t \in attached <=> depth[t] > 0
  /\ detaches[t] = IF depth[t] > 0 THEN {1} ELSE {}

JniInv ==
  /\ JniTypeOK
  /\ \A t \in JavaThreads : JavaInv(t)
  /\ \A t \in NativeThreads : NativeInv(t)

\* A callback that will detach its thread, and one that will not.
Attaching(t) == CallListener(t, TRUE)
Nesting(t) == CallListener(t, FALSE)

\* What a call does to its own thread, and that it does nothing to another.
LEMMA CallEffect ==
  ASSUME JniTypeOK, NEW t \in JniThreads, Attaching(t) \/ Nesting(t)
  PROVE  /\ JniTypeOK'
         /\ t \in attached' /\ depth'[t] = depth[t] + 1
         /\ \A q \in JniThreads \ {t} :
              /\ q \in attached' <=> q \in attached
              /\ depth'[q] = depth[q] /\ detaches'[q] = detaches[q]
  <1>1. CASE Attaching(t)
    BY <1>1 DEF JniTypeOK, CallListener, Attaching, Nesting
  <1>2. CASE Nesting(t)
    BY <1>2 DEF JniTypeOK, CallListener, Attaching, Nesting
  <1> QED
    BY <1>1, <1>2

LEMMA CallFlag ==
  ASSUME JniTypeOK, NEW t \in JniThreads
  PROVE  /\ Attaching(t) => detaches'[t] = detaches[t] \union {depth[t] + 1}
         /\ Nesting(t) => detaches'[t] = detaches[t]
  BY DEF JniTypeOK, CallListener, Attaching, Nesting

LEMMA ReturnEffect ==
  ASSUME JniTypeOK, NEW t \in JniThreads, ListenerReturns(t)
  PROVE  /\ JniTypeOK'
         /\ depth[t] > 0 /\ depth'[t] = depth[t] - 1
         /\ t \in attached' <=> t \in attached /\ depth[t] \notin detaches[t]
         /\ detaches'[t] = detaches[t] \ {depth[t]}
         /\ \A q \in JniThreads \ {t} :
              /\ q \in attached' <=> q \in attached
              /\ depth'[q] = depth[q] /\ detaches'[q] = detaches[q]
  BY DEF JniTypeOK, ListenerReturns

\* A thread another thread's step leaves alone keeps its part of the invariant.
LEMMA OthersKeepJni ==
  ASSUME JniInv, JniTypeOK', NEW t \in JniThreads,
         \A q \in JniThreads \ {t} :
           /\ q \in attached' <=> q \in attached
           /\ depth'[q] = depth[q] /\ detaches'[q] = detaches[q],
         t \in JavaThreads => JavaInv(t)',
         t \in NativeThreads => NativeInv(t)'
  PROVE  JniInv'
  BY DEF JniInv, JavaInv, NativeInv, JniThreads

LEMMA JniInvNext == JniInv /\ [JniNext]_jniVars => JniInv'
  <1> SUFFICES ASSUME JniInv, [JniNext]_jniVars PROVE JniInv'
    OBVIOUS
  <1> USE JniAssumption
  <1>0. JniTypeOK
    BY DEF JniInv
  <1>1. ASSUME NEW t \in JniThreads, Report(t) PROVE JniInv'
    <2>1. IF t \in attached THEN Nesting(t) ELSE Attaching(t)
      <3>1. CASE t \in attached
        <4>1. (t \notin attached) = FALSE
          BY <3>1
        <4> QED
          BY <1>1, <3>1, <4>1 DEF Report, OtherThread, CallListener, Attaching, Nesting
      <3>2. CASE t \notin attached
        <4>1. (t \notin attached) = TRUE
          BY <3>2
        <4> QED
          BY <1>1, <3>2, <4>1 DEF Report, OtherThread, CallListener, Attaching, Nesting
      <3> QED
        BY <3>1, <3>2
    <2>2. t \in JavaThreads => JavaInv(t)'
      BY <1>0, <2>1, CallEffect, CallFlag DEF JniInv, JavaInv
    <2>3. ASSUME t \in NativeThreads PROVE NativeInv(t)'
      <3>1. NativeInv(t) /\ depth[t] \in Nat
        BY <2>3 DEF JniInv, JniTypeOK
      <3>2. t \in attached' /\ depth'[t] > 0
        BY <1>0, <2>1, <3>1, CallEffect
      <3>3. CASE depth[t] = 0
        <4>1. t \notin attached /\ detaches[t] = {}
          BY <3>1, <3>3 DEF NativeInv
        <4>2. Attaching(t)
          BY <2>1, <4>1
        <4>3. detaches'[t] = {1}
          BY <1>0, <3>3, <4>1, <4>2, CallFlag
        <4> QED
          BY <3>2, <4>3 DEF NativeInv
      <3>4. CASE depth[t] > 0
        <4>1. t \in attached /\ detaches[t] = {1}
          BY <3>1, <3>4 DEF NativeInv
        <4>2. Nesting(t)
          BY <2>1, <4>1
        <4>3. detaches'[t] = {1}
          BY <1>0, <4>1, <4>2, CallFlag
        <4> QED
          BY <3>2, <4>3 DEF NativeInv
      <3> QED
        BY <3>1, <3>3, <3>4
    <2> QED
      BY <1>0, <2>1, <2>2, <2>3, CallEffect, OthersKeepJni
  <1>2. ASSUME NEW t \in JniThreads, EngineCallback(t) PROVE JniInv'
    <2>1. t \in NativeThreads /\ depth[t] = 0 /\ Attaching(t)
      BY <1>2 DEF EngineCallback, Attaching
    <2>2. NativeInv(t)'
      <3>1. detaches[t] = {}
        BY <2>1 DEF JniInv, NativeInv
      <3>2. t \in attached' /\ depth'[t] = 1
        BY <1>0, <2>1, CallEffect
      <3>3. detaches'[t] = {1}
        BY <1>0, <2>1, <3>1, CallFlag
      <3> QED
        BY <3>2, <3>3 DEF NativeInv
    <2> QED
      BY <1>0, <2>1, <2>2, CallEffect, OthersKeepJni
  <1>3. ASSUME NEW t \in JniThreads, ListenerReturns(t) PROVE JniInv'
    <2>1. t \in JavaThreads => JavaInv(t)'
      BY <1>0, <1>3, ReturnEffect DEF JniInv, JavaInv
    <2>2. ASSUME t \in NativeThreads PROVE NativeInv(t)'
      <3>1. NativeInv(t) /\ depth[t] \in Nat
        BY <2>2 DEF JniInv, JniTypeOK
      <3>2. depth[t] > 0 /\ t \in attached /\ detaches[t] = {1}
        BY <1>0, <1>3, <3>1, ReturnEffect DEF NativeInv
      <3>3. CASE depth[t] = 1
        <4>1. depth'[t] = 0 /\ t \notin attached'
          BY <1>0, <1>3, <3>2, <3>3, ReturnEffect
        <4>2. detaches'[t] = {}
          BY <1>0, <1>3, <3>2, <3>3, ReturnEffect
        <4> QED
          BY <4>1, <4>2 DEF NativeInv
      <3>4. CASE depth[t] > 1
        <4>1. depth[t] \notin detaches[t] /\ detaches[t] \ {depth[t]} = {1}
          BY <3>1, <3>2, <3>4
        <4>2. depth'[t] > 0 /\ t \in attached' /\ detaches'[t] = {1}
          BY <1>0, <1>3, <3>1, <3>2, <3>4, <4>1, ReturnEffect
        <4> QED
          BY <4>2 DEF NativeInv
      <3> QED
        BY <3>1, <3>2, <3>3, <3>4
    <2> QED
      BY <1>0, <1>3, <2>1, <2>2, ReturnEffect, OthersKeepJni
  <1>4. CASE UNCHANGED jniVars
    BY <1>4 DEF jniVars, JniInv, JniTypeOK, JavaInv, NativeInv
  <1> QED
    BY <1>1, <1>2, <1>3, <1>4 DEF JniNext

LEMMA JniInvInit == JniInit => JniInv
  BY JniAssumption DEF JniInit, JniInv, JniTypeOK, JavaInv, NativeInv, JniThreads

LEMMA JniInvHolds == JniSpec => []JniInv
  BY JniInvInit, JniInvNext, PTL DEF JniSpec

\* However deep callbacks nest, no thread is detached under Java code that runs
\* on it: getEnv detaches only what it has attached itself
\* (com_iflytek_iflyos_AlsaCAE.cpp:30-48, jvm.cpp:18-32).
THEOREM NeverDetachedUnderJava == JniSpec => []JavaIsAttached
  <1>1. JniInv => JavaIsAttached
    BY DEF JniInv, JavaInv, NativeInv, JavaIsAttached
  <1> QED
    BY <1>1, JniInvHolds, PTL

\* A record thread in no callback is not attached, so it may end
\* (com_iflytek_iflyos_AlsaCAE.cpp:34, :44).
THEOREM RecordThreadsEndDetached == JniSpec => []EndsDetached
  <1>1. JniInv => EndsDetached
    BY DEF JniInv, JniTypeOK, NativeInv, EndsDetached, JniThreads
  <1> QED
    BY <1>1, JniInvHolds, PTL
=============================================================================

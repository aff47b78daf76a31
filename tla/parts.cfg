SPECIFICATION PartsSpec
CONSTANTS
  BlockFrames = 4
  AlarmAt = 10
  Skews <- MCSkews
  Sounds <- MCSounds
  Patience = 2
  MaxCards = 3
  Names = {wanted, other}
  Wanted = wanted
  NoCard = nocard
  JavaThreads = {ui}
  NativeThreads = {rt}
  MaxDepth = 3
  Burners = {u1, u2, u3, u4, u5}
  NoBurner = noburner
  TdNum = 2
  Streams = {f1, f2, f3}
  NoStream = nostream
  Creators = {c1}
  Savers = {s1, s2}
  MaxSamples = 6
INVARIANTS
  TypeOK
  FoundIsStart
  NoFalseAlarm
  HealthTypeOK
  AlarmsFounded
  LookupTypeOK
  FoundWasThere
  StayingCardFound
  JavaIsAttached
  EndsDetached
  WritesToOpenStream
  StreamsKept
  MicNumbersRight
PROPERTIES
  SlipNoticed
  BadSoundTold
  DestroyWaits
  DestroyReturns

SPECIFICATION FairAllSpec
CONSTANTS
  Setters = {s1, s2, s3}
  NWorkers = 4
  Roots = {r1}
  MaxForks = 2
  DequeCap = 1
  Levers = {"park", "mail"}
INVARIANTS
  NoTouchAfterFree
  ResultsBeforeReturn
  ParkedIsUnparked
  JoinsTyped
  RunsOnce
  FramesOutliveRunners
  ResultBeforeTake
  PanicReachesRoot
  OwnerIsUnparked
  SomebodyRuns
PROPERTIES
  ImplementsCompletion
  RootsFinish

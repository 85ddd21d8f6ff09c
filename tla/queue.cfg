SPECIFICATION MCSpec
CONSTANTS
  a = a
  b = b
  Producers = {p1, p2}
  Consumers = {c1}
  Stoppable = {c1}
  Items <- MCItems
  NoItem = NoItem
  Capacity = 2
  Batches <- MCBatches
  GetSizes = {1, 3}
  Waits <- MCWaits
  Root = RootDir
  Outer = Outer
  Inner = Inner
  InRoot = InRoot
  InOuter = InOuter
  InInner = InInner
  Directories = {Outer, Inner}
  DirFiles = {InRoot, InOuter, InInner}
  DirectoryOf <- MCDirectoryOf
  Parents <- MCParents
  MaxChanges = 3
VIEW MCView
INVARIANTS TypeOK NoStrandedWaiter 
PROPERTIES ImplementsChannel CountersBalance
CHECK_DEADLOCK FALSE

SPECIFICATION Spec
CONSTANTS
  t1 = t1  t2 = t2  a1 = a1  a2 = a2  a3 = a3  v1 = v1
  Threads = {t1, t2}
  Attrs = {a1}
  Values = {v1}
  NumBlocks = 2
  NodesPerBlock = 3
  Boot = 1
  Paths <- AllPaths
  MaxPath = 1
  Calls = {"get", "copy"}
  PoolMayFail = TRUE
  Root = Root
  Null = Null
INVARIANT TreeSound
PROPERTIES NodesFixed CallsReturn

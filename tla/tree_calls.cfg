SPECIFICATION Spec
CONSTANTS
  t1 = t1  t2 = t2  a1 = a1  a2 = a2  a3 = a3  v1 = v1
  Threads = {t1}
  Attrs = {a1, a2, a3}
  Values = {v1}
  NumBlocks = 1
  NodesPerBlock = 7
  Boot = 1
  Paths <- SomePaths
  MaxPath = 2
  Calls = {"get", "copy", "remove", "replace", "replace_all"}
  PoolMayFail = FALSE
  Root = Root
  Null = Null
INVARIANT CallsFindPaths

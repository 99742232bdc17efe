SPECIFICATION Spec
CONSTANTS
  Threads = {t1, t2}
  t1 = t1  t2 = t2  r1 = r1  r2 = r2  h1 = h1  h2 = h2  i1 = i1
  Attrs = {i1}
  AsValue = {i1}
  Hidden = {}
  Users <- Shared
  Values = {v1, v2}
  Nodes = {n1, n2}
  Empty = Empty
PROPERTY RefinesBlackboard

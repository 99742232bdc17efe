SPECIFICATION Spec
CONSTANTS
  Threads = {t1, t2}
  t1 = t1  t2 = t2  r1 = r1  r2 = r2  h1 = h1  h2 = h2  i1 = i1
  Attrs = {r1, r2, h1, h2, i1}
  AsValue = {h1, h2, i1}
  Hidden = {h1, h2}
  Users <- Apart
  Values = {v1, v2}
  Nodes = {n1, n2}
  Empty = Empty
INVARIANT Layout
PROPERTY RefinesBlackboard

SPECIFICATION Spec
CONSTANTS
  t1 = t1  t2 = t2  m1 = m1  m2 = m2  u1 = u1  i1 = i1  p1 = p1  v1 = v1  v2 = v2
  Threads = {t1, t2}
  Attrs = {u1, p1}
  AsValue = {}
  NoMerge = {u1}
  Process = {p1}
  Users <- Everyone
  MayEndInactive = {u1, p1}
  Values = {v1}
  ValueLists <- OneValue
  MaxDepth = 2
  Proc = Proc
  KeyAttr = KeyAttr
  None = None
PROPERTY RefinesStacks

SPECIFICATION Spec
CONSTANTS
  Threads = {t1, t2}
  Names <- MCNames
  Before <- MCBefore
  After <- MCAfter
  Copies = {1, 2}
  Null = Null
INVARIANT RegistrySound
PROPERTY RegistryProgress

SPECIFICATION FairSpec
CONSTANTS
  Lookups = {l1}
  Controls = {k1}
  Applies = {a1}
  Peeks = {g1}
  Previews = {}
  Conns = {c1, c2}
  Settings = {s1, s2}
  Reusable = TRUE
  MaxKeeps = 2
  NoOp = NoOp
  NoConn = NoConn
  NoSlot = NoSlot
INVARIANTS
  TypeOK
  WorksWithItsSettings
  OneOwner
  OneLiveSession
  KeptSessionHasItsOwnTimer
PROPERTY KeptSessionEnds

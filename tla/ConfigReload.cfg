SPECIFICATION FairSpec
CONSTANTS
  Jobs = {j1}
  Reloads = {r1}
  OneReloads = {o1, o2}
  Watcher = w
  Kinds = {"good", "absent", "broken"}
  Edits = {"put", "patch", "delete"}
  MaxVersion = 2
  MaxLoad = 3
  ChannelSize = 1
  NoOp = NoOp
  NoRow = NoRow
  Absent = Absent
  Mixed = Mixed
INVARIANTS
  SuccessIsTrue
PROPERTIES
  OneReloadsGoForward
  TurnComesBack
  FileChangeIsStored

SPECIFICATION EventfulSpec
CONSTANTS
  Jobs = {j1}
  Reads = {}
  Tries = {}
  Watcher = w
  NoOp = NoOp
PROPERTY QueuedReloadIsTaken

SPECIFICATION Spec
CONSTANTS
  Readers = {r1, f1}
  Fresh = {f1}
  Snmp = {r1}
  Refresher = refresher
  Removers = {"api", "watcher"}
  MaxVersion = 1
  MaxGen = 3
  NoOp = NoOp
  NoEntry = NoEntry
INVARIANTS
  EtagNamesOneSnapshot
  ServedBehindRefresher
PROPERTY FreshIsLive

SPECIFICATION Spec
CONSTANTS
  Scenarios <- All
  Kinds = {"once", "apply"}
  PoePort = 1
  MaxFaults = 0
PROPERTY ManagementAccessStays

SPECIFICATION Spec
CONSTANTS
  Scenarios <- All
  Kinds = {"once", "apply", "poe_on", "poe_off", "poe_reset"}
  PoePort = 1
  MaxFaults = 1
INVARIANT CleanApplyConverges
INVARIANT NothingToDoIsTrue
INVARIANT PortsStayInKnownVlans
PROPERTY UnmanagedPortsAreKept
PROPERTY CommunitiesKeepTheirEntries
PROPERTY DonePortHasPower
PROPERTY FailedValidationIsNotSaved
PROPERTY OperationEnds

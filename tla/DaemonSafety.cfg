SPECIFICATION Spec
CONSTANTS
  Controllers = {c1, c2}
  Definitions = {old, new}
  MaxLaunches = 3
  MaxRequests = 3
  MaxFaults = 1
SYMMETRY Alike
INVARIANTS
  TypeOK
  NamedOrGone
  SignalsAuthorised
  OwnGeneration
  KeepsItsChild
  RunsItsDefinition
PROPERTIES
  OwnersStopIsWhole

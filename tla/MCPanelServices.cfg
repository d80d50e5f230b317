SPECIFICATION Spec
CONSTANTS
  MaxRecords = 4
  Profiles = {p1, p2}
  NoProfile = NoProfile
  MaxIndex = 3
SYMMETRY Symmetry
INVARIANTS
  LastRecordKept
  RatesOfOneTunnel

SPECIFICATION Spec
CONSTANTS
  Locations = {l1}
  Choices = {c1, c2}
  None = None
  Reported = {"disabled", "connecting", "connected"}
  NmReports <- TwoNmReports
  Others = {"helper"}
  GivesUp = FALSE
SYMMETRY ChoiceSymmetry
INVARIANTS
  TypeOK
  OneCommand
PROPERTIES
  ProtonAfterRelease
  WireGuardAfterProton
  LateStartsNothing
  RecordedUnlessOvertaken
CHECK_DEADLOCK FALSE

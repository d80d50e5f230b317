SPECIFICATION Spec
CONSTANTS
  Locations = {l1}
  Choices = {c1}
  None = None
  Reported = {"disabled", "connecting", "connected", "failed"}
  NmReports <- FewNmReports
  Others = {"helper", "install"}
  GivesUp = TRUE
PROPERTIES
  OneConnectionAtATime
CHECK_DEADLOCK FALSE

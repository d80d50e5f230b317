SPECIFICATION LiveSpec
CONSTANTS
  Locations = {l1}
  Choices = {c1}
  None = None
  Reported = {"disabled", "connected"}
  NmReports <- TwoNmReports
  Others = {}
  GivesUp = FALSE
PROPERTIES
  NeverWedged
CHECK_DEADLOCK FALSE

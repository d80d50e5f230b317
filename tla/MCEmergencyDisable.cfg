SPECIFICATION CommandSpec
CONSTANTS
  eth = eth
  p1 = p1
  city = city
  Links = {eth}
  Profiles = {p1}
  HostnameProfiles = {p1}
  Targets = {city}
  CandidatesOf <- MCCandidates
  NoProfile = NoProfile
  NoTarget = NoTarget
INVARIANTS
  EmergencyComplete
  RecoverableUnlessLost
PROPERTIES
  TableOutlivesIntent

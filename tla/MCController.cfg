SPECIFICATION Spec
CONSTANTS
  eth = eth
  wlan = wlan
  p1 = p1
  p2 = p2
  city = city
  exact = exact
  Links = {eth, wlan}
  Profiles = {p1, p2}
  HostnameProfiles = {p1}
  Targets = {city, exact}
  CandidatesOf <- MCCandidates
  NoProfile = NoProfile
  NoTarget = NoTarget
INVARIANTS
  TypeOK
  DnsRecoverable
  SnapshotClean
  BootstrapTracked
  NoPendingCleanup
  RetryUnderBarrier
  AttemptConfined
  ConnectedAsIntended
  PauseResumes
  ConnectingIsScheduled
  EarlyBarrier
  OutputConfined
  GuestsConfined
PROPERTIES
  DirectOnlyByIntent
  DisconnectIsComplete
  IntentBehindBarrier
  ImplementsProtection

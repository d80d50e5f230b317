SPECIFICATION Spec
CONSTANTS
  c1 = c1
  c2 = c2
  s1 = s1
  Clients = {c1, c2, s1}
  Strangers = {s1}
  Nobody = Nobody
  Chunks <- SomeChunks
  RequestTimeout = 2
  MaxChunks = 2
  Backlog = 2
INVARIANTS
  DescriptorsClosed
  LoopHeldBriefly
  HandledAsSent

SPECIFICATION ApFairSpec
CONSTANTS
  Chans = {c1, c2}
  Environments = {{"drop"}, {"roam"}, {"ap"}}
  Peers = {p1, p2}
  Ids = {1, 2}
  None = None
INVARIANTS
  NoOops
  ContextsCounted
  Agreement
  StationsAgree
PROPERTIES
  AttemptsEnd
  RequestsEnd

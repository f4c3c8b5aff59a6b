SPECIFICATION FairStreamSpec
CONSTANTS
  c1 = c1
  c2 = c2
  p1 = p1
  p2 = p2
  Tasks = {c1, c2}
  MaxInFlight = 1
  Instances = {p1, p2}
  Deployments <- Either
  Clients = {TRUE, FALSE}
  MaxMsgs = 2
  Poison = {1}
  BatchSize = 1
  MaxFaults = 1
INVARIANTS
  NothingLost
  RepeatsOnlyLate
PROPERTY EventuallyHandled

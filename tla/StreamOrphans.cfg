SPECIFICATION FairStreamSpec
CONSTANTS
  c1 = c1
  c2 = c2
  p1 = p1
  p2 = p2
  Tasks = {c1, c2}
  MaxInFlight = 1
  Instances = {p1, p2}
  Deployments <- Apart
  Clients = {FALSE}
  MaxMsgs = 1
  Poison = {}
  BatchSize = 1
  MaxFaults = 1
PROPERTY OrphansHandled

SPECIFICATION WorkersSpec
CONSTANTS
  c1 = c1
  c2 = c2
  e1 = e1
  t1 = t1
  a1 = a1
  a2 = a2
  agentCh = agentCh
  userCh = userCh
  NoAgent = NoAgent
  Escalations = {e1}
  Threads = {t1}
  Agents = {a1, a2}
  Priorities = {1, 2}
  MaxNow = 4
  MaxFiles = 2
  Conns = {c1, c2}
  Channels = {agentCh, userCh}
  AgentChannel = agentCh
  Readers = {c1}
  MaxQueue = 2
  MaxEvents = 2
  Callers = {c1, c2}
  Workers = 3
  Clients = {c1, c2}
  CardTtl = 2
  NegativeTtl = 1
  PinTtl = 2
  MaxTime = 2
INVARIANTS
  NoSilentLoss
  InOrderOnce
  InjectionNeverAnswered
  AllOrNothing
  ResolverRestored
  NoChildLeft
  HandlerHasTool
PROPERTIES
  QueueDrains
  BreachStands
  PushedIsFiled
  RunnerEnds
  EveryExecuteReturns
  CardFresh
CHECK_DEADLOCK FALSE

SPECIFICATION FairPortalSpec
CONSTANTS
  e1 = e1
  e2 = e2
  t1 = t1
  t2 = t2
  a1 = a1
  a2 = a2
  NoAgent = NoAgent
  Escalations = {e1, e2}
  Threads = {t1, t2}
  Agents = {a1, a2}
INVARIANTS
  AtOnePlace
  AnswersAreTrue
PROPERTIES
  ImplementsLifecycle
  CallsReturn

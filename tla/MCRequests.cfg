SPECIFICATION Spec
CONSTANTS
  c1 = c1  c2 = c2  s1 = s1  s2 = s2  None = None
  Callers <- MCCallers
  Servers <- MCServers
  Sessions <- MCSessions
  MaxAsked = 3
INVARIANTS AnsweredOnce AnswersOwn
PROPERTIES RequestEnds
CHECK_DEADLOCK FALSE

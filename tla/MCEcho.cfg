SPECIFICATION EchoSpec
CONSTANTS
  c1 = c1  Nothing = Nothing
  Clients <- MCClients
  Addresses = 2
  Conns <- MCConns
  Tasks <- MCTasks
  Cap = 1
  Size = 3
INVARIANTS BytesKept ConnectHonest
PROPERTIES RoundTrips BothEnd
CHECK_DEADLOCK FALSE

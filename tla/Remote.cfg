SPECIFICATION FairSpec
CONSTANTS
  r1 = r1
  r2 = r2
  n1 = n1
  n2 = n2
  Locals = {h1}
  Remotes = {r1, r2}
  Nodes = {n1, n2}
  NodeOf <- OneNode
  Home = home
  Kinds = {"COUNTING", "BINARY"}
  MaxUnits = 2
  MaxCreates = 1
  MaxProxies = 2
  Faults = {"timeout", "restart", "delete"}
  MaxMishaps = 1
  MaxLater = 1
  IsrRelease = FALSE
  Server = server
  NULL = NULL
CHECK_DEADLOCK FALSE
INVARIANTS OneAnswerDue UnitsConserved ProxiesFollow
PROPERTIES RequestsEnd

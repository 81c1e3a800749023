SPECIFICATION FairSpec
CONSTANTS
  Nodes = {a, b}
  Budgets <- SmallBudgets
  Callers = {c, d}
  MaxInbound = 2
  MaxDrops = 1
  MaxBuilds = 2
  MaxServed = 1
CHECK_DEADLOCK FALSE
INVARIANTS NamesConverge MembersKnown AnswersMatch  
PROPERTIES TcpCallsReturn 

SPECIFICATION Spec
CONSTANTS
  x = x
  y = y
  Rule = {1, 2}
  Kind = {"error"}
  KeyOf <- OneKind
  App = {x, y}
  Project = {1}
  Name = {1, 2}
  Logged = x
  Open = {1}
  InfoDays = 1
  LogDays = 2
  MaxCalls = 3
  MaxClock = 2
  MaxFaults = 1
INVARIANTS RulesAreFresh CatalogIsKept OpensCountedOnce
CHECK_DEADLOCK FALSE

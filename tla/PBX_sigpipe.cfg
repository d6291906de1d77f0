SPECIFICATION Spec
CONSTANTS
  f4 = f4
  f5 = f5
  Ext = {f4, f5}
  Main = Main
  None = None
  Capacity = 1
  MaxHups = 0
INVARIANTS
  SurvivesBrokenConnections

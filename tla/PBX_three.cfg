SPECIFICATION Spec
CONSTANTS
  f4 = f4
  f5 = f5
  f6 = f6
  Ext = {f4, f5, f6}
  Main = Main
  None = None
  Capacity = 1
  MaxHups = 0
SYMMETRY Symmetry
CONSTRAINT FewPending
INVARIANTS
  CallSymmetry
PROPERTIES
  ImplementsExchange

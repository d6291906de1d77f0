SPECIFICATION TSpec
CONSTANTS
  f4 = f4
  f5 = f5
  Ext = {f4, f5}
  Main = Main
  None = None
  Capacity = 3
  MaxHups = 0
  MaxUnsent = 2
SYMMETRY Symmetry
INVARIANTS
  NoUnexpectedState
  ChatOnlyInACall

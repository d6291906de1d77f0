SPECIFICATION FairSpec
CONSTANTS
  f4 = f4
  f5 = f5
  Ext = {f4, f5}
  Main = Main
  None = None
  Capacity = 1
  MaxHups = 2
INVARIANTS
  TypeOK
  MutexDiscipline
  RegisteredIffServed
  ClientsAreTold
  FreshConnectionSilent
PROPERTIES
  EveryCallAnswered
  MutexReleased
  EveryCallServed

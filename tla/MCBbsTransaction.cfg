CONSTANTS
  Count = 3
  NoOrder = NoOrder
  Tables <- MCTables
  Orders <- MCOrders
  Oddities <- MCOddities
  MaxMeddles = 1

SPECIFICATION Spec

INVARIANTS
  TypeOK
  BootsSelected
  RollbackReaches
PROPERTY
  AuthorizedWrites
  ReorderIsAtomic

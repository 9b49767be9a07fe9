CONSTANTS
  Count = 3
  NoOrder = NoOrder
  Tables <- MCTables
  Orders <- MCOrders

SPECIFICATION Spec

INVARIANTS
  PlanIsRanking
  PlanDense
  OrderCoversPlan

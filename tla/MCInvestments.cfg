SPECIFICATION Spec
CONSTANTS
  Dates = {1, 2}
  Trades <- UnevenTrades
  SellQuantities = {2}
  Methods = {"fifo", "lifo", "average_cost", "specific_lot"}
  MaxOps = 5
CHECK_DEADLOCK FALSE
INVARIANTS PositionIsSound ProjectionIsHistory
PROPERTIES HistoryBeforeStands

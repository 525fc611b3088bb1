SPECIFICATION FlowSpec
CONSTANTS
  f1 = f1
  f2 = f2
  f3 = f3
  Flows = {f1, f2, f3}
  NoFlow = NoFlow
  Ways = 2
  Hash <- MCHash
  Pools <- MCPools
INVARIANTS Proportional DebtBounded

SPECIFICATION SpecHang
CONSTANTS
  Users = {u1, u2}
  Calls <- MCTxCalls
  MaxCalls = 2
PROPERTY ClosedIsKilled

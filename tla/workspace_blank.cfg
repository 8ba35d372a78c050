SPECIFICATION Spec
CONSTANTS
  u1 = u1
  u2 = u2
  u3 = u3
  None = None
  Use = {u1, u2}
  SideEffecting = {u1}
  Published = 2
  Budget <- OneHang
CHECK_DEADLOCK FALSE
INVARIANTS RestoredBeforeWork

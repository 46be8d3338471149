\* Two openings of one drawer at once.
SPECIFICATION Spec
CONSTANTS
  Requests = {r1, r2}
  Nobody = Nobody
  None = None
  till = till
  reserve = reserve
  Drawers = {till, reserve}
  Banks = {bank}
  Rank <- ByName
  Opening <- FullOpening
  asha = asha
  ravi = ravi
  Users = {asha, ravi}
  Amounts = {1}
  Counts = {2}
  Rupee = 2
  Simultaneous = FALSE
  MaxClock = 3
  Workloads <- OpeningsOnly
SYMMETRY Symmetric
INVARIANTS OneOpenSession
\* The bounded workload ends.
CHECK_DEADLOCK FALSE

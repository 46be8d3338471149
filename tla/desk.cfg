\* Whole shifts one call at a time, and any two calls at once.
SPECIFICATION Spec
CONSTANTS
  Requests = {r1, r2, r3}
  Nobody = Nobody
  None = None
  till = till
  reserve = reserve
  Drawers = {till, reserve}
  Banks = {bank}
  Rank <- ByName
  Opening <- FullOpening
  asha = asha
  ravi = ravi
  Users = {asha, ravi}
  Amounts = {1, 3}
  Counts = {0, 2, 4, 6}
  Rupee = 2
  Simultaneous = FALSE
  MaxClock = 6
  Workloads <- Desks
SYMMETRY Symmetric
INVARIANTS ShiftsAgree NoWaitCycle
PROPERTIES OpeningCountedOnce ClosedForGood SourceCovered
\* The bounded workload ends.
CHECK_DEADLOCK FALSE

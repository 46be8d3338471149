\* A payout and the reversal of an earlier one, at the same time.
SPECIFICATION Spec
CONSTANTS
  Requests = {r1, r2, r3}
  Nobody = Nobody
  None = None
  p1 = p1
  bank = bank
  drawer = drawer
  wallet = wallet
  Payables = {p1}
  Accounts = {bank}
  CashAccounts = {}
  Original <- OneOriginal
  Expected <- OneExpected
  Opening <- AccountOpening
  Charge <- NoCharge
  Amounts = {1, 2}
  DueOn <- DueOf
  Rupee = 2
  Workload = {"pay", "reversePayment"}
  MaxInFlight = 2
  Apart = {}
SYMMETRY Symmetric
INVARIANTS PaidIsBacked
\* The bounded workload ends.
CHECK_DEADLOCK FALSE

\* Whatever two concurrent calls do, both are answered.
SPECIFICATION FairSpec
CONSTANTS
  Requests = {r1, r2, r3}
  Nobody = Nobody
  None = None
  p1 = p1
  bank = bank
  drawer = drawer
  wallet = wallet
  Payables = {p1}
  Accounts = {bank}
  CashAccounts = {}
  Original <- OneOriginal
  Expected <- OneExpected
  Opening <- AccountOpening
  Charge <- NoCharge
  Amounts = {1, 2}
  DueOn <- DueOf
  Rupee = 2
  Workload = {"pay", "payout", "match", "unmatch", "apply", "cancel", "reverseSource"}
  MaxInFlight = 2
  Apart = {{"cancel", "reverseSource"}}
INVARIANTS VoidIsUntouched
PROPERTIES RequestsAnswered DuesAreObligations
\* The bounded workload ends.
CHECK_DEADLOCK FALSE

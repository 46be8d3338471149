\* Payouts, matches, advances, cancellations, receipts and reversals over two
\* swipes and a charged wallet, two calls at a time; cancel() reads the
\* settlement without its lock, so no receipt runs beside it.
SPECIFICATION Spec
CONSTANTS
  Requests = {r1, r2, r3}
  Nobody = Nobody
  None = None
  p1 = p1
  bank = bank
  drawer = drawer
  wallet = wallet
  Payables = {p1, p2}
  Accounts = {wallet}
  CashAccounts = {}
  Original <- OneOriginal
  Expected <- OneExpected
  Opening <- AccountOpening
  Charge <- WalletCharge
  Amounts = {1, 2}
  DueOn <- DueOf
  Rupee = 2
  Workload = {"pay", "payout", "match", "apply", "unapply", "cancel", "reverseEntry", "receive", "reverseReceipt"}
  MaxInFlight = 2
  Apart = {{"cancel", "receive"}, {"cancel", "reverseReceipt"}}
SYMMETRY SymmetricSwipes
INVARIANTS PaidIsBacked ControlAccounts PayOutUsedOnce LockedViewsFresh NoWaitCycle NoOverdraft DueReportsAgree
\* The bounded workload ends.
CHECK_DEADLOCK FALSE

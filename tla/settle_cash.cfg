\* Every operation, one at a time and up to four of them, with fractions of a
\* rupee and a drawer.
SPECIFICATION Spec
CONSTANTS
  Requests = {r1, r2, r3, r4}
  Nobody = Nobody
  None = None
  p1 = p1
  bank = bank
  drawer = drawer
  wallet = wallet
  Payables = {p1}
  Accounts = {drawer, wallet}
  CashAccounts = {drawer}
  Original <- FractionalOriginal
  Expected <- FractionalExpected
  Opening <- FullOpening
  Charge <- WalletCharge
  Amounts = {1, 4}
  DueOn <- DueOf
  Rupee = 4
  Workload = {"pay", "payout", "match", "apply", "unapply", "cancel", "reverseSource", "reversePayment", "reverseEntry", "receive", "reverseReceipt"}
  MaxInFlight = 1
  Apart = {}
SYMMETRY Symmetric
INVARIANTS TypeOK Conservation BooksAgree AdviceHolds
PROPERTIES RoundingSettles
\* The bounded workload ends.
CHECK_DEADLOCK FALSE

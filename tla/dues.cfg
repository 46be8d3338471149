SPECIFICATION Spec
CONSTANTS
  Requests = {r1, r2, r3}
  Nobody = Nobody
  None = None
  c1 = c1
  d1 = d1
  c2 = c2
  Debts = {d1}
  Owing <- OwingOf
  FromAccount = {d1}
  DueDay <- DueLater
  Cases = {c1, c2}
  CardOf <- CardsOf
  ById <- IdsAgainstAges
  Due <- DueOf
  Fee <- FeeOf
  PayoutCharge = 1
  GatewayRate = 20
  Opening = 5
  Amounts = {1,3}
  MaxDay = 2
  Workloads <- AllWorkloads
SYMMETRY Symmetric
INVARIANTS CasesAgree NoWaitCycle ReportsAgree
PROPERTIES NoCreditWhileOwing DuesAreObligations
\* The bounded workload ends.
CHECK_DEADLOCK FALSE

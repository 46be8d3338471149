\* Accounts, settings and users, a call or two at a time.
SPECIFICATION Spec
CONSTANTS
  Requests = {r1, r2, r3}
  None = None
  bank = bank
  till = till
  card = card
  spare = spare
  wallet = wallet
  spareWallet = spareWallet
  pay = pay
  sparePay = sparePay
  regular = regular
  business = business
  walkIn = walkIn
  term = term
  network = network
  category = category
  gate = gate
  owner = owner
  admin = admin
  clerk = clerk
  Accounts = {bank, till, card, spare, wallet, spareWallet}
  Providers = {pay, sparePay}
  WalletOf <- Wallets
  FirstAccounts <- Started
  FirstProviders = {pay}
  Names = {n1, n2}
  Money = {0, 1, 3}
  Amounts = {0, 1, 2, 3}
  SlabSets <- Slabs
  Items = {regular, business, walkIn, term, network, category, gate}
  Kind <- Sorts
  FirstItems = {regular, business}
  Values = {v1, v2}
  Scopes = {None, s1}
  Users = {owner, admin, clerk}
  FirstUsers <- Team
  Loads <- Offices
SYMMETRY Symmetric
INVARIANTS AuditTrue  SettingsStand RulesDecide
PROPERTIES ReconciliationExplained RatesStand OwnersByOwners
\* The bounded workload ends.
CHECK_DEADLOCK FALSE

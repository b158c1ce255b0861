SPECIFICATION FutuSpec
CONSTANTS
  o1 = o1
  o2 = o2
  o3 = o3
  hk = hk
  us = us
  a1 = a1
  a2 = a2
  Orders = {o1, o2, o3}
  Submissions <- EntryAndExits
  VenueOf <- OrderVenue
  Unmapped = {o3}
  Listed <- TwoAccounts
  MaxQuantity = 2
  Placeholder = Placeholder
  NoAccount = NoAccount
  Configured = NoAccount
  Real = FALSE
  MaxCommands = 1
  MaxFaults = 1
  MaxDrops = 1
  CtxKeys = {k1, k2}
  Threads = {t1, t2}
  Contexts = {0, 1}
  NoContext = NoContext
INVARIANTS ContextsAccounted VerdictsAreTrue TradesAccounted
PROPERTIES ImplementsLifecycle VerdictComes EndIsLearned DisconnectIsActedOn
CHECK_DEADLOCK FALSE

SPECIFICATION SessionSpec
CONSTANTS
  Emails = {e1, e2}
  Tabs = {t1, t2}
  b1 = b1
  Browsers = {b1}
  BrowserOf <- OneBrowser
  MAX_SIMS_PER_USER = 1
  MaxRows = 2
  MaxReboots = 1
  MaxForms = 2
INVARIANTS
  TokensNameAccounts
  EmailsUnique
  PageShowsTheSession
SYMMETRY Symmetry
CHECK_DEADLOCK FALSE

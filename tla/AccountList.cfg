SPECIFICATION Spec
CONSTANTS
  Accounts = {a1, a2, a3}
  NoAccount = NoAccount
  MaxPosted = 2
  MaxRestarts = 1
INVARIANTS
  TypeOK
  RowsMatch
  DefaultShown
PROPERTIES
  MainPageComes
CHECK_DEADLOCK FALSE

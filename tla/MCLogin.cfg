SPECIFICATION Spec
CONSTANTS
  a1 = a1
  a2 = a2
  Accounts <- MCAccounts
  NoAccount = NoAccount
  NoVault = NoVault
  MaxPasswords = 2
  MaxLocal = 2
INVARIANT SyncKeysAreTheAccounts
INVARIANT LocalDataReadable
PROPERTY ReloginOpensStore

SPECIFICATION AccountsSpec
CONSTANTS
  Username = {ann, bob}
  Password = {secret, guess}
  Request = {r1, r2, r3}
  MaxAccounts = 2
  MaxTokens = 2
SYMMETRY Symmetry
INVARIANT AccountsTypeOK
INVARIANT OneAccountPerUsername
INVARIANT AdmittedUsersAreGenuine
INVARIANT RefusalsHaveAReason

SPECIFICATION Spec
CONSTANTS
  x = x
  y = y
  o1 = o1
  o2 = o2
  o3 = o3
  o4 = o4
  Account <- Accounts
  Output <- Outputs
  Owner <- Owners
  Sats <- Worths
  Transfers <- MCTransfers
INVARIANT
  PayloadsAreOfTheTransaction

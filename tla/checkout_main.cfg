SPECIFICATION Spec
CONSTRAINTS AlikeInOrder CardsBare
CONSTANTS
  a1 = a1  a2 = a2
  Attempts = {a1, a2}
  Keys = {k1}
  Recurring = {sub}
  Sales = {sale}
  Hosted = {page}
  Forms = {form}
  Lasting = {sale, page}
  None = None
  MaxFaults = 1
INVARIANTS
  SucceededIsServed
  VaultInStep
PROPERTIES
  PaidIsDelivered
CHECK_DEADLOCK FALSE

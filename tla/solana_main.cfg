SPECIFICATION Spec
CONSTANTS
  Sessions = {s1, s2}
  Refs = {r1, r2}
  Sigs = {g1}
  Wallets = {a1}
  usdc = usdc  SOL = SOL
  Tokens = {SOL, usdc}
  TokenOf <- AllSOL
  SigLimit = 1
  Verifier = TRUE
  Quotes = {1, 2}
  Amounts = {1}
  Workers = {w1, w2}
  None = None
  MaxFaults = 1
INVARIANTS
  SucceededByOwnPayment
  SucceededIsPaid
  ConsumedIsRecorded
CONSTRAINT TwoOffers
SYMMETRY Symmetry
CHECK_DEADLOCK FALSE

SPECIFICATION Spec
CONSTANTS
  Sessions = {s1}
  Refs = {r1}
  Sigs = {g1, g2}
  Wallets = {a1}
  usdc = usdc  SOL = SOL
  Tokens = {SOL, usdc}
  TokenOf <- AllSOL
  SigLimit = 1
  Verifier = TRUE
  Quotes = {1}
  Amounts = {1}
  Workers = {w1, w2}
  None = None
  MaxFaults = 1
PROPERTIES
  PaidIsSettled
CHECK_DEADLOCK FALSE

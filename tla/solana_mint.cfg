SPECIFICATION Spec
CONSTANTS
  Sessions = {s1}
  Refs = {r1}
  Sigs = {g1}
  Wallets = {a1}
  usdc = usdc  SOL = SOL
  Tokens = {SOL, usdc}
  TokenOf <- AllUSDC
  SigLimit = 1
  Verifier = TRUE
  Quotes = {1}
  Amounts = {1}
  Workers = {w1}
  None = None
  MaxFaults = 0
INVARIANTS
  TokenIsVerified
CHECK_DEADLOCK FALSE

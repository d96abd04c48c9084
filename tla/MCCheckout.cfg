CONSTANTS
  a1 = a1
  a2 = a2
  a3 = a3
  k1 = k1
  k2 = k2
  p1 = p1
  p2 = p2
  u1 = u1
  u2 = u2
  None = None
  Attempt <- MCAttempt
  Key = {k1, k2}
  Product = {p1, p2}
  Buyer = {u1, u2}
  Call <- MCCalls
  Price <- MCPrice
  InitialStock <- MCStock
  InitialBalance <- MCBalance
SPECIFICATION FairSpec
INVARIANTS
  LedgerBalanced
  RowsTogether
  OneOrderPerKey
  AnswersTrue
PROPERTIES
  ImplementsAtomic
  EveryAttemptAnswered

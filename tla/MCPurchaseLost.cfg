\* The credit ledger: a paid purchase that never reaches the ledger.
CONSTANTS
  r1 = r1  r2 = r2  r3 = r3  p1 = p1  p2 = p2
  grant = grant
  buyA = buyA  buyB = buyB  refundA = refundA  disputeA = disputeA
  payA = payA  payB = payB
  None = None
  Requests   = {r1, r2}
  Properties = {p1, p2}
  Grants     = {grant}
  Purchases  = {buyA, buyB}
  Reversals  = {refundA, disputeA}
  Payments   = {payA, payB}
  PaymentOf  <- MCPaymentOf
  Quantity   <- MCQuantity
  Amounts    = {1, 3}
  MaxCrashes = 1

SPECIFICATION FairSpec

PROPERTIES
  PurchasesRetained

\* The system stops when every event, grant and request is used up.
CHECK_DEADLOCK FALSE

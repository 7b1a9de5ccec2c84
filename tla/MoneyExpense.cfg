SPECIFICATION FairPaymentSpec
CONSTANTS
  Wallets <- SmallWallets
  Prices <- SmallPrices
INVARIANTS
  PaymentInvariant
  NoNeedlessChange
PROPERTIES
  PaymentEnds
CHECK_DEADLOCK FALSE

\* Two wallets, one product with one price, two requests at a time, as many
\* connections, four requests in all, two seconds, one failure.
CONSTANTS
  wallet1 = wallet1
  wallet2 = wallet2
  product1 = product1
  price1 = price1
  amount1 = amount1
  amount2 = amount2
  request1 = request1
  request2 = request2
  Wallet = {wallet1, wallet2}
  Product = {product1}
  Price = {price1}
  ProductOf <- OnlyProduct
  Amount = {amount1, amount2}
  Request = {request1, request2}
  Pool = 2
  MaxRequests = 4
  MaxTime = 1
  MaxFailures = 1
SPECIFICATION CatalogFairSpec
INVARIANTS
  NothingDangles
  WalletEventsCurrent
  PriceEventsCurrent
PROPERTIES
  EventuallyAnswered
CHECK_DEADLOCK FALSE

\* Two records per topic, one failure per worker, one price that cannot be
\* sent.
CONSTANTS
  price1 = price1
  price2 = price2
  wallet1 = wallet1
  wallet2 = wallet2
  product = product
  PriceEvent = {price1, price2}
  ProductEvent <- MCProductEvent
  Entry <- MCEntry
  Unsendable = {price2}
  MaxTopic = 2
  MaxCrash = 1
SPECIFICATION FairSpec
INVARIANTS
  ReceiptIsOwn
  SubmittedInOrder
  CaughtUpMeansCurrent
PROPERTIES
  ProductEventuallyPassed
CHECK_DEADLOCK FALSE

\* A price is lost without any failure: only the competition for a nonce.
CONSTANTS
  price1 = price1
  price2 = price2
  wallet1 = wallet1
  wallet2 = wallet2
  product = product
  PriceEvent = {price1}
  ProductEvent <- MCProductEvent
  Entry <- MCEntry
  Unsendable = {}
  MaxTopic = 1
  MaxCrash = 0
SPECIFICATION FairSpec
PROPERTIES
  PriceEventuallyApplied
CHECK_DEADLOCK FALSE

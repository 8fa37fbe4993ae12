\* Three records of two purchases, one failure.
CONSTANTS
  c = c
  invitation = invitation
  role = role
  Event <- MCEvent
  Customer <- MCCustomer
  Buyer <- MCBuyer
  Invite <- MCInvite
  MaxTopic = 3
  MaxCrash = 1
SPECIFICATION FairSpec
INVARIANTS
  NotificationsBounded
  ConfirmedHasAccess
  TokenLostByFailureOnly
PROPERTIES
  IsAtLeastOnce
  EventuallyPassed
CHECK_DEADLOCK FALSE

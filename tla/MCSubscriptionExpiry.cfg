\* Two balances, a cancel request, a failed check, a failed request.
CONSTANTS
  balance1 = balance1
  balance2 = balance2
  Balance <- MCBalance
  End <- MCEnd
  request1 = request1
  Request = {request1}
  Interval = 1
  Cooldown = 2
  Window = 2
  MaxAttempts = 2
  MaxTime = 4
  MaxFailure = 1
SPECIFICATION FairSpec
INVARIANTS
  NoticesBounded
  CooldownKept
  ExpiredWasTold
  CancelledHasEvent
PROPERTIES
  EventuallyTold
CHECK_DEADLOCK FALSE

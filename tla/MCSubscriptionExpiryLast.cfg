\* The proportions of docker-compose.yaml: a window of two cooldowns, two attempts.
CONSTANTS
  balance1 = balance1
  balance2 = balance2
  request1 = request1
  Balance = {balance1}
  End <- MCOneEnd
  Request = {}
  Interval = 1
  Cooldown = 2
  Window = 4
  MaxAttempts = 2
  MaxTime = 6
  MaxFailure = 0
SPECIFICATION Spec
INVARIANTS
  LastAttemptExpires
CHECK_DEADLOCK FALSE

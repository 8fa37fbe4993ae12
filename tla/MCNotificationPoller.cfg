\* Five rows of three notices: two can be sent, two cannot, one goes to a channel
\* the client does not know.  More than a batch; two attempts per row and two
\* failures.
CONSTANTS
  bought = bought
  renewed = renewed
  lapsed = lapsed
  Notice = {bought, renewed, lapsed}
  TypeOf <- TypeOfNotices
  MediaOf <- MediaOfNotices
  Configured = {"discord", "email"}
  Reachable = {bought, renewed}
  Mailable = {bought}
  BatchSize = 2
  MaxRetries = 2
  MaxFailures = 2
SPECIFICATION FairSpec
INVARIANTS
  CopiesBounded
  CompletedUnlessUnknown
  GivenUpForCause
PROPERTIES
  IsAtLeastOnce
  EventuallySettled
CHECK_DEADLOCK FALSE

\* The poller as deployed: a Discord client that is never started knows no
\* channel.
CONSTANTS
  bought = bought
  renewed = renewed
  lapsed = lapsed
  Notice = {bought}
  TypeOf <- TypeOfNotices
  MediaOf <- MediaOfNotices
  Configured = {"discord", "email"}
  Reachable = {}
  Mailable = {}
  BatchSize = 100
  MaxRetries = 3
  MaxFailures = 0
SPECIFICATION Spec
INVARIANT
  CompletedWasDelivered
CHECK_DEADLOCK FALSE

\* Two checkouts of one user, two webhook requests at a time, one cancel
\* request at a time, one failure.
CONSTANTS
  sub1 = sub1
  sub2 = sub2
  Sub = {sub1, sub2}
  hook1 = hook1
  hook2 = hook2
  Delivery = {hook1, hook2}
  cancel1 = cancel1
  Cancel = {cancel1}
  MaxFailures = 1
SPECIFICATION FairSpec
INVARIANTS
  AnnouncedTruly
  TierFollowsBilling
  SettledAgrees
PROPERTIES
  EventuallyAgrees
CHECK_DEADLOCK FALSE

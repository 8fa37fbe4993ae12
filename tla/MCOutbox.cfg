\* Three events, one of which no deserialiser accepts, batches of two, two
\* seconds, two failures.
CONSTANTS
  event1 = event1
  event2 = event2
  unknown = unknown
  Event <- MCEvent
  Unparseable <- MCUnparseable
  BatchSize = 2
  MaxTime = 1
  MaxFailures = 2
SPECIFICATION FairSpec
INVARIANTS
  OnlyCommittedPublished
  DuplicatesBoundedByFailures
PROPERTIES
  IsAtLeastOnce
  EventuallyCompleted
CHECK_DEADLOCK FALSE

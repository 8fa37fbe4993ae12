\* Two payments, two crashes, four blocks after the first, a window of two
\* blocks so that one scan needs several ranges.
CONSTANTS
  payment1 = payment1
  payment2 = payment2
  Payment <- MCPayment
  Window = 2
  MaxBlock = 5
  MaxCrash = 2
SPECIFICATION FairSpec
INVARIANTS
  NoPaymentLost
  RowsMatchEvents
  DuplicatesBoundedByCrashes
PROPERTIES
  IsAtLeastOnce
  EventuallyRecorded
CHECK_DEADLOCK FALSE

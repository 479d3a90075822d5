\* Three requests about a run that waits for an approval, one of them sent twice.
SPECIFICATION LocksSpec
CONSTANTS
  first = first
  second = second
  third = third
  t1 = t1
  t2 = t2
  t3 = t3
  t4 = t4
  Keys = {first, second, third}
  Tx = {t1, t2, t3, t4}
  Key <- FirstTwice
  Nobody = Nobody
  MaxApprovals = 2
INVARIANTS
  LocksTypeOK
  OpenWhileWaiting
  DoneOnce
  WaitsAreShort
PROPERTIES
  ActsAsOneStep
  AllAnswered
\* Once every request has been sent and answered nothing is left to do.
CHECK_DEADLOCK FALSE

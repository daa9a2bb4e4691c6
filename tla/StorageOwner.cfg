CONSTANTS
  main = main
  control = control
  worker = worker
  Nobody = Nobody
  Tasks <- MCTasks
  Calls <- MCCalls
  MaxToken = 4
  WaitTicks = 2
SPECIFICATION OwnerFairSpec
INVARIANTS ReleaseSucceeds
PROPERTIES ReservationEnds CallReturns ImplementsExclusiveOwner

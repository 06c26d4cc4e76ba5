CONSTANTS
  Lines = {0, 1, 15}
  TicksPerSwitch = 2
  TailTicks = 1
  MaxPid = 2
  Readers = {1}
  MaxBuffers = 2
SPECIFICATION FairSpec
INVARIANTS TypeOK CriticalAlone StackBounded NoStaleRegistration SpinnerRegistered
PROPERTIES KeyKept ReadReturns RequestsServed
CHECK_DEADLOCK FALSE

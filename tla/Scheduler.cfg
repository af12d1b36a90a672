CONSTANTS
  Service = {s1, s2}
  Caller = {c1, c2}
  Main = main
  None = None
  Period = 1
  MaxTime = 1
  MaxCallbacks = 2
SPECIFICATION SSpec
INVARIANTS STypeOK ServicingExact
PROPERTIES CallbacksServed ShutdownEnds DueTaskTaken
CHECK_DEADLOCK FALSE

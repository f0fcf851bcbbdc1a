CONSTANTS
  Goroutines = {"hub", "poll", "pump", "status", "tunnel"}
  Runs <- RunsAll
SPECIFICATION Spec
INVARIANT NoDeadlock

SPECIFICATION LifeSpec
INVARIANTS LifeTypeOK CleanExit ExitCodesMean MutexOwner
PROPERTIES SigintStopsMonitors ShutdownCompletes CloseEndsProcess

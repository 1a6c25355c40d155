CONSTANT MaxSignals = 1
SPECIFICATION LifecycleSpec
PROPERTY GracefulShutdown

CONSTANT MaxSignals = 1
SPECIFICATION LifecycleSpec
INVARIANT StopsLiving

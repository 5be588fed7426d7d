SPECIFICATION LifecycleSpec
CONSTANT Client = {r1}
INVARIANT AcceptedAreAnswered
CHECK_DEADLOCK FALSE

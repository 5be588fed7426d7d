SPECIFICATION LifecycleFairSpec
CONSTANT Client = {r1, r2, r3}
INVARIANT WaiterDrainsFirst
PROPERTY SignalStops
CHECK_DEADLOCK FALSE

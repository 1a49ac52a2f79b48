\* At most two 1101-triggered passes queue behind the one that holds the lock.
CONSTANT MaxSpawned = 2
SPECIFICATION Spec
INVARIANTS TypeOK NoOrdersWhileUpstreamDown
PROPERTIES DropClosesGate GateReopens

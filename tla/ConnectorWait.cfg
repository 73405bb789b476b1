\* Threads of the connector
\* A process that is over takes no step: deadlock is not an error.
SPECIFICATION Spec
CONSTANT MaxSends = 4
CHECK_DEADLOCK FALSE
INVARIANT WaitWaits

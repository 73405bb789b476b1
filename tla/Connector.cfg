\* Threads of the connector; the ping thread may sleep for ever unless a property says otherwise.
\* A process that is over takes no step: deadlock is not an error.
SPECIFICATION Spec
CONSTANT MaxSends = 4
CHECK_DEADLOCK FALSE
INVARIANTS
  TypeOK
  ConnectionNotTorn
  FlagAtRest
PROPERTIES
  StopIsHeeded
  HandlersFinish
  LostSessionEndsProcess

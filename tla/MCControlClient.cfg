CONSTANTS
  Actuators <- MCActuators
  DISCOVERY_MAX_RETRIES = 2
  MaxLate = 1
  CalmLevel <- MCCalmLevel
SPECIFICATION Spec
INVARIANT BeliefTrue
PROPERTIES OwnMeasures StopEnds Converges
CHECK_DEADLOCK FALSE

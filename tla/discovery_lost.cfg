\* The periods of the code, windows are lost, never two in a row.
SPECIFICATION Spec
CONSTANTS
  Every = 10
  Round = 3
  TTL = 15
  MaxMissed = 1
INVARIANT NoFalseOffline

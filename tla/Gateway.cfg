SPECIFICATION Spec
CONSTANTS
    Request <- MCRequest
    MaxAttempts = 3
    MaxFaults = 2
    MaxOverwrites = 1
CHECK_DEADLOCK FALSE
CONSTRAINT MCOneTable
INVARIANT OncePerRequest
INVARIANT RefusedHasNoEffect
INVARIANT RepeatedIsAcknowledged

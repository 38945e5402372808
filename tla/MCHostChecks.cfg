SPECIFICATION Spec
CONSTANTS
  Checks <- Registered
  Numbers <- SomeNumbers
  Values <- SomeValues
  Modes <- SomeModes
INVARIANTS PassIsEarned FailureIsEarned

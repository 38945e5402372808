SPECIFICATION Spec
CONSTANTS
  Checks <- Gatekeepers
  Numbers <- SomeNumbers
  Values <- SomeValues
  Modes <- SomeModes
INVARIANT GatekeeperAdmitsWritable

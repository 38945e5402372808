SPECIFICATION Spec
CONSTANTS
  Registries <- MCRegistries
  MaxExecutions = 3
INVARIANTS TypeOK CleanupVerdict RestoresAllButItsOwn QuietExecutionRepairs PassesOnOwnCluster
CHECK_DEADLOCK FALSE

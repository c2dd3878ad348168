SPECIFICATION SettledSpec
CONSTANTS
  s1 = s1
  s2 = s2
  w1 = w1
  w2 = w2
  w3 = w3
  w4 = w4
  w5 = w5
  Nil = Nil
  Schedules = {s1}
  SecretNames = {s1}
  Workloads = {w1}
  Kind <- OneCronJob
  SecretOf <- OwnSecret
  TargetRefs <- TargetsOne
  OwnerValues <- MCOwnerValues
  NodeLabels <- DiskLabel
  LabelValues <- DiskValues
  SleepReplicas = 0
  MaxUid = 1
  MaxLag = 0
INVARIANTS
  CheckpointMeansAsleep

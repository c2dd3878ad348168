SPECIFICATION WetSpec
CONSTANTS
  s1 = s1
  s2 = s2
  w1 = w1
  w2 = w2
  w3 = w3
  w4 = w4
  w5 = w5
  Nil = Nil
  Schedules = {s1, s2}
  SecretNames = {s1}
  Workloads = {w1, w2}
  Kind <- DaemonSetAndDeployment
  SecretOf <- SharedSecret
  TargetRefs <- TargetsOverlap
  OwnerValues <- MCConstantOwner
  NodeLabels <- DiskLabel
  LabelValues <- DiskValues
  SleepReplicas = 1
  MaxUid = 1
  MaxLag = 1
INVARIANTS
  TypeOK
  PassInv
  WakePassRestores
PROPERTY
  ImplementsExactRestore

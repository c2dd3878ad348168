SPECIFICATION Spec
CONSTANTS
  Nil = Nil
  Refs <- MCRefs
  Registered <- MCRegistered
  KnownZones = {"UTC"}
  Proposals <- AllSpecs
  Versions <- MCVersions
  Deployed <- MCDeployed
  MaxChanges = 3
  MaxLag = 1
INVARIANTS
  TypeOK
  InForce
  GaugesCount
  AdmittedSpecsEvaluate
  Inv
PROPERTIES
  LeavesOthersAlone
  PickedUp

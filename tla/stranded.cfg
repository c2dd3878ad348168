SPECIFICATION Spec
CONSTANTS
  Nil = Nil
  Refs <- MCRefs
  Registered <- MCRegistered
  KnownZones = {"UTC"}
  Proposals <- Good
  Versions <- OneVersion
  Deployed <- AllDeployed
  MaxChanges = 2
  MaxLag = 1
INVARIANT
  NothingStranded

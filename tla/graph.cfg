CONSTANTS
  Nil = Nil
  Identity <- Ids
  Catalogue <- MCCatalogue
  Manifests <- MCManifests
SPECIFICATION Spec
CHECK_DEADLOCK FALSE
INVARIANTS GraphTypeOK ReachedIsClosure AcceptedIsAGraph CyclesAreReal NeverTwiceOnThePath ZoneIsWhereTheFileLies AuditAgrees

CONSTANTS
  t1 = t1
  t2 = t2
  d1 = d1
  d2 = d2
  p1 = p1
  p2 = p2
  Launches = {p1, p2}
  Tasks = {t1, t2}
  Paths = {e1}
  Outs <- SomeOuts
  Versions <- SomeVersions
  Digests = {d1, d2}
  BaseArtifact <- SomeBase
  MaxEdits = 1
SPECIFICATION FairSpec
INVARIANTS VMIsHeld ReturnedIsBound SuccessIsClean AcceptedIsReturned
PROPERTIES LaunchEnds
CHECK_DEADLOCK FALSE

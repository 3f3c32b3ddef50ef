\* One command at a time; it may fail or die anywhere, an append may be cut
\* short; approvals and hand edits under it, except between validating a file
\* and the last look at its text.
SPECIFICATION Spec
CONSTANTS
  i1 = i1  c1 = c1  r1 = r1  r2 = r2  a1 = a1  a2 = a2
  pairwise = pairwise  nonPairwise = nonPairwise  floating = floating
  cover = cover  stamped = stamped  unstamped = unstamped
  e1 = e1  edge = edge
  None = None
  Torn = Torn
  Damaged = Damaged
  Fragment = Fragment
  Policy = Policy
  Ids = {i1}
  Clusters = {c1}
  Bodies <- MCBodies
  WellFormed <- MCBodies
  NonPairwise <- MCNonPairwise
  BoundaryRequired <- MCBoundaryRequired
  Reliant <- MCReliant
  Evidence = {e1}
  Edges = {edge}
  Links <- MCLinks
  EdgeOf <- MCEdgeOf
  Grounds <- MoreGrounds
  PolicyTexts = {stamped, unstamped}
  Stamped = {stamped}
  Reviewers = {r1, r2}
  Actors = {a1}
  ArtifactSets <- OneSet
  Approvable <- OneApprover
  Editable <- MoreEdits
  EditSteps <- OneWindow
  FailPoints <- AllFaults
  CrashPoints <- AllFaults
  MaxRulings = 2
  MaxReviews = 3
INVARIANTS ReceiptProvenanced ReceiptLogged StandingMeansGrounded
PROPERTIES MintedOnLastRuling
\* The bounds on the trails stop the instance.
CHECK_DEADLOCK FALSE

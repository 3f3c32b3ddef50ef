\* Two commands and an editor at once; appends and the last rename fail.
SPECIFICATION Spec
CONSTANTS
  i1 = i1  c1 = c1  r1 = r1  r2 = r2  a1 = a1  a2 = a2
  pairwise = pairwise  nonPairwise = nonPairwise  floating = floating
  cover = cover  stamped = stamped  unstamped = unstamped
  e1 = e1  edge = edge
  None = None
  Torn = Torn
  Damaged = Damaged
  Fragment = Fragment
  Policy = Policy
  Ids = {i1}
  Clusters = {c1}
  Bodies <- MCBodies
  WellFormed <- MCBodies
  NonPairwise <- MCNonPairwise
  BoundaryRequired <- MCBoundaryRequired
  Reliant <- MCReliant
  Evidence = {e1}
  Edges = {edge}
  Links <- MCLinks
  EdgeOf <- MCEdgeOf
  Grounds <- OneGround
  PolicyTexts = {stamped, unstamped}
  Stamped = {stamped}
  Reviewers = {r1}
  Actors = {a1, a2}
  ArtifactSets <- OneSet
  Approvable <- MCApprovable
  Editable <- OneEdit
  EditSteps <- AllSteps
  FailPoints = {"rule", "replace", "partial"}
  CrashPoints <- NoSteps
  MaxRulings = 2
  MaxReviews = 3
SYMMETRY ActorSymmetry
INVARIANTS ReceiptRatified
PROPERTIES ContractSpec
\* The bounds on the trails stop the instance.
CHECK_DEADLOCK FALSE

\* Two CLI processes on the same workspace; file operations fail.
SPECIFICATION Spec
CONSTANTS
  i1 = i1  r1 = r1  a1 = a1  a2 = a2
  pairwise = pairwise  nonPairwise = nonPairwise  boundary = boundary
  both = both  cover = cover  malformed = malformed
  e1 = e1  edge = edge
  None = None
  Torn = Torn
  Damaged = Damaged
  Fragment = Fragment
  Ids = {i1}
  Reviewers = {r1}
  Actors = {a1, a2}
  Bodies <- MCBodies
  WellFormed <- MCWellFormed
  NonPairwise <- MCNonPairwise
  BoundaryRequired <- MCBoundaryRequired
  Reliant = {}
  Evidence = {e1}
  Edges = {edge}
  Links <- MCLinks
  EdgeOf <- MCEdgeOf
  Grounds <- OneGround
  InteractionBodies = {nonPairwise, malformed}
  CoverBodies = {cover}
  FailPoints = {"torn", "replace_2", "unlink_2"}
  CrashPoints <- NoSteps
  MaxLog = 1
  MaxStaged = 2
SYMMETRY ActorSymmetry
INVARIANTS OnlyValidated EachDraftPromotedOnce
\* The bounds on staging and on the log stop the instance.
CHECK_DEADLOCK FALSE

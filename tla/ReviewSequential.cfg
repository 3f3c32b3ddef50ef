\* One operator at a time; it may fail or die at any file operation,
\* and an append may be cut short; evidence and boundary contracts come and go.
SPECIFICATION Spec
CONSTANTS
  i1 = i1  r1 = r1  a1 = a1  a2 = a2
  pairwise = pairwise  nonPairwise = nonPairwise  boundary = boundary
  both = both  cover = cover  malformed = malformed
  e1 = e1  edge = edge
  None = None
  Torn = Torn
  Damaged = Damaged
  Fragment = Fragment
  Ids = {i1}
  Reviewers = {r1}
  Actors = {a1}
  Bodies <- MCBodies
  WellFormed <- MCWellFormed
  NonPairwise <- MCNonPairwise
  BoundaryRequired <- MCBoundaryRequired
  Reliant = {}
  Evidence = {e1}
  Edges = {edge}
  Links <- MCLinks
  EdgeOf <- MCEdgeOf
  Grounds <- MoreGrounds
  InteractionBodies = {nonPairwise, both}
  CoverBodies = {cover}
  FailPoints <- AllFaults
  CrashPoints <- AllFaults
  MaxLog = 3
  MaxStaged = 2
INVARIANTS UncoveredMeansUnfinished PromotedIsLogged
PROPERTIES PairAllOrNone
\* The bounds on staging and on the log stop the instance.
CHECK_DEADLOCK FALSE

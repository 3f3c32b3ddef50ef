\* One generation with people editing what it reads; every plan, every
\* project.
SPECIFICATION Spec
CONSTANTS
  i1 = i1  i2 = i2  b1 = b1  bd = bd  d1 = d1
  o1 = o1  o2 = o2  o3 = o3  wp1 = wp1  wp2 = wp2
  kani = kani  verus = verus  core = core  host = host  wide = wide
  None = None
  Adjudicator = Adjudicator
  Interactions = {i1, i2}
  Bridges = {b1}
  Boundaries = {bd}
  FixedRunners <- MCFixedRunners
  Projects <- MCProjects
  Plans <- MCPlans
  Editable <- MCEditable
  Paths <- MCPaths
  MaxEdits = 2
INVARIANTS WritesWithinDescriptor ContentIsAccepted DerivedIsValid
\* A manifest, once written, is left alone.
CHECK_DEADLOCK FALSE

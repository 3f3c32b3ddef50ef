\* One command at a time, stopping anywhere; builds are swapped and files
\* edited between commands.
SPECIFICATION Spec
CONSTANTS
  a1 = a1  a2 = a2  v1 = v1  v2 = v2
  skill = skill  retired = retired  policy = policy
  s1 = s1  s2 = s2  r1 = r1  tmpl = tmpl  pol = pol  edit = edit  h1 = h1  h2 = h2
  None = None  Hand = Hand
  Actors = {a1}
  Managed = {skill, retired}
  Owned = {policy}
  Normative = {policy}
  Skill = skill
  Pinned = {skill}
  Versions = {v1, v2}
  Order <- MCOrder
  Rendered <- MCRendered
  Identity <- MCIdentity
  Region <- MCRegion
  Declared <- MCDeclared
  Stamp <- MCStamp
  Stamped = {pol}
  HandTexts <- MCHandTexts
  ForceLists <- MCForceLists
  EditSteps <- NoSteps
  StopSteps <- AllSteps
INVARIANTS BasesAreRendered ConflictMeansEdited
PROPERTIES EditsKept PolicyMovesByAcceptance UpgradeEndsHealthy

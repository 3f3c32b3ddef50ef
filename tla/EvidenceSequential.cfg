\* One promotion at a time, failing or dying anywhere; drafts are staged
\* meanwhile.
SPECIFICATION EvidenceSpec
CONSTANTS
  e1 = e1  e2 = e2  good = good  bad = bad  a1 = a1  a2 = a2
  None = None
  Fragment = Fragment
  Damaged = Damaged
  Ids = {e1, e2}
  Texts = {good, bad}
  ValidTexts = {good}
  Actors = {a1}
  FailPoints <- AllSteps
  CrashPoints <- AllFaults
  MaxStaged = 2
  MaxLines = 3
INVARIANTS LinesMatchPromotions RecordsValid
\* The bounds stop the instance.
CHECK_DEADLOCK FALSE

\* Two commands at once, some of whose operations fail.
SPECIFICATION FairSpec
CONSTANTS
  a1 = a1  a2 = a2  n = n  human = human  supervisor = supervisor  plan = plan  off = off  on = on
  bare = bare  v1 = v1  v2 = v2  lib = lib  lock0 = lock0  lock1 = lock1  other = other
  None = None  Fragment = Fragment  Damaged = Damaged
  Issues = {n}  Humans = {human}  Plans = {plan}  Bare = bare  Skeleton = lib
  LockTexts = {lock0, lock1}  Other = other
  Actors = {a1, a2}
  Requests <- TwoRequests
  Commands = {"generate","cargo","crate","scaffold"}
  Editable = {}
  EditSteps = {}
  FailPoints = {"audit", "restore"}
  CrashPoints = {"validate", "audit"}
  MaxLines = 2
  MaxClock = 0
  Initial <- NewWorkspace
  Settings = {off, on}
  Pins = {v1, v2}
  Declarable <- OneList
  Supervisors = {supervisor}
INVARIANTS EventsGrounded
PROPERTIES ReplacesWhatItRead ChangedOnce Served
\* The bound on the ledger stops the instance.
CHECK_DEADLOCK FALSE

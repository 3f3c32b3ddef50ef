\* One command at a time, failing or dying anywhere.
SPECIFICATION Spec
CONSTANTS
  a1 = a1  a2 = a2  n = n  human = human  supervisor = supervisor  plan = plan  off = off  on = on
  bare = bare  v1 = v1  v2 = v2  lib = lib  lock0 = lock0  lock1 = lock1  other = other
  None = None  Fragment = Fragment  Damaged = Damaged
  Issues = {n}  Humans = {human}  Plans = {plan}  Bare = bare  Skeleton = lib
  LockTexts = {lock0, lock1}  Other = other
  Actors = {a1}
  Requests <- MCRequests
  Commands = {"generate","cargo","crate","scaffold"}
  Editable <- MCEdits
  EditSteps <- AllSteps
  FailPoints <- AllFaults
  CrashPoints <- AllFaults
  MaxLines = 3
  MaxClock = 1
  Initial <- NewWorkspace
  Settings = {off, on}
  Pins = {v1, v2}
  Declarable <- TwoLists
  Supervisors = {supervisor}
INVARIANTS ChangesAudited GrantsKept PinRecorded
PROPERTIES ChangedUnderGrant
\* The bound on the ledger stops the instance.
CHECK_DEADLOCK FALSE

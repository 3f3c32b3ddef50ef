\* The two things: code moves within a method, and the report is refreshed.
SPECIFICATION Spec
CONSTANTS
  None = None
  Tiers = {"low", "high"}
  BridgeIds = {"b"}
  Default = "creusot"
  Compiles <- MCCompiles
  Features = {"q"}
  Crates = {"k", "l"}
  WitnessIds = {"w"}
  Configs <- MCConfigs
  Gates = {"g", "h"}
  Unversioned = {9}
  Starts <- MCStarts
  Edits <- MCEdits
  MaxEdits = 2
INVARIANTS LowWasExamined
\* The loop has stopped and nobody edits any more.
CHECK_DEADLOCK FALSE

\* Two things people do to a released workspace whose verifier is gone and to
\* a fresh one, before, during and after the agent's loop.
SPECIFICATION FairSpec
CONSTANTS
  None = None
  Tiers = {"low", "high"}
  BridgeIds = {"b"}
  Default = "creusot"
  Compiles <- MCCompiles
  Features = {"q"}
  Crates = {"k", "l"}
  WitnessIds = {"w"}
  Configs <- MCConfigs
  Gates = {"g", "h"}
  Unversioned = {9}
  Starts <- MCStarts
  Edits <- MCEdits
  MaxEdits = 2
INVARIANTS CleanMeansClean InquiryIsCurrent BridgesWerePassed
PROPERTIES TiersSurvive LoopEnds
\* The loop has stopped and nobody edits any more.
CHECK_DEADLOCK FALSE

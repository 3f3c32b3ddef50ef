\* Two edits of a workspace that closes, closes over a discharged cycle, or
\* is released as degraded, the gate run after each.
SPECIFICATION Spec
CONSTANTS
  None = None
  Packages <- MCPackages
  Obligations <- MCObligations
  Bridges = {"b"}
  Verifiers = {"creusot", "kani"}
  Bounded = {"kani"}
  Readers = {"creusot"}
  Owner = "creusot"
  Starts <- MCStarts
  Edits <- MCEdits
  MaxEdits = 2
INVARIANTS AlgorithmsRight ReleasedMeansProved
  ClosesMeansConditionsHold DegradedIsRuled GateAgreesWithValidator
PROPERTIES RecordingIsAccepted
\* A gate has run and nobody edits any more.
CHECK_DEADLOCK FALSE

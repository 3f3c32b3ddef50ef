----------------------------- MODULE BridgeChecks -----------------------------
(***************************************************************************)
(* check-bridges and gate g9 (gate_g9.py): the harness each promoted       *)
(* bridge compiles to for the verifier that owns it, the verdict the       *)
(* verifier gave, and what of both the gate still believes.  The hash of a *)
(* harness is its source, which the bridge's text and the verifier fix.    *)
(***************************************************************************)
EXTENDS Absent, Naturals, FiniteSets

CONSTANTS
  BridgeIds,
  Default,   \* verifier_policy.default
  Compiles   \* [verifiers -> texts of bridge_logic it can be compiled for]

VARIABLES
  bridges,   \* [BridgeIds -> the promoted text, or None]
  owners,    \* [BridgeIds -> the verifiers of the clusters that need it]
  backends,  \* [verifiers -> None, "broken", or "ok": verifier_backends]
  harness,   \* ci/harness: [BridgeIds \X verifiers -> source, or None]
  checks,    \* ci/results/bridge_checks: [BridgeIds -> record, or None]
  reported,  \* [BridgeIds -> the bridge records assurance reports hold]
  passed     \* history: the harnesses a verifier passed

bridgeVars == <<bridges, owners, backends, harness, checks, reported, passed>>

Promoted == {b \in BridgeIds : bridges[b] # None}
Checked == {b \in BridgeIds : checks[b] # None}

\* Clusters that disagree own a bridge together, which is to say not at all.
Owner(b) ==
  IF Cardinality(owners[b]) = 1 THEN CHOOSE v \in owners[b] : TRUE ELSE Default

Compiled(b) == bridges[b] \in Compiles[Owner(b)]
Source(b) == <<bridges[b], Owner(b)>>

Dispatched == {b \in Promoted : Compiled(b) /\ backends[Owner(b)] = "ok"}

\* check-bridges: every harness that compiles is written; a record only where
\* a verifier answered, whichever way.  Nothing is ever removed.
CheckBridges ==
  \E verdict \in [Dispatched -> {"pass", "fail"}] :
    /\ harness' = [h \in DOMAIN harness |->
         IF h[1] \in Promoted /\ Compiled(h[1]) /\ h[2] = Owner(h[1]) THEN Source(h[1])
         ELSE harness[h]]
    /\ checks' = [b \in BridgeIds |->
         IF b \in Dispatched
         THEN [verifier |-> Owner(b), source |-> Source(b), result |-> verdict[b]]
         ELSE checks[b]]
    /\ passed' = passed \cup {<<b, Source(b)>> : b \in {d \in Dispatched : verdict[d] = "pass"}}
    /\ UNCHANGED <<bridges, owners, backends, reported>>

\* Mutant: a record is of the bridge it is filed under.
RecordStandsUnhashed(b) ==
  /\ checks[b] # None /\ checks[b].verifier = Owner(b) /\ checks[b].result = "pass"

\* The record on file is about the harness this bridge compiles to now.
RecordStands(b) ==
  /\ checks[b] # None /\ checks[b].verifier = Owner(b)
  /\ checks[b].source = Source(b) /\ checks[b].result = "pass"

\* A report's bridge record that the check on file does not back.
ReportsAgree(b) ==
  checks[b] # None =>
    \A r \in reported[b] : r.source = Source(b) /\ r.result = checks[b].result

\* gate_g9.gate_workspace, every finding of it an error.
G9Clean ==
  /\ \A b \in Promoted :
       Compiled(b) /\ harness[<<b, Owner(b)>>] = Source(b) /\ RecordStands(b) /\ ReportsAgree(b)
  /\ Checked \subseteq Promoted

=============================================================================

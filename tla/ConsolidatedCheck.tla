--------------------------- MODULE ConsolidatedCheck ---------------------------
(***************************************************************************)
(* `ligature check` (project_state.py) and the loop the skill has an agent *)
(* drive: read the one next action, perform it, check again, until there   *)
(* is none or a human has to decide.  Meanwhile people edit the workspace. *)
(***************************************************************************)
EXTENDS RealizedCalls, BridgeChecks, WitnessGates, WriteSet

CONSTANTS
  Configs,     \* configurations C_static is extracted for
  Gates,       \* the paths of gate_integrity
  Unversioned, \* texts of the policy document without a version marker
  Starts,      \* workspaces to start from
  Edits,       \* [facet -> values people give it]
  MaxEdits     \* bound on what people do to a workspace

\* What extract-c-static and people leave of a report.
IsReport(rep) ==
  /\ rep = [config |-> rep.config, calls |-> [id \in DOMAIN rep.calls |-> rep.calls[id]]]
  /\ \A id \in DOMAIN rep.calls : LET r == rep.calls[id] IN
       /\ r.id = id
       /\ Unresolved(r) =>
            /\ r = [id |-> id, class |-> r.class, call |-> r.call, tier |-> r.tier, by |-> r.by]
            /\ r.tier \in Tiers \cup {"medium"}
            /\ r.by \in {"human", "extractor"}
            /\ r.by = "extractor" => r.tier = "medium"

\* Every passing check is one a verifier made.
ChecksWereMade(made, by) ==
  \A b \in BridgeIds : made[b] # None /\ made[b].result = "pass" => <<b, made[b].source>> \in by

IsReceiptList(rs) == rs \in Seq(Range(rs))

ASSUME WorkspaceAssumption ==
  /\ None \notin 0..5 /\ IsFiniteSet(Crates)
  /\ \A w \in Starts :
       /\ w.report # None => IsReport(w.report)
       /\ DOMAIN w.checks = BridgeIds /\ ChecksWereMade(w.checks, w.passed)
       /\ \A a \in DOMAIN w.artifacts : IsReceiptList(w.artifacts[a].receipts)
  /\ \A x \in Edits.artifact : IsReceiptList(x.receipts)

VARIABLES
  setup,      \* the descriptor, the policy document, g14's and the other
              \* validators' findings
  pins,       \* [Gates -> declared, the recorded hash, the text]
  artifacts,  \* promoted paths: the text, and the hashes receipts record
  drafts,     \* the staged evidence drafts, TRUE for one that validates
  staged,     \* whether a drafted interaction waits for its approval
  judged,     \* history: the calls whose tier a human set
  outcome,    \* what the last check reported, its exit code while that
              \* is of the workspace as it is
  phase,      \* of the loop: "idle", "acting" on the outcome, "stopped"
  edits       \* how many things people did

callVars == <<source, declared, report>>
deskVars == <<setup, pins, artifacts, drafts, staged, judged>>
vars == <<callVars, bridgeVars, witnessVars, writeVars, deskVars, outcome, phase, edits>>

Unread == [exit |-> None, next |-> None, ran |-> {}]

-----------------------------------------------------------------------------
(* What check reads.                                                       *)

Loaded == setup.descriptor \in {"template", "valid"}

DeclaredPins == {g \in Gates : pins[g].declared}

\* Mutant: a path without a recorded hash has not drifted.
PinnedIfRecorded ==
  /\ Loaded /\ DeclaredPins # {}
  /\ \E g \in Gates : pins[g].recorded # None
  /\ \A g \in DeclaredPins : pins[g].recorded # None => pins[g].text = pins[g].recorded

\* _gate_integrity_evaluate; every other answer is a failure.
Pinned ==
  /\ Loaded /\ DeclaredPins # {}
  /\ \E g \in Gates : pins[g].recorded # None
  /\ \A g \in DeclaredPins : pins[g].recorded # None /\ pins[g].text = pins[g].recorded

PolicyDrifted == setup.reviewed # None /\ setup.policy # setup.reviewed

\* The findings of gate "P0": the descriptor is unusable or names a policy
\* document that is not there.
P0 == setup.descriptor \in {"invalid", "template"} \/ (Loaded /\ setup.policy = None)

\* The receipt whose file name comes last is the one that counts.
Drifted(a) ==
  /\ artifacts[a].text # None /\ artifacts[a].receipts # <<>>
  /\ artifacts[a].text # Last(artifacts[a].receipts)

\* _run_gates: what becomes of each gate.
Executed == {g \in {"r1-g16", "g9", "g14", "g18", "g19", "g20"} :
  /\ Loaded
  /\ CASE g = "r1-g16" -> report # None
       [] g = "g9" -> Promoted # {} /\ Checked # {}
       [] g = "g14" -> setup.closure # None
       [] g \in {"g18", "g20"} -> HasWitnesses
       [] g = "g19" -> HasWitnesses /\ regenerates # None}

Blocked == {g \in {"r1-g16", "g9", "g19"} \ Executed :
  /\ Loaded
  /\ CASE g = "r1-g16" -> TRUE
       [] g = "g9" -> Promoted # {}
       [] g = "g19" -> HasWitnesses}

CallFindings == IF "r1-g16" \in Executed THEN R1G16Findings ELSE {}

-----------------------------------------------------------------------------
(* What check concludes.                                                   *)

\* Some finding is of severity high, critical included.
Blocking ==
  \/ ~Pinned \/ P0
  \/ PolicyDrifted \/ setup.policy \in Unversioned
  \/ Loaded /\ ~WriteSetClean
  \/ report # None /\ ~ReportValid
  \/ setup.validators = "high"
  \/ \E f \in CallFindings : f.severity = "error"
  \/ "g9" \in Executed /\ ~G9Clean
  \/ "g14" \in Executed /\ setup.closure = "high"
  \/ "g18" \in Executed /\ ~G18Clean
  \/ "g19" \in Executed /\ ~G19Clean
  \/ "g20" \in Executed /\ ~G20Clean
  \/ \E a \in DOMAIN artifacts : Drifted(a)

Awaited ==
  \/ setup.descriptor = "template" \/ setup.validators = "unreviewed"
  \/ \E f \in CallFindings : f.severity = "decision"

\* exit_codes.resolve: the first that applies; only g19 blocks for the want
\* of a backend.
ExitCode(blocked) ==
  IF ~Pinned THEN 5 ELSE IF ~Loaded THEN 2 ELSE IF Blocking THEN 1
  ELSE IF "g19" \in blocked THEN 4 ELSE IF Awaited THEN 3 ELSE 0

Worded == \E f \in CallFindings : f.worded

\* The refresh of the first gate that is blocked.
Refresh(blocked) ==
  IF "r1-g16" \in blocked THEN "refresh-c-static"
  ELSE IF "g9" \in blocked THEN "refresh-bridge-checks" ELSE "refresh-witness"

\* _next_action.
NextAction(blocked) ==
  IF ~Loaded THEN IF setup.descriptor = "invalid" THEN "human-decision" ELSE None
  ELSE IF P0 THEN "human-decision"
  ELSE IF drafts # <<>> THEN "promote-evidence"
  ELSE IF blocked # {} THEN Refresh(blocked)
  ELSE IF Worded THEN "author-interaction"
  ELSE IF Awaited THEN "human-decision" ELSE None

Check ==
  /\ phase = "idle"
  /\ LET blocked == Blocked IN
       outcome' = [exit |-> ExitCode(blocked), next |-> NextAction(blocked), ran |-> Executed]
  /\ phase' = IF outcome'.next \in {None, "human-decision"} THEN "stopped" ELSE "acting"
  /\ UNCHANGED <<callVars, bridgeVars, witnessVars, writeVars, deskVars, edits>>

-----------------------------------------------------------------------------
(* The agent, performing the action it was told.                           *)

Perform(action) ==
  /\ phase = "acting" /\ outcome.next = action
  /\ phase' = "idle" /\ outcome' = Unread /\ UNCHANGED edits

RefreshCStatic ==
  /\ Perform("refresh-c-static") /\ \E c \in Configs : ExtractCStatic(c)
  /\ UNCHANGED <<bridgeVars, witnessVars, writeVars, deskVars>>

RefreshBridgeChecks ==
  /\ Perform("refresh-bridge-checks") /\ CheckBridges
  /\ UNCHANGED <<callVars, witnessVars, writeVars, deskVars>>

RefreshWitness ==
  /\ Perform("refresh-witness")
  /\ \E id \in WitnessIds, r \in Edits.renderers : RenderWitness(id, r)
  /\ UNCHANGED <<callVars, bridgeVars, writeVars, deskVars>>

\* Mutant: the draft stays behind the record it became.
DraftsAfterKept == drafts

\* A draft that does not validate is refused and stays.
DraftsAfter == IF Head(drafts) THEN Tail(drafts) ELSE drafts

PromoteEvidence ==
  /\ Perform("promote-evidence") /\ drafts' = DraftsAfter
  /\ UNCHANGED <<callVars, bridgeVars, witnessVars, writeVars, setup, pins, artifacts,
                 staged, judged>>

\* The draft is inert until a human approves it.
AuthorInteraction ==
  /\ Perform("author-interaction") /\ staged' = TRUE
  /\ UNCHANGED <<callVars, bridgeVars, witnessVars, writeVars, setup, pins, artifacts,
                 drafts, judged>>

Act ==
  RefreshCStatic \/ RefreshBridgeChecks \/ RefreshWitness \/ PromoteEvidence \/ AuthorInteraction

-----------------------------------------------------------------------------
(* People.  A loop that has stopped starts again; an agent in the middle   *)
(* of one acts on what it read before.                                     *)

Someone ==
  /\ edits < MaxEdits /\ edits' = edits + 1
  /\ phase' = IF phase = "stopped" THEN "idle" ELSE phase
  /\ outcome' = [Unread EXCEPT !.next = outcome.next]

\* A tier of their own for a call the report could not resolve.
Judge ==
  /\ Someone /\ report # None
  /\ \E id \in DOMAIN report.calls, t \in Tiers :
       /\ Unresolved(report.calls[id])
       /\ report' = [report EXCEPT !.calls[id].tier = t, !.calls[id].by = "human"]
       /\ judged' = judged \cup {<<id[1], report.calls[id].call>>}
  /\ UNCHANGED <<source, declared, bridgeVars, witnessVars, writeVars, setup, pins, artifacts,
                 drafts, staged>>

\* approve: the drafted interaction of some call the report holds.
Approve ==
  /\ Someone /\ staged /\ report # None
  /\ \E e \in Realized \cup DOMAIN declared :
       declared' = [x \in DOMAIN declared \cup {e} |-> IF x = e THEN report.config ELSE declared[x]]
  /\ staged' = FALSE
  /\ UNCHANGED <<source, report, bridgeVars, witnessVars, writeVars, setup, pins, artifacts,
                 drafts, judged>>

EditCalls ==
  /\ Someone
  /\ \/ source' \in Edits.source /\ UNCHANGED <<declared, report>>
     \/ declared' \in Edits.declared /\ UNCHANGED <<source, report>>
     \/ \E c \in Configs : ExtractCStatic(c)
  /\ UNCHANGED <<bridgeVars, witnessVars, writeVars, deskVars>>

EditBridges ==
  /\ Someone
  /\ \/ bridges' \in Edits.bridges /\ UNCHANGED <<owners, backends, harness, checks, reported, passed>>
     \/ owners' \in Edits.owners /\ UNCHANGED <<bridges, backends, harness, checks, reported, passed>>
     \/ backends' \in Edits.backends /\ UNCHANGED <<bridges, owners, harness, checks, reported, passed>>
     \/ /\ \E b \in BridgeIds, x \in Edits.harness : harness' = [harness EXCEPT ![<<b, Owner(b)>>] = x]
        /\ UNCHANGED <<bridges, owners, backends, checks, reported, passed>>
     \/ /\ \E b \in BridgeIds : checks' = [checks EXCEPT ![b] = None]
        /\ UNCHANGED <<bridges, owners, backends, harness, reported, passed>>
     \/ reported' \in Edits.reported /\ UNCHANGED <<bridges, owners, backends, harness, checks, passed>>
     \/ CheckBridges
  /\ UNCHANGED <<callVars, witnessVars, writeVars, deskVars>>

EditWitnesses ==
  /\ Someone
  /\ \/ required' \in Edits.required /\ UNCHANGED <<specs, results, rendered, regenerates>>
     \/ /\ \E at \in Crates \X Features, x \in Edits.spec : specs' = [specs EXCEPT ![at] = x]
        /\ UNCHANGED <<required, results, rendered, regenerates>>
     \/ results' \in Edits.results /\ UNCHANGED <<required, specs, rendered, regenerates>>
     \/ regenerates' \in Edits.regenerates /\ UNCHANGED <<required, specs, results, rendered>>
     \/ \E id \in WitnessIds, r \in Edits.renderers : RenderWitness(id, r)
  /\ UNCHANGED <<callVars, bridgeVars, writeVars, deskVars>>

EditTree ==
  /\ Someone
  /\ \/ /\ \E f \in Edits.files : tree' = (tree \ {f}) \cup ({f} \ tree)
        /\ UNCHANGED <<roots, managed, grants, issue>>
     \/ roots' \in Edits.roots /\ UNCHANGED <<tree, managed, grants, issue>>
     \/ grants' \in Edits.grants /\ UNCHANGED <<tree, roots, managed, issue>>
     \/ issue' \in Edits.issues /\ UNCHANGED <<tree, roots, managed, grants>>
  /\ UNCHANGED <<callVars, bridgeVars, witnessVars, deskVars>>

EditDesk ==
  /\ Someone
  /\ \/ /\ \E k \in DOMAIN Edits.setup : \E x \in Edits.setup[k] : setup' = [setup EXCEPT ![k] = x]
        /\ UNCHANGED <<pins, artifacts, drafts>>
     \/ /\ \E g \in Gates, x \in Edits.pin : pins' = [pins EXCEPT ![g] = x]
        /\ UNCHANGED <<setup, artifacts, drafts>>
     \/ /\ \E a \in DOMAIN artifacts, x \in Edits.artifact : artifacts' = [artifacts EXCEPT ![a] = x]
        /\ UNCHANGED <<setup, pins, drafts>>
     \/ drafts' \in Edits.drafts /\ UNCHANGED <<setup, pins, artifacts>>
  /\ UNCHANGED <<callVars, bridgeVars, witnessVars, writeVars, staged, judged>>

People ==
  Judge \/ Approve \/ EditCalls \/ EditBridges \/ EditWitnesses \/ EditTree \/ EditDesk

-----------------------------------------------------------------------------
Init ==
  /\ \E w \in Starts :
       /\ source = w.source /\ declared = w.declared /\ report = w.report /\ judged = w.judged
       /\ bridges = w.bridges /\ owners = w.owners /\ backends = w.backends
       /\ harness = w.harness /\ checks = w.checks /\ reported = w.reported /\ passed = w.passed
       /\ required = w.required /\ specs = w.specs /\ results = w.results
       /\ rendered = w.rendered /\ regenerates = w.regenerates
       /\ tree = w.tree /\ roots = w.roots /\ managed = w.managed
       /\ grants = w.grants /\ issue = w.issue
       /\ setup = w.setup /\ pins = w.pins /\ artifacts = w.artifacts /\ drafts = w.drafts
  /\ staged = FALSE /\ outcome = Unread /\ phase = "idle" /\ edits = 0

Next == Check \/ Act \/ People

Spec == Init /\ [][Next]_vars

\* The agent never rests while the skill tells it to go on.
FairSpec == Spec /\ WF_vars(Check \/ Act)

-----------------------------------------------------------------------------
(* Properties.                                                             *)

Clean == outcome.exit = 0

\* Exit code 0 says what a reader takes it to say, told from the workspace
\* and not from the findings: the installed gates are the recorded ones, the
\* policy is the reviewed one, every promoted artifact present has the text
\* some receipt accepted, no file sits unaccounted for in a protected place
\* of the pipeline's, a witness that was compared is the only one of its
\* feature, drawn and reproduced, and every call the report holds is resolved
\* or its risk accepted, and declared unless its callee carries no boundary.
CleanMeansClean ==
  Clean =>
    /\ setup.descriptor = "valid"
    /\ \A g \in Gates : pins[g].declared => pins[g].text # None /\ pins[g].text = pins[g].recorded
    /\ setup.policy # None /\ setup.policy \notin Unversioned
    /\ \A a \in DOMAIN artifacts :
         artifacts[a].text # None /\ artifacts[a].receipts # <<>> =>
           artifacts[a].text \in Range(artifacts[a].receipts)
    /\ \A f \in tree :
         f.dir = "artifacts" /\ f.holds = "other" /\ f.name \in roots.protected =>
           \/ f.name \in roots.allowed \cup managed
           \/ <<issue, f.name>> \in grants
    /\ "g18" \in outcome.ran =>
         \A f \in Features : required[f] > 0 =>
           f \in rendered /\ \E c \in Crates : \A d \in Crates :
             (specs[<<d, f>>] # None /\ specs[<<d, f>>].valid) <=> d = c
    /\ "g19" \in outcome.ran =>
         \A at \in Crates \X Features : specs[at] # None /\ specs[at].valid =>
           regenerates[specs[at].id].hash = specs[at].hash
    /\ "r1-g16" \in outcome.ran =>
         \A r \in Range(report.calls) :
           IF Unresolved(r) THEN r.tier = "low"
           ELSE r.id[1][1] = r.callee[1] \/ Edge(r) \in DOMAIN declared \/ r.shape = "inquiry"

\* "A callee shape is computed, never stored-and-trusted": the undeclared call
\* a clean check lets pass goes to a method that is an inquiry in the source
\* as it is now, and whose body is the one the report pinned.
InquiryIsCurrent ==
  Clean /\ "r1-g16" \in outcome.ran =>
    \A r \in Range(report.calls) :
      ~Unresolved(r) /\ r.id[1][1] # r.callee[1] /\ Edge(r) \notin DOMAIN declared =>
        /\ r.callee \in DOMAIN source /\ source[r.callee] = r.pinned
        /\ r.pinned.bool /\ r.pinned.calls = <<>> /\ r.pinned.quiet

\* Behind every bridge of a clean check is a verifier that passed the harness
\* of the bridge's present text, and it is the one that owns the bridge now,
\* whatever was edited, re-owned or checked by another verifier since.
BridgesWerePassed ==
  Clean /\ "g9" \in outcome.ran =>
    \A b \in BridgeIds : bridges[b] # None =>
      <<b, <<bridges[b], IF Cardinality(owners[b]) = 1 THEN CHOOSE v \in owners[b] : TRUE
                         ELSE Default>>>> \in passed

Untiered(calls) ==
  [id \in DOMAIN calls |->
     IF Unresolved(calls[id]) THEN [calls[id] EXCEPT !.tier = "medium", !.by = "extractor"]
     ELSE calls[id]]

\* What a human said of a call survives a refresh of source that has not
\* changed, call by call, and a refresh says nothing in a human's name.
TiersSurvive ==
  [][(\E c \in Configs : ExtractCStatic(c)) =>
       /\ report # None /\ Untiered(report.calls) = Extracted(source, {}) =>
            report'.calls = report.calls
       /\ \A id \in DOMAIN report'.calls : ByHuman(report'.calls[id]) =>
            /\ report # None /\ id \in DOMAIN report.calls /\ ByHuman(report.calls[id])
            /\ report'.calls[id].tier = report.calls[id].tier]_vars

\* What keeps an agent going that only does what it is told: an evidence
\* draft that does not validate, bridges no configured verifier can be run
\* for, witnesses without a backend, and an interaction finding that is none
\* of an agent's to settle.
DeadEnd ==
  \/ drafts # <<>> /\ ~Head(drafts)
  \/ Promoted # {} /\ Checked = {} /\ Dispatched = {}
  \/ HasWitnesses /\ regenerates = None
  \/ Worded

\* The loop ends, but for these: whatever people did before they left, it
\* neither undoes its own work nor goes back and forth between two actions.
LoopEnds == <>[](phase = "stopped" \/ DeadEnd)

\* "An unexamined medium never silently passes" (gate_r1_g16.py): the low tier
\* of a call in a clean check was set by a human who looked at that call.
LowWasExamined ==
  Clean /\ "r1-g16" \in outcome.ran =>
    \A r \in Range(report.calls) :
      Unresolved(r) => <<r.id[1], r.call>> \in judged

=============================================================================

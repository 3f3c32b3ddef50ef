----------------------------- MODULE ReleaseGate -----------------------------
(***************************************************************************)
(* gate-g14 over a workspace people edit: the closure of one cluster, the  *)
(* checks over everything in it, the conditions recomputed from it, the    *)
(* degradation record that may excuse some, and the exit code; next to it  *)
(* validate-closure, which reads the same two files of the cluster.  What  *)
(* else is called a closure file is a stray of its kind.                   *)
(***************************************************************************)
EXTENDS ClosureGraph

CONSTANTS
  Bridges,
  Verifiers,   \* the verifiers with an evidence kind, which is named after them
  Bounded,     \* those whose results are bounded
  Readers,     \* those whose evidence record-assurance can read
  Owner,       \* the verifier whose ownership settles generic callees
  Starts,      \* workspaces to start from
  Edits,       \* [facet -> values people give it]
  MaxEdits     \* bound on the edits of a workspace

\* Where a report belongs and none is.
NoReport == [holds |-> "nothing"]

\* A report is a report of something, a call graph counts its calls, and a
\* workspace has the facets it has.
IsReport(r) == r.holds = "report" => DOMAIN r = {"holds", "package", "records", "bridges"}
CountsCalls(c) == c # None => c.risky \in Nat
IsManifest(m) == m.provides \cup Range(m.requires) \subseteq ObligationSet
FileFacets == {"reports", "profile", "record", "reviews", "ratified", "bridges", "checks", "calls",
               "proofs", "broken", "strays"}

ASSUME WorkspaceAssumption ==
  /\ IsFiniteSet(Verifiers) /\ Readers \subseteq Verifiers /\ Owner \notin Bounded
  /\ \A w \in Starts :
       /\ DOMAIN w.files = FileFacets /\ DOMAIN w.files.reports = PackageSet
       /\ DOMAIN w.manifests \subseteq PackageSet /\ CountsCalls(w.files.calls)
       /\ \A p \in DOMAIN w.manifests : IsManifest(w.manifests[p])
       /\ \A p \in PackageSet : IsReport(w.files.reports[p])
  /\ \A p \in PackageSet : /\ \A r \in Edits.report[p] : IsReport(r)
                           /\ \A m \in Edits.manifest[p] \ {None} : IsManifest(m)
  /\ DOMAIN Edits.facet \subseteq FileFacets \ {"reports"}
  /\ \A c \in Edits.facet.calls : CountsCalls(c)

VARIABLES
  files,    \* every facet of the workspace but the manifests
  edits,    \* how many edits were made
  verdict   \* what the last run of the gate reported

vars == <<manifests, graph, files, edits, verdict>>

Unread == [status |-> "none", exit |-> 0]

\* The closure conditions a profile declares as bits.
Conditions == {"single_verifier_system", "protocol_class_all_pairwise",
               "transitive_assumptions_within_policy", "scc_wellfoundedness_discharged",
               "unresolved_indirect_calls_at_or_above_medium", "generic_callees"}
Generic == "generic_callees"

Profile == files.profile
Record == files.record
InClosure == seen
Seeds == {p \in Range(Profile.packages) : p \in DOMAIN manifests}

-----------------------------------------------------------------------------
(* validate-closure: the two files of a cluster, each on its own and one   *)
(* against the other.                                                      *)

ProfileValid ==
  /\ Profile # None /\ Profile.wellFormed
  /\ ~(Profile.kind = "deductive" /\ Profile.conditions.owning_verifier \in Bounded)

RecordReadable == Record # None /\ Record.failed # {}

ConditionHolds(c) ==
  CASE c = "unresolved_indirect_calls_at_or_above_medium" -> Profile.conditions[c] = 0
    [] c = "scc_wellfoundedness_discharged" -> Profile.conditions[c] \in {"true", "n/a"}
    [] OTHER -> Profile.conditions[c]

Declared == {c \in Conditions : ~ConditionHolds(c)}

\* An excuse for a condition that holds; the generic one is the tracking
\* record a gap the artifacts cannot settle needs.
StaleExcuses == (Record.failed \ Declared) \ {Generic}

\* Mutant: a record is read without the profile beside it.
RecordValidAlone == RecordReadable

\* load_degradation_records: the only records the gate may act on.
RecordValid == RecordReadable /\ ProfileValid /\ StaleExcuses = {}

Finding(name, found) == IF found THEN {name} ELSE {}

\* validate_workspace: any closure file outside the canonical directory is
\* refused for its place.
ClosureFindings ==
  Finding("profile", Profile # None /\ ~ProfileValid)
  \cup Finding("record", Record # None /\ ~RecordReadable)
  \cup Finding("excuse", RecordReadable /\ ~(ProfileValid /\ StaleExcuses = {}))
  \cup Finding("undeclared", /\ ProfileValid
                             /\ ~(Declared \subseteq IF RecordReadable THEN Record.failed ELSE {}))
  \cup Finding("misplaced record", "record" \in files.strays)
  \cup Finding("misplaced profile", "profile" \in files.strays)

-----------------------------------------------------------------------------
(* Reports, and what a record of one has to do with the manifest.          *)

Present(p) == files.reports[p] # NoReport

Readable(p) ==
  files.reports[p].holds = "report" /\ files.reports[p].package = p

\* The dependencies `depends_on` declares, and those no manifest answers.
Declares(p) == IF p \in DOMAIN manifests THEN manifests[p].depends ELSE {}
Dependencies ==
  Reach(InClosure, UNION {{p} \X Declares(p) : p \in DOMAIN manifests}, PackageSet)

Scope == Dependencies \cap DOMAIN manifests
Reported == {p \in Scope : Readable(p)}

Entries(p) == LET r == files.reports[p] IN
  {r.records[o] : o \in DOMAIN r.records} \cup {r.bridges[b] : b \in DOMAIN r.bridges}

Satisfies(m, r) == r.supported /\ r.kind \in m.accepts /\ r.assumptions \subseteq m.allows

\* The achieved record of an obligation or a bridge satisfies manifest m.
Achieved(p, o, m) ==
  p \in Reported /\ o \in DOMAIN files.reports[p].records /\ Satisfies(m, files.reports[p].records[o])
Established(p, b) ==
  p \in Reported /\ b \in DOMAIN files.reports[p].bridges
    /\ Satisfies(manifests[p], files.reports[p].bridges[b])

\* Mutant: a record that names no proof is not looked at.
CertifiedIfNamed(r, o) == r.named => o \in files.proofs

\* read_proof_target re-opens the evidence a record names.
Certified(r, o) == r.named /\ o \in files.proofs

Derived(m, r) ==
  /\ r.verifier = m.harness /\ r.config = m.config
  /\ m.harness \in Verifiers /\ r.kind = m.harness

-----------------------------------------------------------------------------
(* The conditions, recomputed.                                             *)

Kinds == UNION {{r.kind : r \in Entries(p)} : p \in InClosure \cap Reported}
Systems == Kinds \cap Verifiers

Relied == UNION {UNION {r.assumptions : r \in Entries(p)} : p \in InClosure \cap Reported}

\* What every requirement a seed states, its own guarantees included, allows.
EntryPolicies == {manifests[p].allows : p \in
  {q \in Seeds : manifests[q].provides # {} \/ manifests[q].requires # <<>>}}

\* Mutant: only the direct providers' assumptions are held to the policy.
WithinPolicyDirect ==
  \A p \in Seeds : \A r \in IF p \in Reported THEN Entries(p) ELSE {} :
    \A allowed \in EntryPolicies : r.assumptions \subseteq allowed

WithinPolicy == \A allowed \in EntryPolicies : Relied \subseteq allowed

Needed == UNION {manifests[p].establishes : p \in InClosure}
Pairwise == \A b \in Needed : files.bridges[b] # "n-ary"

Discharged == Cycles \subseteq Profile.discharges

\* generic_callees_verification: by positive evidence over the whole
\* workspace, for every obligation and bridge of the scope.
GenericVerified ==
  /\ InClosure # {}
  /\ Dependencies \subseteq DOMAIN manifests
  /\ Unsupported(InClosure) = {}
  /\ \A p \in Scope :
       /\ p \in Reported /\ Entries(p) # {}
       /\ manifests[p].provides \subseteq DOMAIN files.reports[p].records
       /\ manifests[p].establishes \subseteq DOMAIN files.reports[p].bridges
  /\ \A p \in DOMAIN manifests :
       /\ Present(p) => Readable(p) /\ \A r \in Entries(p) : r.kind = Owner
       /\ manifests[p].provides # {} => manifests[p].harness = Owner

\* What a declared bit should say, where the workspace can tell.
Computed ==
  [single_verifier_system |-> Cardinality(Systems) <= 1,
   protocol_class_all_pairwise |-> Pairwise,
   transitive_assumptions_within_policy |-> WithinPolicy,
   scc_wellfoundedness_discharged |->
     IF Cycles = {} THEN "n/a" ELSE IF Discharged THEN "true" ELSE "false"]

Misdeclared ==
  LET says == Profile.conditions IN
  \/ \E c \in DOMAIN Computed : says[c] # Computed[c]
  \/ Cardinality(Systems) = 1 /\ says.owning_verifier \notin Systems
  \/ files.calls # None /\ says.unresolved_indirect_calls_at_or_above_medium # files.calls.risky
  \/ GenericVerified /\ ~says[Generic]

\* The conditions the gate finds failing.
Failed ==
  {c \in Conditions :
     CASE c = "single_verifier_system" -> Cardinality(Systems) > 1
       [] c = "protocol_class_all_pairwise" -> ~Pairwise
       [] c = "transitive_assumptions_within_policy" -> ~WithinPolicy
       [] c = "scc_wellfoundedness_discharged" -> ~Discharged
       [] c = "unresolved_indirect_calls_at_or_above_medium" ->
            files.calls # None /\ files.calls.risky > 0
       [] c = Generic -> ~GenericVerified}

-----------------------------------------------------------------------------
(* The verdict.                                                            *)

\* Mutant: a ruling over any version of the record will do.
AuthorisedOnce == Record.review \in files.reviews /\ files.ratified # {}

\* degradation_record_gaps: the review block is one approve logged, and the
\* record's present bytes are ratified.
Authorised == Record.review \in files.reviews /\ Record \in files.ratified

\* What no degradation record can excuse.
Errors ==
  LET P == InClosure m(p) == manifests[p] IN
  Finding("package", \E p \in Range(Profile.packages) : p \notin DOMAIN manifests)
  \cup Finding("report", \E p \in Scope : ~Readable(p))
  \cup Finding("certificate", \E p \in P \cap Reported : \E o \in DOMAIN files.reports[p].records :
         ~Certified(files.reports[p].records[o], o))
  \cup Finding("derivation", \E p \in P \cap Reported :
         \E o \in DOMAIN files.reports[p].records \cap m(p).provides :
           ~Derived(m(p), files.reports[p].records[o]))
  \cup Finding("guarantee", \E p \in P : \E o \in m(p).provides : ~Achieved(p, o, m(p)))
  \cup Finding("unsupported", Unsupported(P) # {})
  \cup Finding("requirement", \E p \in P : \E o \in Range(m(p).requires) :
         Provider(o) # None /\ ~Achieved(Provider(o), o, m(p)))
  \cup Finding("bridge", \E p \in P : \E b \in m(p).establishes :
         \/ files.bridges[b] \in {"none", "collision"} \/ ~Established(p, b)
         \/ m(p).allResolved /\ (files.calls = None \/ files.calls.open > 0))
  \cup Finding("discharge", ~(Profile.discharges \subseteq Cycles))
  \cup Finding("declared", Misdeclared)
  \cup Finding("kind", Profile.kind = "deductive" /\ Kinds \cap Bounded # {})
  \cup Finding("callsites", files.calls = None)
  \cup Finding("record", RecordValid /\ ~Authorised)
  \cup Finding("stale record", RecordValid /\ GenericVerified /\ Generic \in Record.failed)

Excused == IF RecordValid /\ Authorised THEN Record.failed ELSE {}

Status ==
  IF Errors # {} \/ ~(Failed \subseteq Excused) THEN "blocked"
  ELSE IF Failed # {} THEN "degraded" ELSE "closes"

\* Of the strays only records are looked for (_misplaced_records).
WorkspaceErrors ==
  \/ files.broken \/ Ambiguous \/ "record" \in files.strays
  \/ \E b \in Bridges : files.bridges[b] = "collision"
  \/ Profile # None /\ ~ProfileValid
  \/ Record # None /\ ~RecordValid

\* An empty closure is not a release.
Judge ==
  /\ phase = "judge"
  /\ verdict' = [status |-> Status,
                 exit |-> IF Status = "blocked" \/ WorkspaceErrors THEN 1 ELSE 0]
  /\ phase' = "done"
  /\ UNCHANGED <<manifests, frontier, seen, depth, search, files, edits>>

NoCluster ==
  /\ phase = "idle" /\ ~ProfileValid
  /\ verdict' = [status |-> "none", exit |-> 1]
  /\ phase' = "done"
  /\ UNCHANGED <<manifests, frontier, seen, depth, search, files, edits>>

Start ==
  /\ phase = "idle" /\ ProfileValid
  /\ Enter(Seeds)
  /\ UNCHANGED <<manifests, files, edits, verdict>>

GateStep == Start \/ NoCluster \/ Judge \/ (GraphStep /\ UNCHANGED <<files, edits, verdict>>)

-----------------------------------------------------------------------------
(* record-assurance: proofs of a package's own obligations become records  *)
(* of its report; whatever it refuses leaves the workspace alone.          *)

\* What a proof of an obligation of p says, in the manifest's own terms.
RecordOf(p) ==
  [kind |-> manifests[p].harness, verifier |-> manifests[p].harness,
   config |-> manifests[p].config, supported |-> TRUE, assumptions |-> {}, named |-> TRUE]

Recordable(p, O) ==
  /\ p \in DOMAIN manifests /\ O # {} /\ O \subseteq manifests[p].provides
  /\ manifests[p].harness \in Readers \cap manifests[p].accepts
  /\ O \subseteq files.proofs
  /\ Present(p) => files.reports[p].holds = "ledger" \/ Readable(p)

Blank(p) == [holds |-> "report", package |-> p, records |-> <<>>, bridges |-> <<>>]

\* Mutant: the report is written anew.
BaseBlank(p) == Blank(p)

\* A report of p is added to; a feature ledger is replaced.
Base(p) ==
  IF files.reports[p].holds = "report" THEN files.reports[p] ELSE Blank(p)

\* A bridge record already in the report stays, however old.
Recorded(p, O) ==
  LET checked == manifests[p].establishes \cap DOMAIN files.checks IN
  [Base(p) EXCEPT
     !.records = [o \in O \cup DOMAIN @ |-> IF o \in O THEN RecordOf(p) ELSE @[o]],
     !.bridges = [b \in DOMAIN @ \cup checked |-> IF b \in DOMAIN @ THEN @[b] ELSE files.checks[b]]]

RecordAssurance(p, O) ==
  /\ phase \in {"idle", "done"} /\ Recordable(p, O)
  /\ files' = [files EXCEPT !.reports[p] = Recorded(p, O)]
  /\ phase' = "idle" /\ verdict' = Unread
  /\ frontier' = {} /\ seen' = {} /\ depth' = <<>> /\ search' = NoSearch
  /\ UNCHANGED <<manifests, edits>>

Recording == \E p \in PackageSet : \E O \in SUBSET ObligationSet : RecordAssurance(p, O)

-----------------------------------------------------------------------------
(* The workspace between two runs of the gate.                             *)

Reset ==
  /\ phase \in {"idle", "done"} /\ edits < MaxEdits
  /\ edits' = edits + 1
  /\ phase' = "idle" /\ verdict' = Unread
  /\ frontier' = {} /\ seen' = {} /\ depth' = <<>> /\ search' = NoSearch

EditManifest ==
  /\ Reset
  /\ \E p \in PackageSet : \E m \in Edits.manifest[p] :
       manifests' = [q \in IF m = None THEN DOMAIN manifests \ {p} ELSE DOMAIN manifests \cup {p} |->
                       IF q = p THEN m ELSE manifests[q]]
  /\ UNCHANGED files

EditReport ==
  /\ Reset
  /\ \E p \in PackageSet : \E r \in Edits.report[p] : files' = [files EXCEPT !.reports[p] = r]
  /\ UNCHANGED manifests

\* Any other facet: the profile, the record, the bridges, the call graph,
\* the proofs the verifier left, a manifest that does not parse.
EditFacet ==
  /\ Reset
  /\ \E f \in DOMAIN Edits.facet : \E x \in Edits.facet[f] : files' = [files EXCEPT ![f] = x]
  /\ UNCHANGED manifests

ApproveRecord ==
  /\ Reset /\ Record # None
  /\ \E who \in Edits.reviewers :
       files' = [files EXCEPT !.record.review = who, !.reviews = @ \cup {who}]
  /\ UNCHANGED manifests

\* The last ruling over a version of the record counts.
RuleRecord ==
  /\ Reset /\ Record # None
  /\ \E ratified \in {files.ratified \cup {Record}, files.ratified \ {Record}} :
       files' = [files EXCEPT !.ratified = ratified]
  /\ UNCHANGED manifests

Edit == EditManifest \/ EditReport \/ EditFacet \/ ApproveRecord \/ RuleRecord

Init ==
  /\ \E w \in Starts : manifests = w.manifests /\ files = w.files
  /\ phase = "idle" /\ frontier = {} /\ seen = {} /\ depth = <<>> /\ search = NoSearch
  /\ edits = 0 /\ verdict = Unread

Next == GateStep \/ Edit \/ Recording

Spec == Init /\ [][Next]_vars

-----------------------------------------------------------------------------
(* Properties.                                                             *)

\* The closure is everything the seeds require, directly or not, and what a
\* seed requires itself is at depth 1, however else it is met (compute_closure).
ClosureIsReach ==
  phase \in {"scc", "judge"} =>
    /\ InClosure = Spanned(Seeds)
    /\ DOMAIN depth = UNION {Range(manifests[p].requires) : p \in InClosure}
    /\ \A p \in Seeds : \A o \in Range(manifests[p].requires) : depth[o] = 1

\* The components found are the classes of obligations that depend on each
\* other (strongly_connected_components, cycles).
ComponentsAreMutual ==
  phase = "judge" => search.found = Mutual(InClosure) /\ search.stack = <<>>

\* Both computations, told one step at a time, end with what they are for.
AlgorithmsRight == ClosureIsReach /\ ComponentsAreMutual

Judged == phase = "done" /\ verdict.status # "none"

\* No release, degraded or not, without evidence: whatever the seeds require
\* through any number of work packages has one provider, whose record names a
\* proof that still re-establishes it, is derived from the provider's manifest
\* and satisfies everyone that requires it.
ReleasedMeansProved ==
  Judged /\ verdict.exit = 0 =>
    \A p \in Spanned(Seeds) : \A o \in Range(manifests[p].requires) :
      \E q \in DOMAIN manifests :
        /\ \A x \in DOMAIN manifests : o \in manifests[x].provides <=> x = q
        /\ Present(q) /\ o \in DOMAIN files.reports[q].records
        /\ LET r == files.reports[q].records[o] IN
             /\ r.supported /\ r.named /\ o \in files.proofs
             /\ r.kind = manifests[q].harness /\ r.kind \in manifests[p].accepts
             /\ r.assumptions \subseteq manifests[p].allows

\* The conditions that fail in the workspace, told without the gate's closure.
ReallyFailing ==
  LET S == Spanned(Seeds)
      all == {p \in DOMAIN manifests : Present(p)}
      within(p) == UNION {r.assumptions : r \in Entries(p)}
  IN {c \in Conditions :
        CASE c = "single_verifier_system" ->
               \E p, q \in S \cap all : \E r \in Entries(p), t \in Entries(q) :
                 {r.kind, t.kind} \subseteq Verifiers /\ r.kind # t.kind
          [] c = "protocol_class_all_pairwise" ->
               \E p \in S : \E b \in manifests[p].establishes : files.bridges[b] = "n-ary"
          [] c = "transitive_assumptions_within_policy" ->
               \E p \in S \cap all : \E q \in Seeds :
                 /\ manifests[q].provides # {} /\ ~(within(p) \subseteq manifests[q].allows)
          [] c = "scc_wellfoundedness_discharged" ->
               \E o \in ObligationSet :
                 o \in DependsOn(o, S) /\ ClassOf(o, S) \notin Profile.discharges
          [] c = "unresolved_indirect_calls_at_or_above_medium" ->
               files.calls = None \/ files.calls.risky > 0
          [] c = Generic ->
               \E p \in all : \E r \in Entries(p) : r.kind \in Bounded}

\* A cluster that closes meets every closure condition over the whole
\* closure: assumptions any number of hops down are within every entry policy,
\* each cycle is discharged by its exact members, one verifier owns it all,
\* and nothing in the workspace is bounded.
ClosesMeansConditionsHold == Judged /\ verdict.status = "closes" => ReallyFailing = {}

\* "Degraded: a declared degradation record whose own acceptance is
\* provenanced and ruled on covers the closure conditions that failed": the
\* record as it is on disk, each failing condition named in it.
DegradedIsRuled ==
  Judged /\ verdict.status = "degraded" =>
    /\ Record # None
    /\ Record.review \in files.reviews /\ Record \in files.ratified
    /\ ReallyFailing \subseteq Record.failed

\* "gate-g14 may refuse where validate-closure accepts; the reverse never
\* happens", where it is so: what the gate releases, validate-closure refuses
\* for nothing but a profile outside the canonical directory, which the gate
\* does not look for.
GateAgreesWithValidator == Judged /\ verdict.exit = 0 => ClosureFindings \subseteq {"misplaced profile"}

\* The gate has nothing to say of the record of p's obligation o.
Accepted(p, o) ==
  /\ p \in DOMAIN manifests /\ Readable(p) /\ o \in DOMAIN files.reports[p].records
  /\ LET r == files.reports[p].records[o] IN
       Certified(r, o) /\ Derived(manifests[p], r) /\ Satisfies(manifests[p], r)

\* record-assurance refuses "rather than emit a report gate-g14 would fail
\* closed on": the gate accepts each record it writes, and what the gate
\* accepted of the report before, obligations and bridges, it still accepts.
RecordingIsAccepted ==
  [][\A p \in PackageSet : \A O \in SUBSET ObligationSet :
       RecordAssurance(p, O) =>
         /\ \A o \in O \cup {x \in ObligationSet : Accepted(p, x)} : Accepted(p, o)'
         /\ \A b \in Bridges :
              Readable(p) /\ b \in DOMAIN files.reports[p].bridges =>
                files'.reports[p].bridges[b] = files.reports[p].bridges[b]]_vars

=============================================================================

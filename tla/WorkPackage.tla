----------------------------- MODULE WorkPackage -----------------------------
(* Stage 7: generate-work-package derives the manifest of a work package     *)
(* from a plan and the accepted artifacts (generate_work_package.py 161-334, *)
(* 573-638; work_package_manifest.py) and has validate_work_package.py check *)
(* what it derived, while people edit the files it reads.  What happens from *)
(* the grant to the written file is GrantedWriters'.                         *)
(*                                                                           *)
(* One cluster with its closure profile and one crate.  A file is its        *)
(* content, which stands for its hash, and an edit may put back what another *)
(* one changed.  Well-formedness of names is left out; duplicates are not.   *)
EXTENDS Globs

CONSTANTS
  Interactions, Bridges, Boundaries,  \* the artifact files, by identity
  FixedRunners,  \* WITNESS_RENDERER_INTEGRITY_PATHS
  Adjudicator,   \* the entry of gate_integrity that is not a file
  Projects,      \* descriptor, closure profile, files and receipts to start from
  Plans,         \* the plan documents
  Editable,      \* <<file, content>>: what people write
  Paths,         \* the paths the write-set properties range over
  MaxEdits, None

ASSUME BoundAssumption == MaxEdits \in Nat
\* A receipt lists files of the project.
ASSUME ReceiptAssumption ==
  \A start \in Projects : \A receipt \in start.receipts : DOMAIN receipt \subseteq DOMAIN start.files

\* A pattern names no letter Other stands for; the path of a renderer is read
\* as it is written.
Patterns == Seq(Seq(STRING \ {Other}))
ASSUME PatternAssumption ==
  /\ \A d \in Plans \cup Projects : Range(d.allowed) \cup Range(d.protected) \subseteq Patterns
  /\ \A r \in FixedRunners : r \in Patterns /\ Segments(r) = r
  /\ Paths \subseteq Seq(Seq(STRING))

VARIABLES
  project,   \* what nobody edits: descriptor, closure profile, receipts
  file,      \* the content of each file, or None
  job,       \* the generation under way
  manifest,  \* the manifest written, or None
  edits,
  touched    \* history: the files edited in each window of the generation

vars == <<project, file, job, manifest, edits, touched>>

Idle == [step |-> "idle"]

\* From the first hashing of the receipts to the loading of what they list,
\* and from there to the second hashing.
Untouched == [hashed |-> {}, loaded |-> {}]
Window == CASE job.step = "specs" -> {"hashed"}
            [] job.step \in {"bridges", "derive"} -> {"loaded"}
            [] OTHER -> {}

(***************************************************************************)
(* What the generator reads (_load_authoritative_state).                   *)
(***************************************************************************)

\* load_project_descriptor: no path is both writable and protected.
DescriptorValid ==
  \A a \in Range(project.allowed), p \in Range(project.protected) : ~CanOverlap(a, p)

\* check_artifact_manifest: every listed file is there, as it was accepted.
Standing(receipt) == \A p \in DOMAIN receipt : file[p] # None /\ file[p] = receipt[p]

\* validate_crate: an interaction that cannot be pairwise needs its record.
ValidInteractions ==
  {i \in Interactions : /\ file[i] # None /\ file[i].valid
                        /\ file[i].needs # None => file[file[i].needs] # None}
Valid(ids) == {x \in ids : file[x] # None /\ file[x].valid}
Contents(ids) == [x \in ids |-> file[x]]

(***************************************************************************)
(* derive_manifest.                                                        *)
(***************************************************************************)

Single(S) == \E x \in S : S = {x}

\* _reject_duplicates.
Unique(seq) == Cardinality(Range(seq)) = Len(seq)

\* _matching_reliances: <<interaction, reliance>>, over every valid
\* interaction, accepted or not.
Matching(read, o) ==
  {m \in UNION {{i} \X read.interactions[i].reliances : i \in DOMAIN read.interactions} :
     m[2].obligation = o}
Stated(read, o) == {m[2].assurance : m \in Matching(read, o)}

\* _reliance_for_obligation: the reliances agree, to the letter.
Assurance(read, o) == CHOOSE a \in Stated(read, o) : TRUE

\* _check_assurance_against_policy.
PolicyAdmits(assurance) ==
  /\ Range(assurance.kinds) \subseteq {project.owning} \cup project.supporting
  /\ project.owning \in Range(assurance.kinds)

Resolves(read, o) ==
  Single(Stated(read, o)) /\ PolicyAdmits(Assurance(read, o))

Needed(plan, read) ==
  Range(plan.provides) \cup Range(plan.requires)
    \cup {read.bridges[b].requires : b \in Range(plan.bridges)}

\* _validate_interaction_config_scope.
ScopesAgree(plan, read) ==
  \A o \in Needed(plan, read) : \A m \in Matching(read, o) :
    read.interactions[m[1]].scope = plan.scope

\* _derive_provided_guarantees, _derive_required_guarantees,
\* _derive_preconditions and the package that is its own supplier.
ObligationsResolve(plan, read) ==
  /\ Unique(plan.provides) /\ Unique(plan.requires) /\ Unique(plan.bridges)
  /\ Range(plan.bridges) \subseteq DOMAIN read.bridges
  /\ ScopesAgree(plan, read)
  /\ plan.harnesses = Range(plan.provides)
  /\ \A o \in Needed(plan, read) : Resolves(read, o)
  /\ Range(plan.provides) \cap Range(plan.requires) = {}

\* _validate_assumption_ref and check_trusted_assumptions: a reference into
\* the registry is taken as it is, one to a boundary has to be among its
\* assumptions.
RefKnown(boundaries, ref) ==
  ref.boundary # None =>
    /\ ref.boundary \in DOMAIN boundaries
    /\ ref.assumption \in boundaries[ref.boundary].assumptions

\* _derive_assumptions: mitigations of any kind and any risk, as declared.
AssumptionsResolve(plan, read) ==
  /\ Unique([k \in DOMAIN plan.assumptions |-> plan.assumptions[k].ref])
  /\ \A e \in Range(plan.assumptions) :
       RefKnown(read.boundaries, e.ref) /\ e.mitigations # {}

\* _derive_dependencies, _derive_functions, _derive_gates and the checks of
\* the closure profile.
IdentityResolves(plan) ==
  /\ plan.package \in project.profile.packages
  /\ project.profile.owner \in {None, project.owning}
  /\ Unique(plan.depends)
  /\ Range(plan.depends) \subseteq project.profile.packages \ {plan.package}
  /\ plan.crates # <<>> /\ Unique(plan.crates) /\ Range(plan.crates) \subseteq project.crates
  /\ plan.gates # <<>> /\ Unique(plan.gates)

\* _derive_write_policy up to the overlaps: the plan narrows the descriptor.
Narrows(plan) ==
  /\ \A seq \in {plan.allowed, plan.protected, project.allowed} : seq # <<>>
  /\ \A seq \in {plan.allowed, plan.protected, project.allowed, project.protected} :
       Unique(seq) /\ \A p \in Range(seq) : ~Escapes(p)
  /\ \A a \in Range(plan.allowed) : \E r \in Range(project.allowed) : PatternWithin(a, r)
  /\ \A r \in Range(project.protected) : \E p \in Range(plan.protected) : PatternWithin(r, p)

\* Mutant: protected patterns are all that has to be disjoint.
WritePolicyDerivesUncovered(plan) ==
  /\ Narrows(plan)
  /\ \A a \in Range(plan.allowed), p \in Range(plan.protected) : ~CanOverlap(a, p)

\* The rest of it and _check_witness_renderer_coverage.
WritePolicyDerives(plan) ==
  /\ Narrows(plan)
  /\ \A a \in Range(plan.allowed), p \in Range(plan.protected) : ~CanOverlap(a, p)
  /\ \A r \in FixedRunners :
       /\ \E p \in Range(plan.protected) : CoversPath(p, r)
       /\ \A a \in Range(plan.allowed) : ~CoversPath(a, r)

\* _derive_gate_integrity: the fixed renderers and what the descriptor names.
GateRunners == (Range(project.runners) \ {Adjudicator}) \cup FixedRunners

RunnersHash == 
  /\ Unique(project.runners)
  /\ \A r \in GateRunners : ~Escapes(r) /\ file[r] # None

\* Mutant: what the receipt states is taken as it is.
ArtifactsHashTrusted(receipt) == receipt # <<>>

\* _derive_artifact_set_hash: hashed again, now that the content is loaded.
ArtifactsHash(receipt) == receipt # <<>> /\ Standing(receipt)

Derivable(plan, read) ==
  /\ IdentityResolves(plan)
  /\ Single(project.receipts)
  /\ ObligationsResolve(plan, read)
  /\ \A receipt \in project.receipts : ArtifactsHash(receipt)
  /\ RunnersHash
  /\ WritePolicyDerives(plan)
  /\ AssumptionsResolve(plan, read)

\* "sources" is for the properties: the interactions something was taken from.
Derived(plan, read) ==
  [package |-> plan.package,
   artifacts |-> CHOOSE receipt \in project.receipts : TRUE,
   runners |-> [r \in GateRunners |-> file[r]],
   allowed |-> Range(plan.allowed), protected |-> Range(plan.protected),
   provided |-> [o \in Range(plan.provides) |-> Assurance(read, o)],
   required |-> [o \in Range(plan.requires) |-> Assurance(read, o)],
   established |-> [b \in Range(plan.bridges) |-> Assurance(read, read.bridges[b].requires)],
   assumptions |-> Range(plan.assumptions),
   sources |-> {m[1] : m \in UNION {Matching(read, o) : o \in Needed(plan, read)}}]

(***************************************************************************)
(* validate_data of validate_work_package.py, on the files as they are.    *)
(***************************************************************************)

WriteSetFindings(m) ==
  {"anchoring" : p \in {q \in m.allowed \cup m.protected : Escapes(q)}}
    \cup {"overlap" : pair \in {k \in m.allowed \X m.protected : CanOverlap(k[1], k[2])}}

IntegrityFindings(m) ==
  {"integrity" : r \in {q \in DOMAIN m.runners : file[q] = None \/ file[q] # m.runners[q]}}

RendererFindings(m) ==
  {"renderer" : r \in {q \in FixedRunners :
     \/ q \notin DOMAIN m.runners
     \/ \A p \in m.protected : ~CoversPath(p, q)
     \/ \E a \in m.allowed : CoversPath(a, q)}}

AssumptionFindings(m) ==
  {"assumption" : e \in {f \in m.assumptions : ~RefKnown(Contents(Valid(Boundaries)), f.ref)}}

\* check_witness_mitigation_risk_tier, which derive_manifest has no part of.
MitigationFindings(m) ==
  {"mitigation" : e \in {f \in m.assumptions :
     "witness" \in f.mitigations /\ (f.risk # "low" \/ "human-risk-acceptance" \notin f.mitigations)}}

Findings(m) ==
  WriteSetFindings(m) \cup IntegrityFindings(m) \cup RendererFindings(m)
    \cup AssumptionFindings(m) \cup MitigationFindings(m)

(***************************************************************************)
(* One generation, and the people around it.                               *)
(***************************************************************************)

Init ==
  /\ project \in Projects
  /\ file = project.files
  /\ job = Idle
  /\ manifest = None
  /\ edits = 0
  /\ touched = Untouched

\* The plan and the descriptor are read; what either refuses ends here.
GenStart(plan) ==
  /\ job = Idle /\ manifest = None
  /\ DescriptorValid
  /\ job' = [step |-> "receipts", plan |-> plan]
  /\ touched' = Untouched
  /\ UNCHANGED <<project, file, manifest, edits>>

Pass(ok, next) == job' = IF ok THEN next ELSE Idle

ReadReceipts ==
  /\ job.step = "receipts"
  /\ Pass(\A receipt \in project.receipts : Standing(receipt),
          [job EXCEPT !.step = "specs"])
  /\ UNCHANGED <<project, file, manifest, edits, touched>>

\* "since" is for the properties: the edits there had been.
LoadInteractions ==
  /\ job.step = "specs"
  /\ job' = [step |-> "bridges", plan |-> job.plan,
             read |-> [boundaries |-> Contents(Valid(Boundaries)),
                       interactions |-> Contents(ValidInteractions), bridges |-> <<>>],
             since |-> edits]
  /\ UNCHANGED <<project, file, manifest, edits, touched>>

LoadBridges ==
  /\ job.step = "bridges"
  /\ job' = [job EXCEPT !.step = "derive", !.read.bridges = Contents(Valid(Bridges))]
  /\ UNCHANGED <<project, file, manifest, edits, touched>>

Derive ==
  /\ job.step = "derive"
  /\ job' = IF Derivable(job.plan, job.read)
              THEN [step |-> "validate", manifest |-> Derived(job.plan, job.read),
                    since |-> job.since]
              ELSE Idle
  /\ UNCHANGED <<project, file, manifest, edits, touched>>

Validate ==
  /\ job.step = "validate"
  /\ Pass(Findings(job.manifest) = {}, [step |-> "write", manifest |-> job.manifest])
  /\ UNCHANGED <<project, file, manifest, edits, touched>>

Write ==
  /\ job.step = "write"
  /\ manifest' = job.manifest
  /\ job' = Idle
  /\ UNCHANGED <<project, file, edits, touched>>

\* Any content, one the file had before among them.
Edit(f, content) ==
  /\ edits < MaxEdits /\ manifest = None
  /\ edits' = edits + 1
  /\ file' = [file EXCEPT ![f] = content]
  /\ touched' = [w \in DOMAIN touched |-> IF w \in Window THEN touched[w] \cup {f} ELSE touched[w]]
  /\ UNCHANGED <<project, job, manifest>>

Next ==
  \/ \E plan \in Plans : GenStart(plan)
  \/ ReadReceipts \/ LoadInteractions \/ LoadBridges \/ Derive \/ Validate \/ Write
  \/ \E e \in Editable : Edit(e[1], e[2])

Spec == Init /\ [][Next]_vars

(***************************************************************************)
(* Properties.                                                             *)
(***************************************************************************)

\* What the implementing agent may write under a manifest, path by path, it
\* may write under the descriptor: within allowed_roots, outside every
\* protected root and never the witness renderer, although everything is
\* decided on patterns ("the plan narrows the descriptor's allowed_roots").
WritesWithinDescriptor ==
  manifest # None =>
    \A path \in Paths : (\E a \in manifest.allowed : Matches(a, path)) =>
      /\ \E r \in Range(project.allowed) : Matches(r, path)
      /\ \A r \in Range(project.protected) : ~Matches(r, path)
      /\ path \notin FixedRunners

\* What a manifest took from an accepted interaction is what was accepted,
\* whatever is edited around its loading, unless the file was both changed
\* between the first hashing and the loading and put back between the loading
\* and the second hashing, which neither hash can see.
ContentIsAccepted ==
  manifest # None =>
    \A i \in (manifest.sources \cap DOMAIN manifest.artifacts) \ (touched.hashed \cap touched.loaded) :
      \A r \in manifest.artifacts[i].reliances :
        \A part \in {manifest.provided, manifest.required} :
          r.obligation \in DOMAIN part => part[r.obligation] = r.assurance

\* Unless a file was edited since it was loaded, validate-work-package accepts
\* what derive_manifest derives, but for witness mitigations, which it alone
\* judges: the two decide the same questions, each in code of its own.
DerivedIsValid ==
  job.step = "validate" /\ job.since = edits => Findings(job.manifest) \subseteq {"mitigation"}
=============================================================================

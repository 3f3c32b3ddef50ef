# Ligature: a verification development

Ligature is a command-line tool (`scripts/pipeline.py`, one process per
command) that turns evidence and LLM drafts into reviewed artifacts of a port
project, promotes sets of them, and gates releases on them. It has no daemon, no
database and almost no locks: its whole state is the files of a workspace, and
what makes it hard is that several commands, people and agents work on those
files at once, that a command is a dozen file operations, that any of them
may fail or be the last one before a crash, and that what one command concluded
of a file is used long after the file has changed. The TLA+ modules here model
the commands that write one file operation at a time, and the gates that read by
what they conclude from files that people go on editing.

## 1. Inventory

| Component | State it keeps | Operations | What is hard | Correct when |
|---|---|---|---|---|
| Human review checkpoint (`review_checkpoint.py`, `pipeline.cmd_draft/approve*`) | `<target>.draft`, `<target>`, `ci/results/review_log.jsonl` | `draft`, `approve`, `approve-pair`, `approve-exemption-pair` | no lock between processes; `approve` is write, unlink, log with no undo; the pair has a rollback over two targets, two drafts and the log | only validated documents stand; a draft is promoted once; a pair is all or none; what stands is logged |
| Interaction, protocol-debt and exemption gates (`validate_interaction.py`, `validate_protocol_debt.py`, `validate_exemption.py`) | none; read one crate's files | `validate`, called by `approve`, `accept-promotion` | an interaction and the record covering it are each invalid without the other; evidence records and boundary contracts, which no receipt hashes unless told to, decide as well | nothing uncovered is approved alone |
| Evidence promotion (`promote_evidence.py`) | `evidence/<id>.json[.draft]`, `evidence_promotions.jsonl` | `promote-evidence` | rename by name of a draft validated earlier; trail and file not one transaction | the trail is the promotions |
| Stage 4.5 promotion (`generate_promotion_receipt.py`, `validate_promotion_receipt.py`) | `human_rulings.jsonl`, `specs/_promotions/<cluster>.json`, an entry of `review_log.jsonl` | `record-ruling`, `accept-promotion`, `validate-promotion` | every accepted file is read four times; three trails written by three other commands are read at different moments | a receipt states what humans ratified and approved, and is logged |
| Write grants (`write_authorization.py`, `write_set.py`) | `ci/results/protected-writes.jsonl` | `authorize-write`, `write-set-check` | grants expire, are re-issued, replayed; the ledger itself is a protected file | a protected write is licensed by a live grant of its issue, path and operation |
| Granted writers (`scaffold_crate.py`, `configure_crate_profile.py`, `configure_cargo_profile.py`, `generate_work_package.py`) | `Cargo.toml`, `src/lib.rs`, `ci/manifest/WP-*.json`, ledger events | one command each | `flock` taken by some writers of the ledger and not by others; audit line and file are two writes | no protected write without a grant and an event; a one-shot grant is spent once |
| Work-package derivation (`generate_work_package.py`, `work_package_manifest.py`, `validate_work_package.py`) | none until it writes the manifest | `generate-work-package`, `validate-work-package` | receipts are hashed, then files are loaded, then hashed again; containment and overlap of glob patterns | a manifest grants no path its descriptor does not, states what was accepted, and validates |
| Installation and policy (`ligature_install.py`, `adjudicator.py`) | installed files, the install manifest, the adjudicator pin, a policy document's version line | `init`, `migrate`, `accept-policy`, `doctor`, `version --verify` | many files, no transaction; planned from one reading, recorded from another; builds are swapped | a rerun converges; edited files are not overwritten unasked; a policy moves by review only |
| Project state (`project_state.py`, `exit_codes.py`) | none | `status`, `check`, `check next` | one verdict from six gates, nine validators, the write set, the policy and the pins; an agent loops on the one next action | a failure is never reported as a pass; the loop ends |
| Realized-call and witness gates (`extract_c_static.py`, `gate_r1_g16.py`, `check_bridges.py`, `gate_g9.py`, `gate_g18.py`..`gate_g20.py`) | the C_static report, bridge harnesses and their results, renderings | `extract-c-static`, `check-bridges`, `render-witness`, `gate ...` | each result is of a source, a harness, an owner that change afterwards; human judgements are carried over by ordinal | what a clean check lets pass is of the files as they are |
| Release gates (`gate_g14.py`, `satisfies.py`, `validate_closure.py`, `degradation_review.py`) | none | `gate g14`, `validate-closure` | transitive closure with cycles, conditions over all of it, a degradation record that excuses some | nothing is released without evidence |
| Assurance recording (`record_assurance.py`) | `report.emit` of a work package | `record-assurance` | merges into a report others wrote | the gate accepts what it writes and still accepts what was there |
| Single-file validators, generators of projections | none, or one generated file | `validate ...`, `render ...` | formats | the schema |
| Planning reports | none | `report ...` | none | the arithmetic |

Components interact through files only: a command validates against files other
commands wrote, and reads trails (`review_log.jsonl`, `human_rulings.jsonl`,
`protected-writes.jsonl`) to learn what was approved, ruled on or authorized.
`check` reads everything and decides what an agent does next.

## 2. Modules

| Module | Models |
|---|---|
| `AuditLog` | a JSON-lines trail: append, truncating rollback, fragments, what readers accept |
| `InteractionGates` | G4, G5, G15, R2, cover resolution and the coverage derived from one crate's files, evidence records and boundary contracts, as pure operators |
| `ReviewCheckpoint` | `draft`, `approve`, `approve-pair`, `approve-exemption-pair` on drafts, targets and the review log |
| `EvidencePromotion` | `promote-evidence` |
| `PromotionContract` | the abstract promise of Stage 4.5 |
| `Promotion` | `record-ruling` and `accept-promotion`, with approvals as whole commands and hand edits |
| `WriteGrants` | what a reader of the grant ledger accepts as authority, as pure operators |
| `GrantedWriters` | `authorize-write`, `generate-work-package`, `configure-cargo-profile`, `configure-crate`, `scaffold-crate` on the ledger, its lock and the files they write |
| `Globs` | path patterns: matching, overlap, containment, as pure operators |
| `WorkPackage` | `derive_manifest` over what it loads, with the two hashings around the loading, and `validate-work-package` of the result |
| `Installation` | `init`, `migrate --upgrade/--force/--prune`, `accept-policy`, the pin, `doctor`'s verdict |
| `ClosureGraph` | the breadth-first closure and the iterative component search of G14, one step of each loop at a time |
| `ReleaseGate` | G14's verdict over that closure, `validate-closure`, the degradation record, `record-assurance` |
| `RealizedCalls` | `extract-c-static`, the tiers humans give calls, R1/G16 |
| `BridgeChecks` | harness generation, `check-bridges`, G9 |
| `WitnessGates` | `render-witness`, G18, G19, the refresh of rendered witnesses |
| `WriteSet` | `write-set-check` over files by what makes them accounted for |
| `ConsolidatedCheck` | `check`, its exit code and next action, and the loop of the skill around it |
| `Absent` | the one value for what is not there, shared by those modules |
| `MC*` | instances for TLC |
| `AuditLogProofs`, `ReviewCheckpointProofs`, `PromotionProofs`, `GrantedWritersProofs`, `WorkPackageProofs`, `InstallationProofs`, `ConsolidatedCheckProofs`, `ReleaseGateProofs` | lemmas and theorems |

`InteractionGates` and `AuditLog` are extended by `ReviewCheckpoint` and
`Promotion`; `Promotion` instantiates `PromotionContract` with a refinement
mapping. `GrantedWriters` extends `WriteGrants`, which extends `AuditLog`.
`ReleaseGate` extends `ClosureGraph`; `WorkPackage` extends `Globs`.
`ConsolidatedCheck` is the composition of `RealizedCalls`, `BridgeChecks`,
`WitnessGates` and `WriteSet`, which share no variable: what relates them is
`check`, which reads all of them, and the agent and the people, who act on any.

### Correspondence

* A *process* (`Actors`) is one running command at a time. `pc[a]` is its next
  file operation and `job[a]` its local variables (in `Installation`, `cmd[a]`
  is both); they vanish when the command returns, raises or dies. Between two
  operations anything else may happen.
* An operation in `FailPoints` may raise; the model then takes the code's
  exception path (the rollback handlers of `approve_pair`, `promote_evidence`,
  `accept_promotion`; nothing in `approve` and `record_ruling`). In `CrashPoints`
  the process may die: files stay as they are. `"partial"` in either set lets an
  append be cut short, which leaves a `Fragment`.
* A file, a body or a text is a value, and a hash is the value it is the hash
  of. What the gates read of an artifact is given by sets and functions:
  `WellFormed` (what the file decides alone), `NonPairwise`,
  `BoundaryRequired`, `Reliant`, `Links` (evidence), `EdgeOf` (call edge),
  `Stamped`.
* `ground` holds what the same validation reads beside the artifacts: the ids of
  the valid evidence records and the edges with a valid boundary contract.
  `Reground` is anybody promoting, editing or deleting such a file; in
  `ReviewCheckpoint` at every step, in `Promotion` wherever other files are
  written too. G5 refuses in `accept-promotion` only; before that it warns.
* A review date is folded into the reviewer value: (reviewer, date) is what the
  provenance check compares.
* A line of a trail has length one, so a recorded file size is a number of
  lines. A truncate past the end of the file, which grows it by NUL bytes, is
  modelled as that many `Fragment`s. A fragment that a later append
  extends becomes a `Damaged` line, which readers refuse.
* `write_text` is two operations, because open truncates: `Torn` is the empty
  file in between, which JSON readers refuse.
* `Promotion` has `approve` and the pair commands as single steps; their own
  interleavings are in `ReviewCheckpoint`.
* A grant id is a hash of the binding, so in `WriteGrants` a grant *is* its
  binding, and naming one with `--grant-id` is naming the grant (`asked`). A
  path pattern is the set of files it covers. The descriptor protects the files
  of `Protected`, not the ledger; its supervisor whitelist may be edited.
* `holder` is the `flock` of the ledger, released by returning, raising and
  dying alike. A locked writer's steps are its reads and writes of shared
  files: `judge` reads the ledger, `inspect` and `recheck` the target, `write`
  replaces it, `verify`/`validate`/`relock`/`final` check the outcome, `audit`
  appends the event and `restore` is the exception path. What `cargo` and
  `verus` answer, and whether they rewrite `Cargo.lock`, is nondeterministic.
* `Installation`: the executable is a build (`Versions`) with the text it
  renders for each path; `Swap` puts another one on the PATH. A command keeps
  the build it was started as. `stage` takes the plan, `apply` writes file after
  file, `Record` reads the disk once more and writes the manifest; `scan` and
  `prune` remove what was retired; `stamp` and `accept` are `accept-policy`.
* `ClosureGraph`: `frontier`, `seen`, `depth` and the fields of `search` are the
  local variables of `compute_closure` and `strongly_connected_components`, and
  an action is one turn of a loop. The queue is a set of which a nearest member
  is visited next, in any order among the equally near, which includes the
  code's. Manifests, reports, profile and record are one snapshot per run of the
  gate.
* `RealizedCalls`: a method body is the sequence of its calls with the names it
  binds; a report row has the call, its ordinal in the method, what it resolves
  to, the callee's shape and body, and a tier with its author.
* `BridgeChecks`: a harness is of a bridge's text and of a verifier; a check
  keeps both and its result. `WitnessGates`: a witness is its seed, renderer and
  the hash the last rendering had.
* `ConsolidatedCheck`: `Check` computes the findings of every gate from the
  files as they are, folds them into the exit code and the next action, and is
  one step; `Act` performs that action; people change one facet of the workspace
  per step, at any time, and a loop that stopped starts again when they do. The
  code's *skill* (`docs/ligature-skill.template.md` 138-156) is what an agent
  does with the answer.
* `WorkPackage`: names are sequences of letters, a letter standing for a name; a
  path is a sequence of names, a pattern a sequence of names with `*`, `?` and
  `**`. A file is its content, which stands for its hash, and an edit may put
  back what another one changed. `receipts` (the first hashing), `specs` (the
  interactions are loaded), `bridges` (loaded after them), `derive` (with the
  second hashing), `validate` and `write` are the generator's readings in order.
* `issued`, `used`, `lost`, `unlogged`, `died`, `restaged`, `author`, `torn`,
  `judged`, `passed`, `retracted` and `touched` are history: what was issued,
  which changes stand, who wrote a text, what a command left unfinished, what a
  human looked at, which harness a verifier passed, which edges lost their
  boundary contract, which files were edited on either side of a loading. No
  action reads them.

## 3. Runs

| Run | Question | Result |
|---|---|---|
| `ReviewSequential` | one command at a time, failing and dying at any operation: is a pair that does not die all-or-none, which approvals go unlogged, can an interaction end up uncovered with nothing left to approve? | it is; only single approvals cut short; only by losing its boundary contract behind its approval |
| `ReviewConcurrent` | two commands interleaved and failing: is anything unvalidated installed, is a draft promoted twice? | neither |
| `EvidenceSequential` | one promotion at a time, failing and dying, drafts staged meanwhile: is every promotion logged, which lines have no promotion, which records can be invalid? | every one; one per command that died behind its append; only those restaged under their promotion |
| `PromotionSequential` | one command, failing and dying, appends cut short, approvals and hand edits under it but for one window: are receipts logged and provenanced, ratified by the *last* ruling, and does what a standing one lists pass the gates, while evidence records and boundary contracts come and go? | yes; an interaction listed with its cover does as long as the evidence it links is there |
| `PromotionConcurrent` | everything interleaved: is an unratified version ever receipted, and is the contract implemented? | never; it is |
| `GrantSequential` | one command, failing and dying anywhere, files edited by hand under it, grants expiring, the whitelist changing: does a protected file change only under a live grant, once if the grant is one-shot, with its event; is `Cargo.lock` put back, and the crate's pin the recorded one? | yes; but for what died or failed twice, which `lost` names |
| `GrantConcurrent` | two commands, some failing or dying: is every event behind its grant, does a writer replace what it read, does a one-shot grant stay spent, does a waiting writer get the lock? | yes, with `scaffold-crate` the one exception to the second |
| `InstallSequential` | `init`, `migrate` with all its flags and `accept-policy`, stopping at any write, builds swapped and files edited between: do edits survive, is a merge base always a rendered text, does a conflict mean an edit, does a policy move by review only, does an upgrade end in what `doctor` calls healthy? | yes; `--prune` and an interrupted write are the named exceptions |
| `ReleaseGate` | workspaces that close, close over a discharged cycle or are released as degraded, edited twice: do the two graph algorithms compute closure and components, is anything released without evidence or closed against a condition anywhere in the closure, is an excuse in force that nobody ruled on, does `validate-closure` pass what is released, does `record-assurance` keep what the gate accepted? | they do; nothing is; none is; but for a misplaced profile; it does |
| `ConsolidatedCheck` | a fresh and a released workspace, two things people do before, during or after the agent's loop: what does exit code 0 mean, are the inquiries and bridges it lets pass of the files as they are, does a refresh keep human judgements, does the loop end? | what the gates that ran conclude from the files (section 3 names what passes because a gate does not look: a stale report, G18 without witness specs); yes; yes; but for four dead ends |
| `WorkPackage` | every plan against every project, two edits anywhere between the reads, the second of which may undo the first: is what a manifest grants within the descriptor, path by path; is what it states of an accepted interaction what was accepted; does the validator accept what is derived? | yes; unless the file is changed before its loading and put back behind it; but for witness mitigations |
| `TierInherited` | is the low tier of a call in a clean check one a human gave *that* call? | **no** |

The *no* is the finding of `PROJECT.json`: a tier is carried over by the ordinal
of the call in its method, so a call that replaces another at its ordinal inherits
its tier, review block included, while `gate_r1_g16.py:467-470` promises that an
unexamined medium never silently passes and `extract_c_static.py:50-52` that no
`low` is emitted for what nobody looked at. (A call put in front of others moves
every ordinal behind it, with the same effect; two edits suffice for a replaced
one.)

### Fairness

`FairSpec` of `GrantConcurrent`: weak fairness of a process's steps under the
lock, because the operating system runs what can run, and strong fairness of
taking it, because `flock` blocks and serves those that wait. `FairSpec` of
`ConsolidatedCheck`: weak fairness of `Check \/ Act`, because the skill has the
agent go on until there is no next action or a human has to decide. Elsewhere
none is assumed: a command may stop at any point, and the program promises
nothing about when the next one is started. `CHECK_DEADLOCK FALSE` is set where
the bounds on stagings, trail lines or edits stop the instance, or a loop, a
gate or a generation has ended.

### Bounds, and why they are enough

* `MaxStaged` (stagings per draft): one staging to promote and one to
  restage under or after a running command.
* `MaxLog`, `MaxRulings`, `MaxReviews`, `MaxLines`: no command *starts* past the
  bound; those running still append, so every rollback sees lines before and
  behind its own.
* One interaction id where the properties are about one interaction with its
  debt record and exemption (cover is per id); two evidence records.
* Three grounds in the sequential runs: everything there, no evidence, no boundary
  contract; so each gate meets its ground present, absent and withdrawn. With
  them one reviewer, whose value no gate reads: two take `ReviewSequential` past
  the time a run may have. The concurrent runs have one ground, so that G5 and
  the loss of a contract are met one command at a time; the theorems are for any
  grounds and reviewers.
* Two processes where processes matter: every interference in the code is
  between a command and the files another one leaves. Actors are
  interchangeable, which is the only symmetry used.
* The grant runs: two ledger lines are a grant and the event of its change, a
  third is a second attempt under it or another grant; a grant lives for one
  second of a clock that takes one, so it is met live and expired; a pattern
  grant, a supervisor's and a one-shot grant occur, and two whitelists, one of
  which does not name the supervisor. `GrantConcurrent` has two kinds of grant
  and no clock: expiry is no concern of the lock.
* `PromotionSequential` leaves one window closed, from validating a file to the
  last look at its text: an edit undone within it (A-B-A) makes
  `StandingMeansGrounded` false, because the code validates B and hashes A, and
  one between the second hash and the reading of the review block makes
  `ReceiptProvenanced` false.
* `InstallSequential`: two builds, one of which retires a file, and one file of
  each class (managed with an authority region and pinned, managed and retired,
  owned and normative). Nothing bounds its sequences of commands, swaps and
  edits: the state space is finite. Edits fall between commands; see section 5
  for those within.
* `ReleaseGate`: three packages with an obligation each, in a chain, in a circle
  or on a bounded verifier, so that an assumption, a kind or a cycle can be two
  hops down; two edits are enough to break a condition and to excuse it, or to
  rule and then edit. Edits are chosen per condition of the gate.
* `ConsolidatedCheck`: two things people do; the loop then runs on. One bridge,
  one witness, two owners, two crates, a method with four kinds of call.
* `WorkPackage`: two edits put one in each gap between hashing, loading and
  hashing again, and let the second restore what the first changed. Paths range over one to three of seven names. What the pattern
  algorithms decide was compared with matching, apart from the runs, over 98
  patterns and 3615 paths.

### Seen while modelling, and without a run of their own

* A pair's rollback truncates the log to the size it found
  (`review_checkpoint.py:379`), and so drops a line another approval wrote
  meanwhile, though lines 18-20 call the log append-only. The same in the ledger:
  a failing profile writer removes a grant that `authorize-write`, which does
  not take the lock, reported as recorded (`configure_cargo_profile.py:787`
  against `docs/trust-and-compatibility-boundaries.md:107`).
* A pair approval that dies between its two `os.replace` calls leaves one target
  promoted, although `docs/cli-contract.md:455` calls the pair atomic. A single
  `approve` validates against records that another command can withdraw
  before it writes.
* `mkstemp` failing behind the audit append (`generate_promotion_receipt.py:902`)
  leaves an acceptance without a receipt, against 757-760; a crash there, or
  behind the append of `promote-evidence`, does the same. Approvals that run
  under an `accept-promotion` can leave a receipt whose review blocks the log
  does not hold, and a rejection recorded after the rulings were read does
  not stop it.
* Two `scaffold-crate`, or one and a `configure-crate`, look before either
  writes: an existing manifest is replaced (`scaffold_crate.py:1203` against
  1186-1187).
* `init` on a workspace it refuses has recorded that build's skill version by
  then (`ligature_install.py:769` against 692-694). `migrate --prune` removes an
  edited retired file whose record has no base (1151). `migrate --force X` also
  upgrades and creates every other file (`docs/mode-p-cli-flow.md:150`), and its
  audit leaves the forced file out of `changed_paths` (1207-1223). An edit
  between the plan and the write is overwritten, one between the write and the
  hash becomes a merge base (696-716). A concurrent `accept-policy` and
  `migrate` lose the acceptance (1667-1729). An upgrade that was interrupted,
  followed by another build, is a conflict nobody edited (`torn`).
* `record-assurance` keeps an existing bridge record over a newer check
  (`record_assurance.py:808-821`), so that G9 disagrees until somebody edits the
  report. A misplaced profile fails `validate-closure` (488-497) and not the gate,
  which looks for misplaced records only (`validate_closure.py:612`), although
  `gate_g14.py:116-118` says of a refusal by the validator alone that it "never
  happens": `GateAgreesWithValidator` names it as its one exception. A cluster on
  a bounded verifier can only be degraded.
* A receipt hashes the files its caller lists, though `plan.md:437` has its
  manifest cover evidence records and boundary specs. So an evidence record or a
  boundary contract that the validation of an accepted interaction relied on can
  be deleted under a receipt that stands by its hashes; `validate-interaction`
  then fails (G4, R2) and `validate-promotion` does not. `StandingMeansGrounded`
  says what a standing receipt still implies.
* In `generate-work-package` neither hashing sees a file that is changed before it
  is loaded and put back before it is hashed again
  (`generate_work_package.py:212-234`, `work_package_manifest.py:1433-1434`): the
  manifest then states what nobody accepted. `ContentIsAccepted` names it.
* `check` exits 0 with a gate blocked, say for lack of a C_static report; it
  never exits 2, because an absent descriptor makes the gate state unknown. An
  absent promoted artifact is a medium finding. A report whose caller source
  changed is executed as current, against `docs/cli-contract.md:571-573`. G18 is
  not applicable without witness specs, though a feature may declare them
  required. An exception in a standalone validator is dropped with what it
  would have found (`project_state.py:1209`), which is the one hazard without a
  property: the validators' findings are an input of the model.
* The dead ends of the loop: an evidence draft that does not validate; a bridge
  refresh that yields no record; `refresh-witness` recommended where no backend
  is; a finding for information that contains the word "interaction"
  (`project_state.py:1866`) recommends `author-interaction` for ever.
* `generate-work-package` uses any valid interaction, promoted or not: one that
  no longer validates, its debt record gone, drops out silently and the content
  of another is used. Two reliances whose evidence kinds differ only in order
  contradict each other. The rule about witness mitigations
  (`validate_work_package.py:580-626`) is judged by the validator alone, so a
  plan that breaks it fails late. `write_set._matches_every_path` (450) says no
  of `**/*`, which matches every path; `authorize-write` refuses that pattern,
  the descriptor check does not.

## 4. Proofs

Checked by TLAPS for all values of the constants:

* `ReviewCheckpointProofs`: `TypeCorrect`, `ValidatedOnly`, `PromotedOnce`.
  `OnlyValidated` is not inductive: a rollback installs `job.orig`, and a
  promotion installs the draft read earlier. The strengthening says that every
  document a process holds (`read` past validation, `orig`) has passed its
  validator or stood at the target. `EachDraftPromotedOnce` needs a count over
  processes: a draft that was unlinked and not yet counted belongs to exactly
  one process, so `completed` + processes past the unlink + draft present is at
  most `staged`, by cardinality.
  With one command at a time, `PairsAllOrNone`, `PromotionsLogged` and
  `UncoveredStaged`: nothing locks the files of a review, and a concurrent
  rollback truncates another command's line away (section 3), so without that
  hypothesis all three are false. Their invariants follow a pair through its
  write, its two appends and its rollback (`PairOf`: what stands at each target
  and how long the log is, at each step), the log against what stands promoted
  (`LogInv`), and what an approved or validated interaction is covered by
  (`CoverInv`). The last must not depend on the evidence, which changes at every
  step: it asks for the cover record of whatever interaction stands, validated
  or not (`StandsReady`), and for a contract on the edge or among the
  `retracted` ones (`Bounded`).
* `PromotionProofs`: `PromotionTyped`, `OnlyRatified`, `ImplementsContract`. The
  invariant adds `Known`: a process past the ruling check holds a manifest each
  pair of which is ratified. It is kept because rulings are never taken back
  (`RulingsKept`), which is what the lemmas about `Appended` are for.
  With one command at a time, `ReceiptsProvenanced`, `ReceiptsLogged`,
  `StandingReceiptsGrounded` and `MintedOnLast`. A running acceptance knows what
  it has found so far (`FoundInv`: validated files that still stand, approvals
  that are still in the log) and what it was ruled (`RuledInv`), and a receipt
  keeps what its acceptance knew. The first three also need that no file is
  written between its validation and its provenance check (`FilesHeld`), since
  the code reads it twice; the last does not. What `StandingReceiptsGrounded`
  carries from the minting to now is that the files passed *on some ground*;
  which of the gates that settles on the ground of now is the lemma behind it:
  G15 and cover resolution outright, G4 and G5 given the evidence linked, R2
  given an exemption listed or a contract there.
* `GrantedWritersProofs`: `GrantsTyped`, `ProtectedWritesLicensed`,
  `EventsStayGrounded`, `GrantSpentOnce`. The invariant has three layers.
  `KnownInv` says what a process knows from `judge` on: its grant is one that was
  issued, covers its target and was live when it looked; that the grant is still
  in the ledger when the file changes is *not* part of it, and not needed.
  `MarkInv` says that the process under the lock recorded a size behind every
  event, and that the grant it goes by is in the ledger: so a rollback drops
  grants but never an event or the grant of one.
  `SpendInv` says that a change that stands has its event, or its writer is
  still under the lock, or the ledger holds a line no reader accepts and no
  rollback removes. The last disjunct is what carries `GrantSpentOnce` past an
  event that was glued to another command's fragment: it is lost to readers, but
  so is every later decision.
  `WritersReplaceWhatTheyRead` holds of any number of processes, as long as
  nobody writes a file by hand between a writer's last look and its write
  (`HandsOff`, `ReadInv`). `IssuedGrantsKept`, `ChangesHaveTheirEvents` and
  `PinsAreRecorded` hold of one command at a time, because `authorize-write`
  takes no lock and a rollback can cut its line away; the second needs nobody to
  write Cargo.lock by hand (`NoHandLock`), the third nobody to write a pin
  (`NoHandPins`). `KeptInv` says that the process under the lock finds the
  ledger as long as it recorded it and that each change is accounted for by an
  event, by the process in progress or as lost; `LockInv` what Cargo.lock is at
  each step; `PinInv` that the manifest's pin is the one of the last event, or
  the one the process in progress will record or take back.
* `InstallationProofs`: `BasesRendered` and `EditsSurvive`, for any builds and
  any number of commands at once, stopping anywhere, as long as nobody edits
  files while an `init` or `migrate` is between its plan and its record. The two
  need each other: an upgrade replaces a file that equals its merge base, which
  is an edit unless bases are rendered texts; and a base is the hash of what is
  on disk at the record, long after the file was classified. So the invariant
  follows each file the plan does not call a conflict from the plan to the
  record, past whatever another command makes of it. That condition is a
  hypothesis on `EditSteps`, and without it both are false (section 3).
  `ConflictsAreEdits`, `PolicyMovesAccepted` and `UpgradesEndHealthy` hold of one
  command at a time, with edits at any step (for the policy: any but the one
  between an acceptance's validation and its hash). Their invariant `SInv` says
  that a managed file is as the base of its record, absent, written by hand or
  torn (`Accounted`), and that the manifest a running command read is the one
  there is, so that what it planned from is what it records over (`RunKnows`,
  `AcceptKnows`); two commands at once falsify the latter.
* `WorkPackageProofs`: `AcceptedContent`, `DerivedAgrees` and `WritesStayWithin`,
  for any artifacts, plans and receipts and any number of edits, to any
  content. `AcceptedContent` takes both hashings: a file nobody edited between the
  first and its loading was loaded as the first found it, and one nobody edited
  since its loading was loaded as the second finds it; either way it was the
  accepted content. The invariant keeps the two for each window (`touched`), and
  the exception of the property is where neither holds. `DerivedAgrees` compares what `derive_manifest` refuses with
  what `validate_data` does, rule by rule, for a generation since whose loading
  nobody edited. `WritesStayWithin` is about the walks over patterns, for any
  patterns and paths: two that read one path are found to overlap
  (`OverlapFound`), and one found to be within another reads no path the other
  does not (`PatternContained`, and `SegmentContained` for the search through
  pairs of position sets). A pattern reads a path by cutting it (`Cuts`). The
  walks are recursive functions, so first a function is shown to satisfy each
  recursion, as a least set; then a least counterexample is followed: the place
  nearest the end that both readings reach and from which the walk finds
  nothing, or the first letter at which the search has lost a reading.
* `AuditLogProofs`: what `Appended` and `TruncatedTo` return, for any trail;
  `RollbackUndoesAppend`: a rollback undoes its own append when nobody else
  wrote.
* `ConsolidatedCheckProofs`: `CheckIsHonest`, `InquiryStaysCurrent`,
  `BridgesStayPassed`, `TiersStay`, for any project and any editing. What `check`
  reported is what it would report now, until somebody acts (`CheckedInv`, one
  lemma per gate that its findings depend on that gate's files alone); the rest
  tells what an absence of findings says of the files, which rests on where
  reports, checks and receipts come from: that a row is filed under its own id
  and an inquiry carries the body it was computed from, and that a check was
  made by its verifier over its harness.
  The module also holds the theorems about `promote-evidence`, whose drafts
  the check looks at: `RecordsStayValid`, for any number of promotions, from
  what each running one has read (`EvidenceInv`: it passed its validator or was
  staged again since), and `LinesFollowPromotions`, for one promotion at a time. A
  promotion past its append has a line nobody counts yet, so `LinesInv` counts the
  lines below a position n, the end of the trail unless a promotion is past its
  append, and follows that one line: to a promotion, to a truncation, or to a
  promotion that died.
* `ReleaseGateProofs`: `NothingReleasedUnproved`, `ValidatorPassesReleased`,
  `RecordingKeepsAccepted`, for any packages, circles of requirements included.
  While the closure is searched, whatever a visited package requires is visited
  or queued (`ClosureInv`), unless two packages provide one obligation, which the
  gate refuses anyway; so when the queue is empty the visited packages are closed
  under requirement and hold all that the seeds span, which is the *least*
  such set, and a finding over them is one over all of that.
  `AlgorithmsAreRight`: the closure is no more than that set either, and the
  search for components ends with the classes of mutual dependence. Its
  invariant (`SearchInv`) says of every node on the stack that its low mark is
  the index of a node it reaches (`LowIsReal`) and no larger than that of any it
  reaches through what is visited (`LowIsLeast`), and that the components closed
  so far are right. `ClosingMeansConditions` and `DegradingIsRuled` rest on it
  for the cycles a discharge names.

They rest on the named assumptions of the modules: bodies, files and the
markers `None`, `Torn`, `Fragment`, `Damaged` are different things; `Actors` is
finite; every body has its evidence links and its call edge; the policy is not a target; no marker is a grant, an event, an entry
of a log or the id of an evidence record; every installed path is in the registry order, a pinned one is
rendered by every build, every build installs the policy documents, and what it
renders of a skill has its authority region; no absent file is a text with a
version line; a receipt lists files of the project; risk tiers
are the four names; packages and obligations have distinct names, and those a
manifest requires are known; the verifiers are finitely many, the one that
proves is not bounded, and those `record-assurance` can read have an evidence
kind; no pattern holds the letter that stands for all it does not name, and a
renderer's path is read as it is written; and the workspaces to start from, and what people write, hold reports,
checks and receipts of their shapes. Unless a theorem assumes one command at a
time (`OneCommand`), it holds for interleavings of any number of processes at
the granularity of the modules.

Every invariant and action property the runs check is stated by a theorem. Only
model-checked is what is out of the prover's reach, liveness: `Served` and
`LoopEnds`.

## 5. Not modelled

`PROJECT.json` lists every component with its status; only the planning reports
are left out altogether: rankings and ratios, pure functions of one file. Within
the modelled ones:

* Gates and review: the artifact kinds other than interaction, protocol debt and
  exemption; a receipt that lists evidence or boundary files itself; required
  witnesses and witness digests in receipts; path containment and aliases;
  wording of messages; dates as dates. Schemas and naming, which a single file
  decides, are one set of well-formed bodies.
* Granted writers: package names, symlinks and re-exports, the refusal for
  ledger lines whose issuer is unusable, the checks `scaffold-crate` makes behind
  its writes, and second failures other than those of `RelockFails` and
  `RestoreFails`. Comparing the target with what was written and putting the old
  bytes back is one step. A `scaffold-crate` accepts a pattern grant where the
  documentation asks for the exact path; the model does what the code does.
* Installation: how the identity of an executable is computed, vendored
  resources and the zipapp, the descriptor schema, the migration audit. The
  check and the unlink of a pruned file are one step. The run has edits between
  commands only: within them, the divergences of section 3 happen.
* Release gates: one cluster, one required profile and one harness per manifest;
  claim, scope and support are one bit; duplicate records, malformed trust
  documents and the assumption registry. Evidence is whether a proof
  re-establishes an obligation; parsing certificates is left out.
* Check: the status document, obligations, clusters, observations and texts; a
  single crate and report, one span per method; `check-bridges` is one step; the
  findings of G14 and of the standalone validators are inputs; G20 yields
  warnings the exit code ignores; a grant is live or absent. Tokenizing Rust, the
  harness language and the renderers are outcomes.
* Work packages: one crate and one cluster, well-formed names, hashing and
  deriving are one step each. Containment of patterns is sound and not
  complete: the code may refuse what is contained, and `WritesWithinDescriptor` asks for soundness only.

## 6. Plan

Done: review checkpoint, evidence promotion and Stage 4.5 with its contract; write
grants and the four granted writers; installation and policy; the closure, G14 and
`record-assurance`; the consolidated check with realized calls, bridges,
witnesses and the write set; work-package derivation with its patterns.

Left, in the order of what it would add:

1. Completeness of the containment of patterns within a segment, and where the
   containment of whole patterns gives up (`PatternWithin` refuses what it need
   not).
2. A one-shot grant as an abstract specification that `GrantedWriters` refines.
3. `accept-promotion` with witnesses, and several clusters whose receipts share
   files.
4. G14 over several clusters, and `check` with its real findings of G14: the
   composition of `ReleaseGate` and `ConsolidatedCheck`.

Runs are kept to about a dozen: a new component's runs replace the violation
runs of findings that are settled, and instances that ask one question are
merged.

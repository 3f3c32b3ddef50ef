------------------------------ MODULE Promotion ------------------------------
(***************************************************************************)
(* Stage 4.5: `record-ruling`, `accept-promotion` and `validate-promotion`  *)
(* on the artifacts, the two audit trails and the receipts of a workspace,  *)
(* among evidence records and boundary contracts that change under them.   *)
(*                                                                         *)
(* accept_promotion reads every accepted file several times: to hash it, to *)
(* validate it, to hash it again, to take its review block.  Each pass over *)
(* the files is a step, so another process or an editor may write between   *)
(* two of them.  A hash is the content it is the hash of.  The approvals    *)
(* whose lines the provenance check looks for appear as whole commands:     *)
(* ReviewCheckpoint has their steps.                                        *)
(***************************************************************************)
EXTENDS InteractionGates, AuditLog, FiniteSets

CONSTANTS
  Actors,        \* CLI processes
  Clusters,      \* clusters of the project descriptor
  Policy,        \* path of the reliance policy, an artifact with no review block
  PolicyTexts,   \* contents of the policy document
  Stamped,       \* those with exactly one "Policy version:" marker line
  Grounds,       \* evidence and boundary contracts the crate may have
  ArtifactSets,  \* --artifact lists the commands are given
  Approvable,    \* (target, document) pairs a human may approve
  Editable,      \* (path, content) pairs written by hand
  EditSteps,     \* steps of a running command during which others write artifacts
  FailPoints,    \* steps at which a file operation may raise OSError
  CrashPoints,   \* steps at which the process may die; in both, "partial"
                 \* says that an append may be cut short
  MaxRulings,    \* bound: no ruling starts past this many lines
  MaxReviews     \* bound: no approval or acceptance starts past this many lines

Paths == Targets \cup {Policy}

Contents == Doc \cup PolicyTexts \cup {None, Torn}

ASSUME PromotionAssumption ==
  /\ Policy \notin Targets
  /\ Stamped \subseteq PolicyTexts
  /\ PolicyTexts \cap (Doc \cup {None, Torn}) = {}
  /\ Grounds \subseteq Ground
  /\ ArtifactSets \subseteq SUBSET Paths
  /\ Approvable \subseteq Targets \X Doc
  /\ Editable \subseteq Paths \X Contents
  /\ MaxRulings \in Nat
  /\ MaxReviews \in Nat

VARIABLES
  artifact,   \* [Paths -> content]: the workspace files that can be promoted
  reviewLog,  \* review_log.jsonl: approvals and acceptances
  rulings,    \* human_rulings.jsonl
  receipt,    \* [Clusters -> receipt]: specs/_promotions/<cluster>.json
  ground,     \* the evidence records and boundary contracts of the crate
  pc,         \* next step of each process
  job         \* local variables of each process

trails == <<reviewLog, rulings>>
vars == <<artifact, reviewLog, rulings, receipt, ground, pc, job>>

\* The files of an accepted set with the hash of each.
Manifests == UNION {[A -> Contents] : A \in SUBSET Paths}

\* A line of the review log: path is a target, or a cluster for its receipt.
ReviewEntry == [path : Targets \cup Clusters, reviewer : Reviewers]

\* What is not a whole line is no entry.
ASSUME LineAssumption == {Fragment, Damaged} \cap ReviewEntry = {}

Verdicts == {"ratified", "rejected"}
Ruling == [manifest : Manifests, verdict : Verdicts]

Receipt == [manifest : Manifests, reviewer : Reviewers, policy : Contents]

\* The file that is not there is no receipt.
ASSUME ReceiptAssumption == None \notin Receipt

ReadSteps == {"manifest", "versions", "policy", "rehash", "provenance", "rulings"}
WriteSteps == {"mark", "append", "stage", "replace", "truncate"}
Steps == ReadSteps \cup WriteSteps \cup {"rule"}

NoJob == [cluster |-> None, paths |-> {}, by |-> None, verdict |-> None,
          manifest |-> [p \in {} |-> None], policy |-> None, mark |-> 0]

Init ==
  /\ artifact = [p \in Paths |-> None]
  /\ reviewLog = <<>>
  /\ rulings = <<>>
  /\ receipt = [c \in Clusters |-> None]
  /\ ground \in Grounds
  /\ pc = [a \in Actors |-> "idle"]
  /\ job = [a \in Actors |-> NoJob]

Goto(a, step) == pc' = [pc EXCEPT ![a] = step]

End(a) ==
  /\ pc' = [pc EXCEPT ![a] = "idle"]
  /\ job' = [job EXCEPT ![a] = NoJob]

\* A pass over the files that goes on or refuses, writing nothing.
Pass(a, step, ok) ==
  /\ IF ok THEN Goto(a, step) /\ UNCHANGED job ELSE End(a)
  /\ UNCHANGED <<artifact, trails, receipt>>

\* A trail after an append that may have been cut short.
CutShort(trail, points) ==
  {trail} \cup (IF "partial" \in points THEN {Append(trail, Fragment)} ELSE {})

-----------------------------------------------------------------------------
(* The rest of the workspace: approvals, files written by hand, and the    *)
(* evidence and boundary files that no receipt here lists.                 *)

AtRest == \A a \in Actors : pc[a] = "idle"

\* Another process may write now.
Writable == \A a \in Actors : pc[a] \in EditSteps \cup {"idle"}

\* A completed `approve`.
Approve(t, doc) ==
  /\ Writable /\ Len(reviewLog) < MaxReviews
  /\ <<t, doc>> \in Approvable
  /\ artifact[t] # Torn
  /\ Valid(t, doc.body, ContextOf(artifact, ground))
  /\ artifact' = [artifact EXCEPT ![t] = doc]
  /\ reviewLog' = Appended(reviewLog, <<[path |-> t, reviewer |-> doc.reviewer]>>)
  /\ UNCHANGED <<rulings, receipt, pc, job>>

\* A completed `approve-pair` or `approve-exemption-pair`.
ApprovePair(i, k, doc, cover) ==
  LET ts == <<Interaction(i), <<k, i>>>> IN
  /\ Writable /\ Len(reviewLog) < MaxReviews
  /\ {<<ts[1], doc>>, <<ts[2], cover>>} \subseteq Approvable
  /\ doc.reviewer = cover.reviewer
  /\ Torn \notin {artifact[ts[1]], artifact[ts[2]]}
  /\ PairValid(k, i, doc.body, cover.body, ContextOf(artifact, ground))
  /\ artifact' = [artifact EXCEPT ![ts[1]] = doc, ![ts[2]] = cover]
  /\ reviewLog' = Appended(reviewLog,
       <<[path |-> ts[1], reviewer |-> doc.reviewer],
         [path |-> ts[2], reviewer |-> doc.reviewer]>>)
  /\ UNCHANGED <<rulings, receipt, pc, job>>

\* A file written, broken or removed outside any command.
HandEdit(p, content) ==
  /\ Writable
  /\ <<p, content>> \in Editable
  /\ artifact' = [artifact EXCEPT ![p] = content]
  /\ UNCHANGED <<trails, receipt, pc, job>>

\* An evidence record or a boundary contract promoted, edited or deleted.
Reground(g) ==
  /\ Writable
  /\ ground' = g
  /\ UNCHANGED <<artifact, trails, receipt, pc, job>>

-----------------------------------------------------------------------------
(* record-ruling.                                                          *)

\* compute_artifact_manifest: a missing file refuses.
ManifestOf(A) == [p \in A |-> artifact[p]]
Hashable(A) == \A p \in A : artifact[p] # None

\* record_ruling hashes the set; the verdict is the human's.
RuleStart(a, A, v) ==
  /\ pc[a] = "idle"
  /\ Len(rulings) < MaxRulings
  /\ A # {} /\ Hashable(A)
  /\ Goto(a, "rule")
  /\ job' = [job EXCEPT ![a] =
               [NoJob EXCEPT !.paths = A, !.verdict = v, !.manifest = ManifestOf(A)]]
  /\ UNCHANGED <<artifact, trails, receipt>>

RuleAppend(a) ==
  /\ pc[a] = "rule"
  /\ rulings' = Appended(rulings,
       <<[manifest |-> job[a].manifest, verdict |-> job[a].verdict]>>)
  /\ End(a)
  /\ UNCHANGED <<artifact, reviewLog, receipt>>

\* Mutant: the log is opened for writing, not for appending.
RuleFailsOverwritten(a) ==
  /\ pc[a] = "rule" /\ "rule" \in FailPoints
  /\ rulings' = <<>>
  /\ End(a)
  /\ UNCHANGED <<artifact, reviewLog, receipt>>

\* The append raises; record_ruling takes nothing back.
RuleFails(a) ==
  /\ pc[a] = "rule" /\ "rule" \in FailPoints
  /\ rulings' \in CutShort(rulings, FailPoints)
  /\ End(a)
  /\ UNCHANGED <<artifact, reviewLog, receipt>>

-----------------------------------------------------------------------------
(* accept-promotion: the checks.                                           *)

\* The policy must be one of the accepted artifacts.
AcceptStart(a, c, A, r) ==
  /\ pc[a] = "idle"
  /\ Len(reviewLog) < MaxReviews
  /\ Policy \in A
  /\ Goto(a, "manifest")
  /\ job' = [job EXCEPT ![a] = [NoJob EXCEPT !.cluster = c, !.paths = A, !.by = r]]
  /\ UNCHANGED <<artifact, trails, receipt>>

AcceptManifest(a) ==
  /\ pc[a] = "manifest"
  /\ IF Hashable(job[a].paths)
       THEN /\ Goto(a, "versions")
            /\ job' = [job EXCEPT ![a].manifest = ManifestOf(job[a].paths)]
       ELSE End(a)
  /\ UNCHANGED <<artifact, trails, receipt>>

\* An artifact as its own validator sees it, in the crate as it stands, with
\* its evidence and its boundary contracts; here G5 refuses too.
Acceptable(t) ==
  /\ artifact[t] \in Doc
  /\ Valid(t, artifact[t].body, ContextOf(artifact, ground))
  /\ t[1] = "interaction" => G5(artifact[t].body, ground.evidence)

\* Mutant: each artifact is validated by itself, outside its crate.
AcceptVersionsAlone(a) ==
  /\ pc[a] = "versions"
  /\ LET ts == job[a].paths \cap Targets IN
     Pass(a, "policy", /\ ts # {}
                       /\ \A t \in ts : artifact[t] \in Doc /\ artifact[t].body \in WellFormed)

\* compute_schema_versions reads the files again and validates each of them; a
\* set with no artifact at a canonical directory has no versions.
AcceptVersions(a) ==
  /\ pc[a] = "versions"
  /\ LET ts == job[a].paths \cap Targets IN
     Pass(a, "policy", ts # {} /\ \A t \in ts : Acceptable(t))

\* extract_policy_version.
AcceptPolicy(a) ==
  /\ pc[a] = "policy"
  /\ IF artifact[Policy] \in Stamped
       THEN /\ Goto(a, "rehash")
            /\ job' = [job EXCEPT ![a].policy = artifact[Policy]]
       ELSE End(a)
  /\ UNCHANGED <<artifact, trails, receipt>>

\* check_artifact_manifest: the files still are what the manifest states.
Stands(manifest) == \A p \in DOMAIN manifest : artifact[p] = manifest[p]

\* validate_data on the assembled receipt.
AcceptRehash(a) ==
  /\ pc[a] = "rehash"
  /\ Pass(a, "provenance", Stands(job[a].manifest))

\* Mutant: an approval of the path counts, whoever the review block names.
ProvenancedByPath(A) ==
  LET reviewed == {p \in A : artifact[p] \in Doc} IN
  reviewed # {} =>
    /\ Readable(reviewLog)
    /\ \A p \in reviewed : \E k \in DOMAIN reviewLog : reviewLog[k].path = p

\* collect_review_blocks takes the blocks from the files as they are now and
\* leaves out what does not parse; review_provenance_gaps looks each one up.
Provenanced(A) ==
  LET reviewed == {p \in A : artifact[p] \in Doc} IN
  reviewed # {} =>
    /\ Readable(reviewLog)
    /\ \A p \in reviewed : \E k \in DOMAIN reviewLog :
         reviewLog[k] = [path |-> p, reviewer |-> artifact[p].reviewer]

AcceptProvenance(a) ==
  /\ pc[a] = "provenance"
  /\ Pass(a, "rulings", Provenanced(job[a].paths))

\* The rulings that name p, later lines superseding earlier ones.
RulingsOn(p) ==
  {k \in DOMAIN rulings : /\ rulings[k] \notin {Fragment, Damaged}
                          /\ p \in DOMAIN rulings[k].manifest}

\* ruling_gaps finds none: the last ruling on each path ratifies its content.
RatifiedNow(manifest) ==
  /\ Readable(rulings)
  /\ \A p \in DOMAIN manifest : \E k \in RulingsOn(p) :
       /\ \A l \in RulingsOn(p) : l <= k
       /\ rulings[k].verdict = "ratified"
       /\ rulings[k].manifest[p] = manifest[p]

\* Mutant: any ratification of this version counts, superseded or not.
AcceptRulingsOnce(a) ==
  /\ pc[a] = "rulings"
  /\ Pass(a, "mark", \A p \in job[a].paths : \E k \in RulingsOn(p) :
       rulings[k].verdict = "ratified" /\ rulings[k].manifest[p] = job[a].manifest[p])

\* Mutant: the last ruling need not be over this version of the file.
AcceptRulingsPaths(a) ==
  /\ pc[a] = "rulings"
  /\ Pass(a, "mark", \A p \in job[a].paths : \E k \in RulingsOn(p) :
       (\A l \in RulingsOn(p) : l <= k) /\ rulings[k].verdict = "ratified")

AcceptRulings(a) ==
  /\ pc[a] = "rulings"
  /\ Pass(a, "mark", RatifiedNow(job[a].manifest))

-----------------------------------------------------------------------------
(* accept-promotion: the audit line, then the receipt.                     *)

\* Mutant: the receipt is in place before its audit line.
AcceptMarkReceiptFirst(a) ==
  /\ pc[a] = "mark"
  /\ Goto(a, "append")
  /\ job' = [job EXCEPT ![a].mark = Len(reviewLog)]
  /\ receipt' = [receipt EXCEPT ![job[a].cluster] =
       [manifest |-> job[a].manifest, reviewer |-> job[a].by, policy |-> job[a].policy]]
  /\ UNCHANGED <<artifact, trails>>

AcceptMark(a) ==
  /\ pc[a] = "mark"
  /\ Goto(a, "append")
  /\ job' = [job EXCEPT ![a].mark = Len(reviewLog)]
  /\ UNCHANGED <<artifact, trails, receipt>>

AuditLine(a) == [path |-> job[a].cluster, reviewer |-> job[a].by]

AcceptAppend(a) ==
  /\ pc[a] = "append"
  /\ Goto(a, "stage")
  /\ reviewLog' = Appended(reviewLog, <<AuditLine(a)>>)
  /\ UNCHANGED <<artifact, rulings, receipt, job>>

\* Before anything is written, or with the partial line truncated away.
AcceptAppendFails(a) ==
  /\ pc[a] = "append" /\ "append" \in FailPoints
  /\ reviewLog' \in {reviewLog, TruncatedTo(reviewLog, job[a].mark)}
  /\ End(a)
  /\ UNCHANGED <<artifact, rulings, receipt>>

\* mkstemp beside the receipt.
AcceptStage(a) ==
  /\ pc[a] = "stage"
  /\ Goto(a, "replace")
  /\ UNCHANGED <<artifact, trails, receipt, job>>

\* It is called between the two try blocks: nothing takes the audit line back.
AcceptStageFails(a) ==
  /\ pc[a] = "stage" /\ "stage" \in FailPoints
  /\ End(a)
  /\ UNCHANGED <<artifact, trails, receipt>>

ReceiptOf(a) ==
  [manifest |-> job[a].manifest, reviewer |-> job[a].by, policy |-> job[a].policy]

\* The temporary file is written; os.replace puts it over the last receipt.
AcceptReplace(a) ==
  /\ pc[a] = "replace"
  /\ receipt' = [receipt EXCEPT ![job[a].cluster] = ReceiptOf(a)]
  /\ End(a)
  /\ UNCHANGED <<artifact, trails>>

AcceptReplaceFails(a) ==
  /\ pc[a] = "replace" /\ "replace" \in FailPoints
  /\ Goto(a, "truncate")
  /\ UNCHANGED <<artifact, trails, receipt, job>>

AcceptTruncate(a) ==
  /\ pc[a] = "truncate"
  /\ reviewLog' = TruncatedTo(reviewLog, job[a].mark)
  /\ End(a)
  /\ UNCHANGED <<artifact, rulings, receipt>>

\* A read that raises.
AcceptReadFails(a) ==
  /\ pc[a] \in ReadSteps \cap FailPoints
  /\ End(a)
  /\ UNCHANGED <<artifact, trails, receipt>>

\* The process dies; an append it was in may be cut short.
Crash(a) ==
  /\ pc[a] \in CrashPoints
  /\ reviewLog' \in IF pc[a] = "append" THEN CutShort(reviewLog, CrashPoints)
                                        ELSE {reviewLog}
  /\ rulings' \in IF pc[a] = "rule" THEN CutShort(rulings, CrashPoints)
                                    ELSE {rulings}
  /\ End(a)
  /\ UNCHANGED <<artifact, receipt>>

-----------------------------------------------------------------------------
Workspace ==
  \/ \E t \in Targets, doc \in Doc : Approve(t, doc)
  \/ \E i \in Ids, k \in {"debt", "exemption"}, doc \in Doc, cover \in Doc :
       ApprovePair(i, k, doc, cover)
  \/ \E p \in Paths, content \in Contents : HandEdit(p, content)

RecordRuling(a) ==
  \/ \E A \in ArtifactSets, v \in Verdicts : RuleStart(a, A, v)
  \/ RuleAppend(a)
  \/ RuleFails(a)

AcceptPromotion(a) ==
  \/ \E c \in Clusters, A \in ArtifactSets, r \in Reviewers : AcceptStart(a, c, A, r)
  \/ AcceptManifest(a)
  \/ AcceptVersions(a)
  \/ AcceptPolicy(a)
  \/ AcceptRehash(a)
  \/ AcceptProvenance(a)
  \/ AcceptRulings(a)
  \/ AcceptMark(a)
  \/ AcceptAppend(a)
  \/ AcceptAppendFails(a)
  \/ AcceptStage(a)
  \/ AcceptStageFails(a)
  \/ AcceptReplace(a)
  \/ AcceptReplaceFails(a)
  \/ AcceptTruncate(a)
  \/ AcceptReadFails(a)

Commands ==
  \/ Workspace
  \/ \E a \in Actors : RecordRuling(a) \/ AcceptPromotion(a) \/ Crash(a)

\* No command modelled here writes an evidence record or a boundary contract.
Next ==
  \/ Commands /\ UNCHANGED ground
  \/ \E g \in Grounds : Reground(g)

Spec == Init /\ [][Next]_vars

-----------------------------------------------------------------------------
(* Properties.                                                             *)

Jobs == [cluster : Clusters \cup {None}, paths : SUBSET Paths,
         by : Reviewers \cup {None}, verdict : Verdicts \cup {None},
         manifest : Manifests, policy : Contents, mark : Nat]

TypeOK ==
  /\ artifact \in [Paths -> Contents]
  /\ reviewLog \in Seq(ReviewEntry \cup {Fragment, Damaged})
  /\ rulings \in Seq(Ruling \cup {Fragment, Damaged})
  /\ receipt \in [Clusters -> Receipt \cup {None}]
  /\ ground \in Ground
  /\ pc \in [Actors -> Steps \cup {"idle"}]
  /\ job \in [Actors -> Jobs]

\* Every file a receipt states was ratified in that version by a ruling that
\* is still in the trail, whatever other commands and editors do meanwhile.
ReceiptRatified ==
  \A c \in Clusters : receipt[c] # None =>
    \A p \in DOMAIN receipt[c].manifest : \E k \in RulingsOn(p) :
      /\ rulings[k].verdict = "ratified"
      /\ rulings[k].manifest[p] = receipt[c].manifest[p]

\* When a receipt is written, the last ruling on each of its files ratifies
\* exactly what it states, and no damaged line hides a later one: "a rejected
\* artifact must not be promoted".
MintedOnLastRuling ==
  [][\A c \in Clusters : receipt'[c] # receipt[c] => RatifiedNow(receipt'[c].manifest)]_vars

\* Each review block a receipt was minted over has its approval in the log:
\* "every accepted artifact carrying its own review block must have a matching
\* entry in the approval audit log".
ReceiptProvenanced ==
  \A c \in Clusters : receipt[c] # None =>
    \A t \in Targets \cap DOMAIN receipt[c].manifest :
      \E k \in DOMAIN reviewLog :
        reviewLog[k] = [path |-> t, reviewer |-> receipt[c].manifest[t].reviewer]

\* What the receipt's manifest lists of an interaction's cover: its debt
\* record, and its exemption unless a boundary contract covers its edge.
Covered(i, body, m) ==
  /\ body \in NonPairwise => <<"debt", i>> \in DOMAIN m
  /\ body \in BoundaryRequired =>
       <<"exemption", i>> \in DOMAIN m \/ EdgeOf[body] \in ground.edges

\* While a receipt stands, its policy version is the one the policy declares
\* and an interaction it lists with the records that cover it passes the gates
\* of the crate as it is now, whatever became of other evidence and boundary
\* contracts: the hashes carry the validation over, as long as the evidence
\* the interaction links is there.  That evidence the receipt does not hash:
\* deleting it fails G4 under a receipt that stands.
StandingMeansGrounded ==
  \A c \in Clusters : (receipt[c] # None /\ Stands(receipt[c].manifest)) =>
    LET m == receipt[c].manifest IN
    /\ receipt[c].policy = artifact[Policy]
    /\ \A i \in Ids :
         LET t == Interaction(i) IN
         (/\ t \in DOMAIN m
          /\ Covered(i, m[t].body, m)
          /\ Linked(m[t].body, ground.evidence)) => Acceptable(t)

\* A receipt has its acceptance in the audit log, also when the command that
\* wrote it, or one after it, died at any point.
ReceiptLogged ==
  \A c \in Clusters : receipt[c] # None =>
    \E k \in DOMAIN reviewLog :
      reviewLog[k] = [path |-> c, reviewer |-> receipt[c].reviewer]

\* accept-promotion and record-ruling implement the promise of Stage 4.5.
RatifiedPairs ==
  UNION {{<<p, rulings[k].manifest[p]>> : p \in DOMAIN rulings[k].manifest} :
           k \in {l \in DOMAIN rulings : /\ rulings[l] \notin {Fragment, Damaged}
                                         /\ rulings[l].verdict = "ratified"}}

Manifested ==
  [c \in Clusters |-> IF receipt[c] = None THEN None ELSE receipt[c].manifest]

Contract == INSTANCE PromotionContract WITH
  ratified <- RatifiedPairs,
  receipt <- Manifested,
  NoReceipt <- None

ContractSpec == Contract!Spec
=============================================================================

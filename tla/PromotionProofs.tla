--------------------------- MODULE PromotionProofs ---------------------------
(***************************************************************************)
(* For any number of processes, artifacts, clusters and rulings, with        *)
(* failures and crashes at any step and files changing under a running       *)
(* command: every receipt states only ratified versions, and the commands    *)
(* implement PromotionContract.                                              *)
(*                                                                          *)
(* The invariant adds to the claim what carries it through the last steps    *)
(* of accept_promotion: a process past ruling_gaps holds a manifest whose    *)
(* every file has a ratified ruling in the trail, and the trail only grows.  *)
(*                                                                          *)
(* With one command at a time more holds: what a receipt states was ratified *)
(* last, passed the validators together, was approved and is logged.         *)
(* FoundInv says what the process has found by each step, and that the lines *)
(* receipts rest on are below the mark a rollback goes back to.              *)
(***************************************************************************)
EXTENDS Promotion, AuditLogProofs

\* A manifest every file of which some ruling in the trail ratifies.
Ratified(manifest) ==
  \A p \in DOMAIN manifest : \E k \in RulingsOn(p) :
    /\ rulings[k].verdict = "ratified"
    /\ rulings[k].manifest[p] = manifest[p]

\* What a process knows at its step.
KnownOf(a) ==
  /\ pc[a] \in ReadSteps \cup WriteSteps =>
       job[a].cluster \in Clusters /\ job[a].by \in Reviewers
  /\ pc[a] = "rule" => job[a].verdict \in Verdicts
  /\ pc[a] \in WriteSteps => Ratified(job[a].manifest)

Known == \A a \in Actors : KnownOf(a)

IInv == TypeOK /\ Known /\ ReceiptRatified

ReviewLine == ReviewEntry \cup {Fragment, Damaged}
RulingLine == Ruling \cup {Fragment, Damaged}

\* The rulings trail is only ever added to.
RulingsKept ==
  \A k \in DOMAIN rulings : k \in DOMAIN rulings' /\ rulings'[k] = rulings[k]

-----------------------------------------------------------------------------
\* Nothing a read step of another process sees can undo what a process knows.
LEMMA OthersKnow ==
  ASSUME Known, RulingsKept, NEW a \in Actors,
         \A b \in Actors \ {a} : pc'[b] = pc[b] /\ job'[b] = job[b],
         KnownOf(a)'
  PROVE  Known'
<1>1. ASSUME NEW b \in Actors \ {a} PROVE KnownOf(b)'
  <2>1. KnownOf(b) /\ pc'[b] = pc[b] /\ job'[b] = job[b]
    BY DEF Known
  <2>2. ASSUME pc[b] \in WriteSteps, NEW p \in DOMAIN job[b].manifest
        PROVE  \E k \in RulingsOn(p)' : /\ rulings'[k].verdict = "ratified"
                                        /\ rulings'[k].manifest[p] = job[b].manifest[p]
    <3>1. PICK k \in RulingsOn(p) : /\ rulings[k].verdict = "ratified"
                                    /\ rulings[k].manifest[p] = job[b].manifest[p]
      BY <2>1, <2>2 DEF KnownOf, Ratified
    <3> QED BY <3>1 DEF RulingsKept, RulingsOn
  <2> QED BY <2>1, <2>2 DEF KnownOf, Ratified
<1> QED BY <1>1 DEF Known

\* Receipts left alone stay ratified.
LEMMA ReceiptsStay ==
  ASSUME ReceiptRatified, RulingsKept, receipt' = receipt
  PROVE  ReceiptRatified'
  BY DEF ReceiptRatified, RulingsKept, RulingsOn

\* A process at rest has local variables of their types.
LEMMA NoJobType == NoJob \in Jobs
<1>1. [p \in {} |-> None] \in [{} -> Contents]
  OBVIOUS
<1>2. [p \in {} |-> None] \in Manifests
  BY <1>1 DEF Manifests
<1> QED BY <1>2 DEF NoJob, Jobs, Contents

\* A command that ends knows nothing more.
LEMMA EndKnown ==
  ASSUME TypeOK, Known, RulingsKept, NEW a \in Actors, End(a)
  PROVE  /\ pc' \in [Actors -> Steps \cup {"idle"}]
         /\ job' \in [Actors -> Jobs]
         /\ Known'
<1>1. pc'[a] = "idle" /\ \A b \in Actors \ {a} : pc'[b] = pc[b] /\ job'[b] = job[b]
  BY DEF End, TypeOK
<1>2. KnownOf(a)'
  BY <1>1 DEF KnownOf, ReadSteps, WriteSteps
<1> QED BY <1>1, <1>2, OthersKnow, NoJobType DEF End, TypeOK

\* The manifest of files that are there is a manifest.
LEMMA ManifestType ==
  ASSUME TypeOK, NEW A \in SUBSET Paths
  PROVE  ManifestOf(A) \in Manifests
<1>1. ManifestOf(A) \in [A -> Contents]
  BY DEF ManifestOf, TypeOK
<1> QED BY <1>1 DEF Manifests

\* A pass over the files, at a step before the rulings are looked up.
LEMMA PassStep ==
  ASSUME IInv, ground' \in Ground, NEW a \in Actors, pc[a] \in ReadSteps,
         NEW s \in ReadSteps, NEW ok, Pass(a, s, ok)
  PROVE  IInv'
<1> USE DEF IInv
<1>1. UNCHANGED <<artifact, trails, receipt>>
  BY DEF Pass
<1>2. RulingsKept /\ ReceiptRatified'
  BY <1>1, ReceiptsStay DEF RulingsKept, trails
<1>3. CASE End(a)
  BY <1>1, <1>2, <1>3, EndKnown DEF TypeOK, trails
<1>4. CASE Goto(a, s) /\ UNCHANGED job
  <2>1. /\ pc' \in [Actors -> Steps \cup {"idle"}]
        /\ pc'[a] = s
        /\ \A b \in Actors \ {a} : pc'[b] = pc[b]
    BY <1>4 DEF Goto, TypeOK, Steps
  <2>2. KnownOf(a)'
    BY <1>4, <2>1 DEF Known, KnownOf, ReadSteps, WriteSteps
  <2>3. Known'
    BY <1>2, <1>4, <2>1, <2>2, OthersKnow
  <2> QED BY <1>1, <1>2, <1>4, <2>1, <2>3 DEF TypeOK, trails
<1> QED BY <1>3, <1>4 DEF Pass

\* A process that moves on with local variables of their types.
LEMMA MoveKnown ==
  ASSUME TypeOK, Known, RulingsKept, NEW a \in Actors, NEW s \in Steps, NEW j \in Jobs,
         Goto(a, s), job' = [job EXCEPT ![a] = j], KnownOf(a)'
  PROVE  /\ pc' \in [Actors -> Steps \cup {"idle"}]
         /\ job' \in [Actors -> Jobs]
         /\ Known'
<1>1. \A b \in Actors \ {a} : pc'[b] = pc[b] /\ job'[b] = job[b]
  BY DEF Goto, TypeOK
<1> QED BY <1>1, OthersKnow DEF Goto, TypeOK

\* One that moves on with its local variables as they are.
LEMMA GotoKnown ==
  ASSUME TypeOK, Known, RulingsKept, NEW a \in Actors, NEW s \in Steps,
         Goto(a, s), job' = job, KnownOf(a)'
  PROVE  /\ pc' \in [Actors -> Steps \cup {"idle"}]
         /\ job' \in [Actors -> Jobs]
         /\ Known'
<1>1. \A b \in Actors \ {a} : pc'[b] = pc[b] /\ job'[b] = job[b]
  BY DEF Goto, TypeOK
<1> QED BY <1>1, OthersKnow DEF Goto, TypeOK

-----------------------------------------------------------------------------
\* The checks of accept_promotion preserve the invariant.
LEMMA ReadKeeps ==
  ASSUME IInv, ground' \in Ground, NEW a \in Actors,
         \/ \E c \in Clusters, A \in ArtifactSets, r \in Reviewers : AcceptStart(a, c, A, r)
         \/ AcceptManifest(a) \/ AcceptVersions(a) \/ AcceptPolicy(a)
         \/ AcceptRehash(a) \/ AcceptProvenance(a) \/ AcceptRulings(a)
         \/ AcceptReadFails(a)
  PROVE  IInv'
<1> USE DEF IInv
<1>0. /\ pc \in [Actors -> Steps \cup {"idle"}]
      /\ job \in [Actors -> Jobs]
      /\ job[a] \in Jobs
      /\ KnownOf(a)
  BY DEF TypeOK, Known
<1>1. ASSUME NEW c \in Clusters, NEW A \in ArtifactSets, NEW r \in Reviewers,
             AcceptStart(a, c, A, r)
      PROVE  IInv'
  <2> DEFINE j == [NoJob EXCEPT !.cluster = c, !.paths = A, !.by = r]
  <2>1. j \in Jobs
    BY NoJobType, PromotionAssumption DEF Jobs
  <2>2. RulingsKept /\ ReceiptRatified'
    BY <1>1, ReceiptsStay DEF AcceptStart, RulingsKept, trails
  <2>3. pc'[a] = "manifest" /\ job'[a] = j
    BY <1>0, <1>1 DEF AcceptStart, Goto
  <2>4. j.cluster = c /\ j.by = r
    BY DEF NoJob
  <2> HIDE DEF j
  <2>5. KnownOf(a)'
    BY <2>3, <2>4 DEF KnownOf, WriteSteps
  <2>6. job' = [job EXCEPT ![a] = j] /\ Goto(a, "manifest")
    BY <1>1 DEF AcceptStart, j
  <2>7. Known' /\ pc' \in [Actors -> Steps \cup {"idle"}] /\ job' \in [Actors -> Jobs]
    BY <2>1, <2>2, <2>5, <2>6, MoveKnown DEF Steps, ReadSteps
  <2> QED BY <1>1, <2>2, <2>7 DEF AcceptStart, TypeOK, trails
<1>2. CASE AcceptManifest(a)
  <2>1. RulingsKept /\ ReceiptRatified'
    BY <1>2, ReceiptsStay DEF AcceptManifest, RulingsKept, trails
  <2>2. CASE End(a)
    BY <1>2, <2>1, <2>2, EndKnown DEF AcceptManifest, TypeOK, trails
  <2>3. CASE /\ Goto(a, "versions")
             /\ job' = [job EXCEPT ![a].manifest = ManifestOf(job[a].paths)]
    <3> DEFINE j == [job[a] EXCEPT !.manifest = ManifestOf(job[a].paths)]
    <3>1. ManifestOf(job[a].paths) \in Manifests
      BY <1>0, ManifestType DEF Jobs
    <3>2. j \in Jobs /\ j.cluster = job[a].cluster /\ j.by = job[a].by
      BY <1>0, <3>1 DEF Jobs
    <3>3. job' = [job EXCEPT ![a] = j] /\ job'[a] = j /\ pc'[a] = "versions"
      BY <1>0, <2>3 DEF Goto
    <3> HIDE DEF j
    <3>4. KnownOf(a)'
      BY <1>0, <1>2, <3>2, <3>3 DEF AcceptManifest, KnownOf, ReadSteps, WriteSteps
    <3>5. Known' /\ pc' \in [Actors -> Steps \cup {"idle"}] /\ job' \in [Actors -> Jobs]
      BY <2>1, <2>3, <3>2, <3>3, <3>4, MoveKnown DEF Steps, ReadSteps
    <3> QED BY <1>2, <2>1, <3>5 DEF AcceptManifest, TypeOK, trails
  <2> QED BY <1>2, <2>2, <2>3 DEF AcceptManifest
<1>3. CASE AcceptVersions(a)
  BY <1>3, PassStep DEF AcceptVersions, ReadSteps
<1>4. CASE AcceptPolicy(a)
  <2>1. RulingsKept /\ ReceiptRatified'
    BY <1>4, ReceiptsStay DEF AcceptPolicy, RulingsKept, trails
  <2>2. CASE End(a)
    BY <1>4, <2>1, <2>2, EndKnown DEF AcceptPolicy, TypeOK, trails
  <2>3. CASE /\ Goto(a, "rehash")
             /\ job' = [job EXCEPT ![a].policy = artifact[Policy]]
    <3> DEFINE j == [job[a] EXCEPT !.policy = artifact[Policy]]
    <3>1. artifact[Policy] \in Contents
      BY DEF TypeOK, Paths
    <3>2. j \in Jobs /\ j.cluster = job[a].cluster /\ j.by = job[a].by
      BY <1>0, <3>1 DEF Jobs
    <3>3. job' = [job EXCEPT ![a] = j] /\ job'[a] = j /\ pc'[a] = "rehash"
      BY <1>0, <2>3 DEF Goto
    <3> HIDE DEF j
    <3>4. KnownOf(a)'
      BY <1>0, <1>4, <3>2, <3>3 DEF AcceptPolicy, KnownOf, ReadSteps, WriteSteps
    <3>5. Known' /\ pc' \in [Actors -> Steps \cup {"idle"}] /\ job' \in [Actors -> Jobs]
      BY <2>1, <2>3, <3>2, <3>3, <3>4, MoveKnown DEF Steps, ReadSteps
    <3> QED BY <1>4, <2>1, <3>5 DEF AcceptPolicy, TypeOK, trails
  <2> QED BY <1>4, <2>2, <2>3 DEF AcceptPolicy
<1>5. CASE AcceptRehash(a)
  BY <1>5, PassStep DEF AcceptRehash, ReadSteps
<1>6. CASE AcceptProvenance(a)
  BY <1>6, PassStep DEF AcceptProvenance, ReadSteps
<1>7. CASE AcceptRulings(a)
  <2>1. RulingsKept /\ ReceiptRatified' /\ UNCHANGED <<artifact, trails, receipt>>
    BY <1>7, ReceiptsStay DEF AcceptRulings, Pass, RulingsKept, trails
  <2>2. CASE End(a)
    BY <2>1, <2>2, EndKnown DEF TypeOK, trails
  <2>3. CASE Goto(a, "mark") /\ UNCHANGED job /\ RatifiedNow(job[a].manifest)
    <3>1. pc'[a] = "mark" /\ job'[a] = job[a] /\ rulings' = rulings
      BY <1>0, <2>1, <2>3 DEF Goto, trails
    <3>2. Ratified(job[a].manifest)
      BY <2>3 DEF RatifiedNow, Ratified
    <3>3. KnownOf(a)'
      BY <1>0, <1>7, <3>1, <3>2 DEF AcceptRulings, KnownOf, ReadSteps, WriteSteps, Ratified, RulingsOn
    <3>4. Known' /\ pc' \in [Actors -> Steps \cup {"idle"}] /\ job' \in [Actors -> Jobs]
      BY <2>1, <2>3, <3>3, GotoKnown DEF Steps, WriteSteps
    <3> QED BY <2>1, <3>4 DEF TypeOK, trails
  <2> QED BY <1>7, <2>2, <2>3 DEF AcceptRulings, Pass
<1>8. CASE AcceptReadFails(a)
  <2>1. RulingsKept /\ ReceiptRatified'
    BY <1>8, ReceiptsStay DEF AcceptReadFails, RulingsKept, trails
  <2> QED BY <1>8, <2>1, EndKnown DEF AcceptReadFails, TypeOK, trails
<1> QED BY <1>1, <1>2, <1>3, <1>4, <1>5, <1>6, <1>7, <1>8

\* What the trails hold after a step, whatever was appended or taken back.
LEMMA TrailTypes ==
  ASSUME TypeOK
  PROVE  /\ \A e \in ReviewEntry : Appended(reviewLog, <<e>>) \in Seq(ReviewLine)
         /\ \A e, f \in ReviewEntry : Appended(reviewLog, <<e, f>>) \in Seq(ReviewLine)
         /\ \A n \in Nat : TruncatedTo(reviewLog, n) \in Seq(ReviewLine)
         /\ \A points : CutShort(reviewLog, points) \subseteq Seq(ReviewLine)
<1>1. reviewLog \in Seq(ReviewLine) /\ Fragment \in ReviewLine /\ Damaged \in ReviewLine
  BY DEF TypeOK, ReviewLine
<1>2. ASSUME NEW e \in ReviewEntry, NEW f \in ReviewEntry
      PROVE  /\ Appended(reviewLog, <<e>>) \in Seq(ReviewLine)
             /\ Appended(reviewLog, <<e, f>>) \in Seq(ReviewLine)
  <2>1. <<e>> \in Seq(ReviewLine) /\ <<e, f>> \in Seq(ReviewLine)
    BY DEF ReviewLine
  <2>2. <<e>> # <<>> /\ <<e, f>> # <<>>
    OBVIOUS
  <2> QED BY <1>1, <2>1, <2>2, AppendedKeeps
<1>3. \A n \in Nat : TruncatedTo(reviewLog, n) \in Seq(ReviewLine)
  BY <1>1, TruncatedType
<1>4. \A points : CutShort(reviewLog, points) \subseteq Seq(ReviewLine)
  BY <1>1 DEF CutShort
<1> QED BY <1>2, <1>3, <1>4

\* A ruling, whole or cut short, goes behind the rulings that are there.
LEMMA RulingsGrow ==
  ASSUME TypeOK,
         \/ \E e \in Ruling : rulings' = Appended(rulings, <<e>>)
         \/ \E points : rulings' \in CutShort(rulings, points)
         \/ rulings' = rulings
  PROVE  RulingsKept /\ rulings' \in Seq(RulingLine)
<1>1. rulings \in Seq(RulingLine) /\ Fragment \in RulingLine /\ Damaged \in RulingLine
  BY DEF TypeOK, RulingLine
<1>2. ASSUME NEW e \in Ruling, rulings' = Appended(rulings, <<e>>)
      PROVE  RulingsKept /\ rulings' \in Seq(RulingLine)
  <2>1. <<e>> \in Seq(RulingLine) /\ <<e>> # <<>>
    BY DEF RulingLine
  <2>2. /\ Appended(rulings, <<e>>) \in Seq(RulingLine)
        /\ Len(Appended(rulings, <<e>>)) = Len(rulings) + Len(<<e>>)
        /\ \A k \in DOMAIN rulings : Appended(rulings, <<e>>)[k] = rulings[k]
    BY <1>1, <2>1, AppendedKeeps
  <2> QED BY <1>1, <1>2, <2>2 DEF RulingsKept
<1>3. ASSUME NEW points, rulings' \in CutShort(rulings, points)
      PROVE  RulingsKept /\ rulings' \in Seq(RulingLine)
  BY <1>1, <1>3 DEF CutShort, RulingsKept
<1>4. CASE rulings' = rulings
  BY <1>1, <1>4 DEF RulingsKept
<1> QED BY <1>2, <1>3, <1>4

-----------------------------------------------------------------------------
\* The transaction of accept_promotion preserves the invariant.
LEMMA WriteKeeps ==
  ASSUME IInv, ground' \in Ground, NEW a \in Actors,
         \/ AcceptMark(a) \/ AcceptAppend(a) \/ AcceptAppendFails(a)
         \/ AcceptStage(a) \/ AcceptStageFails(a)
         \/ AcceptReplace(a) \/ AcceptReplaceFails(a) \/ AcceptTruncate(a)
  PROVE  IInv'
<1> USE DEF IInv
<1>0. /\ pc \in [Actors -> Steps \cup {"idle"}]
      /\ job \in [Actors -> Jobs]
      /\ job[a] \in Jobs
      /\ KnownOf(a)
      /\ pc[a] \in WriteSteps
      /\ rulings' = rulings
      /\ artifact' = artifact
  BY DEF TypeOK, Known, WriteSteps, AcceptMark, AcceptAppend, AcceptAppendFails,
         AcceptStage, AcceptStageFails, AcceptReplace, AcceptReplaceFails, AcceptTruncate, trails
<1>1. RulingsKept
  BY <1>0 DEF RulingsKept
<1>2. /\ job[a].cluster \in Clusters /\ job[a].by \in Reviewers
      /\ Ratified(job[a].manifest) /\ job[a].mark \in Nat
  BY <1>0 DEF KnownOf, Jobs
<1>3. ASSUME NEW s \in WriteSteps, Goto(a, s), job' = job PROVE KnownOf(a)'
  <2>1. pc'[a] = s /\ job'[a] = job[a]
    BY <1>0, <1>3 DEF Goto
  <2> QED BY <1>0, <1>2, <2>1 DEF KnownOf, WriteSteps, Ratified, RulingsOn
<1>4. CASE AcceptMark(a)
  <2> DEFINE j == [job[a] EXCEPT !.mark = Len(reviewLog)]
  <2>0. Len(reviewLog) \in Nat
    BY DEF TypeOK
  <2>1. /\ j \in Jobs /\ j.cluster = job[a].cluster /\ j.by = job[a].by
        /\ j.manifest = job[a].manifest
    BY <1>0, <2>0 DEF Jobs
  <2>2. job' = [job EXCEPT ![a] = j] /\ job'[a] = j /\ pc'[a] = "append"
    BY <1>0, <1>4 DEF AcceptMark, Goto
  <2> HIDE DEF j
  <2>3. KnownOf(a)'
    BY <1>0, <1>2, <2>1, <2>2 DEF KnownOf, WriteSteps, Ratified, RulingsOn
  <2>4. Known' /\ pc' \in [Actors -> Steps \cup {"idle"}] /\ job' \in [Actors -> Jobs]
    BY <1>1, <1>4, <2>1, <2>2, <2>3, MoveKnown DEF AcceptMark, Steps, WriteSteps
  <2>5. ReceiptRatified'
    BY <1>1, <1>4, ReceiptsStay DEF AcceptMark
  <2> QED BY <1>4, <2>4, <2>5 DEF AcceptMark, TypeOK, trails
<1>5. CASE AcceptAppend(a)
  <2>1. AuditLine(a) \in ReviewEntry
    BY <1>2 DEF AuditLine, ReviewEntry
  <2>2. reviewLog' \in Seq(ReviewLine)
    BY <1>5, <2>1, TrailTypes DEF AcceptAppend
  <2>3. Known' /\ pc' \in [Actors -> Steps \cup {"idle"}] /\ job' \in [Actors -> Jobs]
    BY <1>1, <1>3, <1>5, GotoKnown DEF AcceptAppend, Steps, WriteSteps
  <2>4. ReceiptRatified'
    BY <1>1, <1>5, ReceiptsStay DEF AcceptAppend
  <2> QED BY <1>0, <1>5, <2>2, <2>3, <2>4 DEF AcceptAppend, TypeOK, ReviewLine
<1>6. CASE AcceptAppendFails(a) \/ AcceptTruncate(a)
  <2>1. reviewLog' \in Seq(ReviewLine)
    BY <1>2, <1>6, TrailTypes DEF AcceptAppendFails, AcceptTruncate, TypeOK, ReviewLine
  <2>2. Known' /\ pc' \in [Actors -> Steps \cup {"idle"}] /\ job' \in [Actors -> Jobs]
    BY <1>1, <1>6, EndKnown DEF AcceptAppendFails, AcceptTruncate
  <2>3. receipt' = receipt /\ ReceiptRatified'
    BY <1>1, <1>6, ReceiptsStay DEF AcceptAppendFails, AcceptTruncate
  <2> QED BY <1>0, <2>1, <2>2, <2>3 DEF TypeOK, ReviewLine
<1>7. CASE AcceptReplace(a)
  <2>1. ReceiptOf(a) \in Receipt
    BY <1>0, <1>2 DEF ReceiptOf, Receipt, Jobs
  <2>2. receipt' \in [Clusters -> Receipt \cup {None}]
    BY <1>2, <1>7, <2>1 DEF AcceptReplace, TypeOK
  <2>3. Known' /\ pc' \in [Actors -> Steps \cup {"idle"}] /\ job' \in [Actors -> Jobs]
    BY <1>1, <1>7, EndKnown DEF AcceptReplace
  <2>4. ReceiptRatified'
    <3>1. ASSUME NEW c \in Clusters, receipt'[c] # None,
                 NEW p \in DOMAIN receipt'[c].manifest
          PROVE  \E k \in RulingsOn(p)' : /\ rulings'[k].verdict = "ratified"
                                          /\ rulings'[k].manifest[p] = receipt'[c].manifest[p]
      <4>1. CASE c = job[a].cluster
        <5>1. receipt'[c] = ReceiptOf(a)
          BY <1>2, <1>7, <4>1 DEF AcceptReplace, TypeOK
        <5> QED BY <1>0, <1>2, <3>1, <5>1 DEF ReceiptOf, Ratified, RulingsOn
      <4>2. CASE c # job[a].cluster
        <5>1. receipt'[c] = receipt[c]
          BY <1>7, <4>2 DEF AcceptReplace, TypeOK
        <5> QED BY <1>0, <3>1, <5>1 DEF ReceiptRatified, RulingsOn
      <4> QED BY <4>1, <4>2
    <3> QED BY <3>1 DEF ReceiptRatified
  <2> QED BY <1>0, <1>7, <2>2, <2>3, <2>4 DEF AcceptReplace, TypeOK, trails
<1>8. CASE AcceptStage(a) \/ AcceptReplaceFails(a)
  <2>1. Known' /\ pc' \in [Actors -> Steps \cup {"idle"}] /\ job' \in [Actors -> Jobs]
    BY <1>1, <1>3, <1>8, GotoKnown DEF AcceptStage, AcceptReplaceFails, Steps, WriteSteps
  <2>2. ReceiptRatified'
    BY <1>1, <1>8, ReceiptsStay DEF AcceptStage, AcceptReplaceFails
  <2> QED BY <1>8, <2>1, <2>2 DEF AcceptStage, AcceptReplaceFails, TypeOK, trails
<1>9. CASE AcceptStageFails(a)
  <2>1. Known' /\ pc' \in [Actors -> Steps \cup {"idle"}] /\ job' \in [Actors -> Jobs]
    BY <1>1, <1>9, EndKnown DEF AcceptStageFails
  <2>2. ReceiptRatified'
    BY <1>1, <1>9, ReceiptsStay DEF AcceptStageFails
  <2> QED BY <1>9, <2>1, <2>2 DEF AcceptStageFails, TypeOK, trails
<1> QED BY <1>4, <1>5, <1>6, <1>7, <1>8, <1>9

\* record-ruling preserves the invariant.
LEMMA RulingKeeps ==
  ASSUME IInv, ground' \in Ground, NEW a \in Actors, RecordRuling(a)
  PROVE  IInv'
<1> USE DEF IInv
<1>0. /\ pc \in [Actors -> Steps \cup {"idle"}]
      /\ job \in [Actors -> Jobs]
      /\ job[a] \in Jobs
      /\ KnownOf(a)
  BY DEF TypeOK, Known
<1>1. ASSUME NEW A \in ArtifactSets, NEW v \in Verdicts, RuleStart(a, A, v)
      PROVE  IInv'
  <2> DEFINE j == [NoJob EXCEPT !.paths = A, !.verdict = v, !.manifest = ManifestOf(A)]
  <2>1. A \in SUBSET Paths /\ ManifestOf(A) \in Manifests
    BY PromotionAssumption, ManifestType
  <2>2. j \in Jobs /\ j.verdict = v
    BY <2>1, NoJobType DEF Jobs, NoJob
  <2>3. job' = [job EXCEPT ![a] = j] /\ job'[a] = j /\ pc'[a] = "rule" /\ Goto(a, "rule")
    BY <1>0, <1>1 DEF RuleStart, Goto
  <2> HIDE DEF j
  <2>4. RulingsKept /\ ReceiptRatified'
    BY <1>1, ReceiptsStay DEF RuleStart, RulingsKept, trails
  <2>5. KnownOf(a)'
    BY <2>2, <2>3 DEF KnownOf, ReadSteps, WriteSteps
  <2>6. Known' /\ pc' \in [Actors -> Steps \cup {"idle"}] /\ job' \in [Actors -> Jobs]
    BY <2>2, <2>3, <2>4, <2>5, MoveKnown DEF Steps
  <2> QED BY <1>1, <2>4, <2>6 DEF RuleStart, TypeOK, trails
<1>2. CASE RuleAppend(a) \/ RuleFails(a)
  <2> DEFINE e == [manifest |-> job[a].manifest, verdict |-> job[a].verdict]
  <2>1. e \in Ruling
    BY <1>0, <1>2 DEF RuleAppend, RuleFails, KnownOf, Ruling, Jobs
  <2>2. rulings' = Appended(rulings, <<e>>) \/ rulings' \in CutShort(rulings, FailPoints)
    BY <1>2 DEF RuleAppend, RuleFails
  <2> HIDE DEF e
  <2>3. RulingsKept /\ rulings' \in Seq(RulingLine)
    BY <2>1, <2>2, RulingsGrow
  <2>4. Known' /\ pc' \in [Actors -> Steps \cup {"idle"}] /\ job' \in [Actors -> Jobs]
    BY <1>2, <2>3, EndKnown DEF RuleAppend, RuleFails
  <2>5. UNCHANGED <<artifact, reviewLog, receipt>>
    BY <1>2 DEF RuleAppend, RuleFails
  <2>6. ReceiptRatified'
    BY <2>3, <2>5, ReceiptsStay
  <2> QED BY <2>3, <2>4, <2>5, <2>6 DEF TypeOK, RulingLine
<1> QED BY <1>1, <1>2 DEF RecordRuling

\* Approvals and files written by hand preserve the invariant.
LEMMA WorkspaceKeeps ==
  ASSUME IInv, ground' \in Ground, Workspace
  PROVE  IInv'
<1> USE DEF IInv
<1>1. UNCHANGED <<rulings, receipt, pc, job>>
  BY DEF Workspace, Approve, ApprovePair, HandEdit, trails
<1>2. Known' /\ ReceiptRatified'
  BY <1>1 DEF Known, KnownOf, Ratified, RulingsOn, ReceiptRatified
<1>3. ASSUME NEW t \in Targets, NEW doc \in Doc, Approve(t, doc) PROVE TypeOK'
  <2>1. [path |-> t, reviewer |-> doc.reviewer] \in ReviewEntry
    BY DEF ReviewEntry, Doc
  <2>2. reviewLog' \in Seq(ReviewLine)
    BY <1>3, <2>1, TrailTypes DEF Approve
  <2>3. artifact' \in [Paths -> Contents]
    BY <1>3 DEF Approve, TypeOK, Contents, Paths
  <2> QED BY <1>1, <2>2, <2>3 DEF TypeOK, ReviewLine
<1>4. ASSUME NEW i \in Ids, NEW k \in {"debt", "exemption"}, NEW doc \in Doc,
             NEW cover \in Doc, ApprovePair(i, k, doc, cover)
      PROVE  TypeOK'
  <2>1. Interaction(i) \in Targets /\ <<k, i>> \in Targets
    BY DEF Interaction, Targets, Kinds
  <2>2. /\ [path |-> Interaction(i), reviewer |-> doc.reviewer] \in ReviewEntry
        /\ [path |-> <<k, i>>, reviewer |-> doc.reviewer] \in ReviewEntry
    BY <2>1 DEF ReviewEntry, Doc
  <2>3. reviewLog' = Appended(reviewLog,
          <<[path |-> Interaction(i), reviewer |-> doc.reviewer],
            [path |-> <<k, i>>, reviewer |-> doc.reviewer]>>)
    BY <1>4 DEF ApprovePair
  <2>4. reviewLog' \in Seq(ReviewLine)
    BY <2>2, <2>3, TrailTypes
  <2>5. artifact' = [artifact EXCEPT ![Interaction(i)] = doc, ![<<k, i>>] = cover]
    BY <1>4 DEF ApprovePair
  <2>6. artifact' \in [Paths -> Contents]
    BY <2>5 DEF TypeOK, Contents
  <2> QED BY <1>1, <2>4, <2>6 DEF TypeOK, ReviewLine
<1>5. ASSUME NEW p \in Paths, NEW content \in Contents, HandEdit(p, content) PROVE TypeOK'
  BY <1>1, <1>5 DEF HandEdit, TypeOK, trails
<1> QED BY <1>2, <1>3, <1>4, <1>5 DEF Workspace

\* A process that dies leaves the invariant as it was.
LEMMA CrashKeeps ==
  ASSUME IInv, ground' \in Ground, NEW a \in Actors, Crash(a)
  PROVE  IInv'
<1> USE DEF IInv
<1>1. rulings' = rulings \/ rulings' \in CutShort(rulings, CrashPoints)
  BY DEF Crash
<1>2. RulingsKept /\ rulings' \in Seq(RulingLine)
  BY <1>1, RulingsGrow
<1>3. reviewLog' \in Seq(ReviewLine)
  BY TrailTypes DEF Crash, TypeOK, ReviewLine
<1>4. Known' /\ pc' \in [Actors -> Steps \cup {"idle"}] /\ job' \in [Actors -> Jobs]
  BY <1>2, EndKnown DEF Crash
<1>5. ReceiptRatified'
  BY <1>2, ReceiptsStay DEF Crash
<1> QED BY <1>2, <1>3, <1>4, <1>5 DEF Crash, TypeOK, ReviewLine, RulingLine

\* The empty workspace satisfies the invariant.
LEMMA InitIInv == Init => IInv
<1> SUFFICES ASSUME Init PROVE IInv
  OBVIOUS
<1>1. TypeOK
  BY NoJobType, PromotionAssumption DEF Init, TypeOK, Contents
<1>2. Known
  BY DEF Init, Known, KnownOf, ReadSteps, WriteSteps
<1>3. ReceiptRatified
  BY DEF Init, ReceiptRatified
<1> QED BY <1>1, <1>2, <1>3 DEF IInv

\* Every step of every process and of the workspace preserves it.
LEMMA StepIInv == IInv /\ [Next]_vars => IInv'
<1> SUFFICES ASSUME IInv, [Next]_vars PROVE IInv'
  OBVIOUS
<1>0. ground' \in Ground
  BY PromotionAssumption DEF Next, Reground, IInv, TypeOK, vars
<1>1. ASSUME NEW a \in Actors, AcceptPromotion(a) PROVE IInv'
  BY <1>0, <1>1, ReadKeeps, WriteKeeps DEF AcceptPromotion
<1>2. ASSUME NEW a \in Actors, RecordRuling(a) \/ Crash(a) PROVE IInv'
  BY <1>0, <1>2, RulingKeeps, CrashKeeps
<1>3. CASE UNCHANGED vars \/ \E g \in Grounds : Reground(g)
  <2>1. UNCHANGED <<artifact, reviewLog, rulings, receipt, pc, job>>
    BY <1>3 DEF vars, Reground, trails
  <2> QED BY <1>0, <2>1 DEF IInv, TypeOK, Known, KnownOf, Ratified, ReceiptRatified, RulingsOn
<1> QED BY <1>0, <1>1, <1>2, <1>3, WorkspaceKeeps DEF Next, Commands

-----------------------------------------------------------------------------
\* Every state has the declared types: no step of record-ruling or
\* accept-promotion writes an incomplete line or receipt.
THEOREM PromotionTyped == Spec => []TypeOK
<1>1. IInv => TypeOK
  BY DEF IInv
<1> QED BY <1>1, InitIInv, StepIInv, PTL DEF Spec

\* No interleaving, failure or crash mints a receipt that states a version no
\* human ratified: the gate of Stage 4.5.
THEOREM OnlyRatified == Spec => []ReceiptRatified
<1>1. IInv => ReceiptRatified
  BY DEF IInv
<1> QED BY <1>1, InitIInv, StepIInv, PTL DEF Spec

-----------------------------------------------------------------------------
\* No step takes a ruling back.
LEMMA NextKeepsRulings ==
  ASSUME IInv, [Next]_vars
  PROVE  RulingsKept
<1> USE DEF IInv
<1>1. CASE rulings' = rulings
  BY <1>1 DEF RulingsKept
<1>2. ASSUME NEW a \in Actors, RuleAppend(a) PROVE RulingsKept
  <2> DEFINE e == [manifest |-> job[a].manifest, verdict |-> job[a].verdict]
  <2>1. e \in Ruling
    BY <1>2 DEF RuleAppend, Known, KnownOf, Ruling, Jobs, TypeOK
  <2>2. rulings' = Appended(rulings, <<e>>)
    BY <1>2 DEF RuleAppend
  <2> HIDE DEF e
  <2> QED BY <2>1, <2>2, RulingsGrow
<1>3. ASSUME NEW a \in Actors, RuleFails(a) \/ Crash(a) PROVE RulingsKept
  <2>1. rulings' = rulings \/ \E points : rulings' \in CutShort(rulings, points)
    BY <1>3 DEF RuleFails, Crash
  <2> QED BY <2>1, RulingsGrow
<1>4. ASSUME NEW a \in Actors, AcceptPromotion(a) PROVE rulings' = rulings
  BY <1>4 DEF AcceptPromotion, AcceptStart, AcceptManifest, AcceptVersions,
     AcceptPolicy, AcceptRehash, AcceptProvenance, AcceptRulings, Pass, AcceptMark,
     AcceptAppend, AcceptAppendFails, AcceptStage, AcceptStageFails, AcceptReplace,
     AcceptReplaceFails,
     AcceptTruncate, AcceptReadFails, trails
<1>5. CASE Workspace \/ UNCHANGED vars \/ \E g \in Grounds : Reground(g)
  BY <1>1, <1>5 DEF Workspace, Approve, ApprovePair, HandEdit, Reground, trails, vars
<1>6. ASSUME NEW a \in Actors, RecordRuling(a) PROVE RulingsKept
  BY <1>1, <1>2, <1>3, <1>6 DEF RecordRuling, RuleStart, trails
<1> QED BY <1>1, <1>3, <1>4, <1>5, <1>6 DEF Next, Commands

\* Only the last step of accept_promotion writes a receipt.
LEMMA ReceiptsKept ==
  ASSUME [Next]_vars, ~\E a \in Actors : AcceptReplace(a)
  PROVE  receipt' = receipt
<1>1. ASSUME NEW a \in Actors, AcceptPromotion(a) PROVE receipt' = receipt
  BY <1>1 DEF AcceptPromotion, AcceptStart, AcceptManifest, AcceptVersions,
     AcceptPolicy, AcceptRehash, AcceptProvenance, AcceptRulings, Pass, AcceptMark,
     AcceptAppend, AcceptAppendFails, AcceptStage, AcceptStageFails, AcceptReplaceFails,
     AcceptTruncate, AcceptReadFails
<1>2. ASSUME NEW a \in Actors, RecordRuling(a) \/ Crash(a) PROVE receipt' = receipt
  BY <1>2 DEF RecordRuling, RuleStart, RuleAppend, RuleFails, Crash
<1>3. CASE Workspace \/ UNCHANGED vars \/ \E g \in Grounds : Reground(g)
  BY <1>3 DEF Workspace, Approve, ApprovePair, HandEdit, Reground, vars
<1> QED BY <1>1, <1>2, <1>3 DEF Next, Commands

\* What is ratified, after a step, are paths in some version.
LEMMA PairsType ==
  ASSUME TypeOK'
  PROVE  RatifiedPairs' \subseteq Paths \X Contents
<1> SUFFICES ASSUME NEW k \in DOMAIN rulings', rulings'[k] \notin {Fragment, Damaged},
                    NEW p \in DOMAIN rulings'[k].manifest
             PROVE  <<p, rulings'[k].manifest[p]>> \in Paths \X Contents
  BY DEF RatifiedPairs
<1>1. rulings'[k] \in Ruling
  BY DEF TypeOK
<1>2. PICK A \in SUBSET Paths : rulings'[k].manifest \in [A -> Contents]
  BY <1>1 DEF Ruling, Manifests
<1> QED BY <1>2

\* No step that keeps the rulings loses a ratified pair.
LEMMA PairsGrow ==
  ASSUME RulingsKept
  PROVE  RatifiedPairs \subseteq RatifiedPairs'
<1> SUFFICES ASSUME NEW k \in DOMAIN rulings, rulings[k] \notin {Fragment, Damaged},
                    rulings[k].verdict = "ratified",
                    NEW p \in DOMAIN rulings[k].manifest
             PROVE  <<p, rulings[k].manifest[p]>> \in RatifiedPairs'
  BY DEF RatifiedPairs
<1>1. k \in DOMAIN rulings' /\ rulings'[k] = rulings[k]
  BY DEF RulingsKept
<1> QED BY <1>1 DEF RatifiedPairs

\* A ruled manifest states ratified pairs only.
LEMMA RatifiedInPairs ==
  ASSUME NEW a \in Actors, Ratified(job[a].manifest), NEW p \in DOMAIN job[a].manifest
  PROVE  <<p, job[a].manifest[p]>> \in RatifiedPairs
<1>1. PICK k \in RulingsOn(p) : /\ rulings[k].verdict = "ratified"
                                /\ rulings[k].manifest[p] = job[a].manifest[p]
  BY DEF Ratified
<1> QED BY <1>1 DEF RulingsOn, RatifiedPairs

\* Every step is a ratification, a mint or no step of the contract.
LEMMA ContractStep == IInv /\ IInv' /\ [Next]_vars => [Contract!Next]_(Contract!vars)
<1> SUFFICES ASSUME IInv, IInv', [Next]_vars PROVE Contract!Next
  OBVIOUS
<1>1. CASE ~\E a \in Actors : AcceptReplace(a)
  <2>1. receipt' = receipt
    BY <1>1, ReceiptsKept
  <2>2. Manifested' = Manifested
    BY <2>1 DEF Manifested
  <2>3. RatifiedPairs \subseteq RatifiedPairs' /\ RatifiedPairs' \subseteq Paths \X Contents
    BY NextKeepsRulings, PairsGrow, PairsType DEF IInv
  <2>4. Contract!Ratify
    BY <2>2, <2>3 DEF Contract!Ratify
  <2> QED BY <2>4 DEF Contract!Next
<1>2. ASSUME NEW a \in Actors, AcceptReplace(a) PROVE Contract!Next
  <2> DEFINE m == job[a].manifest
  <2>1. job[a].cluster \in Clusters
    BY <1>2 DEF AcceptReplace, IInv, Known, KnownOf, WriteSteps
  <2>2. PICK cl \in Clusters : cl = job[a].cluster
    BY <2>1
  <2>3. cl \in Clusters /\ Ratified(m) /\ m \in Manifests
    BY <1>2 DEF AcceptReplace, IInv, Known, KnownOf, WriteSteps, TypeOK, Jobs
  <2>4. ReceiptOf(a) # None
    <3>1. ReceiptOf(a) \in Receipt
      BY <1>2 DEF IInv, TypeOK, Jobs, Receipt, ReceiptOf, Known, KnownOf, AcceptReplace,
                  WriteSteps
    <3> QED BY <3>1, ReceiptAssumption
  <2>5. /\ receipt' = [receipt EXCEPT ![cl] = ReceiptOf(a)]
        /\ rulings' = rulings
        /\ receipt \in [Clusters -> Receipt \cup {None}]
    BY <1>2, <2>2 DEF AcceptReplace, trails, IInv, TypeOK
  <2>6. Manifested' = [Manifested EXCEPT ![cl] = m]
    BY <2>3, <2>4, <2>5 DEF Manifested, ReceiptOf
  <2>7. Manifested'[cl] = m
    BY <2>3, <2>6 DEF Manifested
  <2>8. RatifiedPairs' = RatifiedPairs
    BY <2>5 DEF RatifiedPairs
  <2>9. \A p \in DOMAIN m : <<p, m[p]>> \in RatifiedPairs
    BY <2>3, RatifiedInPairs
  <2>10. Manifested'[cl] \in Manifests
    BY <2>3, <2>7
  <2>11. \A p \in DOMAIN Manifested'[cl] : <<p, Manifested'[cl][p]>> \in RatifiedPairs
    BY <2>7, <2>9
  <2>12. Manifested' = [Manifested EXCEPT ![cl] = Manifested'[cl]]
    BY <2>6, <2>7
  <2> HIDE DEF m
  <2>13. Contract!Mint(cl)
    BY <2>8, <2>10, <2>11, <2>12 DEF Contract!Mint, Contract!Manifests, Manifests
  <2> QED BY <2>3, <2>13 DEF Contract!Next
<1> QED BY <1>1, <1>2

\* record-ruling and accept-promotion, with approvals and edits going on and any
\* of them failing or dying, implement the contract of Stage 4.5: receipts
\* appear whole, over ratified versions only, and no ratification is lost.
THEOREM ImplementsContract == Spec => ContractSpec
<1>1. Init => Contract!Init
  BY DEF Init, Contract!Init, RatifiedPairs, Manifested
<1> QED BY <1>1, InitIInv, StepIInv, ContractStep, PTL DEF Spec, ContractSpec, Contract!Spec
-----------------------------------------------------------------------------
(* One command at a time.                                                  *)

OneCommand == \A a, b \in Actors : a = b

\* Nobody writes an artifact between its validation and the last look at it.
FilesHeld == EditSteps \cap {"policy", "rehash", "provenance"} = {}

\* Acceptable, in a workspace of these files on this ground.
AcceptableIn(files, g, t) ==
  /\ files[t] \in Doc
  /\ Valid(t, files[t].body, ContextOf(files, g))
  /\ t[1] = "interaction" => G5(files[t].body, g.evidence)

\* There was a workspace with these files in it that passes the validators.
WasGrounded(manifest, policy) ==
  \E files \in [Paths -> Contents], g \in Ground :
    /\ \A p \in DOMAIN manifest : files[p] = manifest[p]
    /\ Policy \in DOMAIN manifest /\ files[Policy] = policy
    /\ \A t \in Targets \cap DOMAIN manifest : AcceptableIn(files, g, t)

\* The steps at which a process may still take the log back to its mark.
Appending == {"append", "stage", "replace", "truncate"}

\* A line that no running process takes back.
Lasting(k) == \A a \in Actors : pc[a] \in Appending => k <= job[a].mark

Logged(entry) == \E k \in DOMAIN reviewLog : Lasting(k) /\ reviewLog[k] = entry

Approved(manifest) ==
  \A t \in Targets \cap DOMAIN manifest :
    Logged([path |-> t, reviewer |-> manifest[t].reviewer])

\* What a process has found out by its step, of the files as they are, of
\* those it accepts and of the log.
FoundOf(a) ==
  LET m == job[a].manifest A == job[a].paths IN
  /\ pc[a] \in ReadSteps \cup WriteSteps => Policy \in A
  /\ pc[a] \in (ReadSteps \cup WriteSteps) \ {"manifest"} => DOMAIN m = A
  /\ pc[a] \in {"policy", "rehash", "provenance"} =>
       A \cap Targets # {} /\ \A t \in A \cap Targets : Acceptable(t)
  /\ pc[a] \in {"rehash", "provenance"} => job[a].policy = artifact[Policy]
  /\ pc[a] = "provenance" => Stands(m)
  /\ pc[a] \in {"rulings"} \cup WriteSteps =>
       WasGrounded(m, job[a].policy) /\ Approved(m) /\ Readable(reviewLog)
  /\ pc[a] \in Appending => job[a].mark <= Len(reviewLog)
  /\ pc[a] \in {"stage", "replace"} => \E k \in DOMAIN reviewLog : reviewLog[k] = AuditLine(a)

FoundInv ==
  /\ \A a \in Actors : FoundOf(a)
  /\ \A c \in Clusters : receipt[c] # None =>
       /\ WasGrounded(receipt[c].manifest, receipt[c].policy)
       /\ Approved(receipt[c].manifest)
       /\ Logged([path |-> c, reviewer |-> receipt[c].reviewer])

\* Past the rulings check, each accepted version is ratified by the last
\* ruling on its file.
RuledInv == \A a \in Actors : pc[a] \in WriteSteps => RatifiedNow(job[a].manifest)

LinesLast ==
  \A k \in DOMAIN reviewLog : Lasting(k) =>
    k \in DOMAIN reviewLog' /\ reviewLog'[k] = reviewLog[k] /\ Lasting(k)'

ReceiptsFound ==
  \A c \in Clusters : receipt[c] # None =>
    /\ WasGrounded(receipt[c].manifest, receipt[c].policy)
    /\ Approved(receipt[c].manifest)
    /\ Logged([path |-> c, reviewer |-> receipt[c].reviewer])

\* What the log held of the receipts it still holds.
LEMMA ReceiptsStayFound ==
  ASSUME ReceiptsFound, receipt' = receipt, LinesLast
  PROVE  ReceiptsFound'
<1> SUFFICES ASSUME NEW c \in Clusters, receipt'[c] # None
             PROVE  /\ WasGrounded(receipt'[c].manifest, receipt'[c].policy)
                    /\ Approved(receipt[c].manifest)'
                    /\ Logged([path |-> c, reviewer |-> receipt[c].reviewer])'
  BY DEF ReceiptsFound
<1>1. /\ WasGrounded(receipt[c].manifest, receipt[c].policy)
      /\ Approved(receipt[c].manifest)
      /\ Logged([path |-> c, reviewer |-> receipt[c].reviewer])
  BY DEF ReceiptsFound
<1>2. Approved(receipt[c].manifest)'
  BY <1>1 DEF Approved, Logged, LinesLast
<1>3. Logged([path |-> c, reviewer |-> receipt[c].reviewer])'
  BY <1>1 DEF Logged, LinesLast
<1> QED BY <1>1, <1>2, <1>3

\* A process that has ended takes nothing back.
LEMMA EndFound ==
  ASSUME OneCommand, TypeOK, FoundInv, NEW a \in Actors, End(a), receipt' = receipt,
         \A k \in DOMAIN reviewLog : Lasting(k) =>
           k \in DOMAIN reviewLog' /\ reviewLog'[k] = reviewLog[k]
  PROVE  FoundInv'
<1>1. \A b \in Actors : b = a
  BY DEF OneCommand
<1>2. pc'[a] = "idle"
  BY DEF End, TypeOK
<1>3. FoundOf(a)'
  BY <1>2 DEF FoundOf, ReadSteps, WriteSteps, Appending
<1>4. LinesLast
  BY <1>1, <1>2 DEF LinesLast, Lasting, Appending
<1>5. ReceiptsFound'
  BY <1>4, ReceiptsStayFound DEF FoundInv, ReceiptsFound
<1> QED BY <1>1, <1>3, <1>5 DEF FoundInv, ReceiptsFound

\* One that moves on has found what its next step takes for granted.
LEMMA MoveFound ==
  ASSUME OneCommand, TypeOK, FoundInv, NEW a \in Actors, FoundOf(a)', receipt' = receipt, LinesLast
  PROVE  FoundInv'
<1>1. \A b \in Actors : b = a
  BY DEF OneCommand
<1>2. ReceiptsFound'
  BY ReceiptsStayFound DEF FoundInv, ReceiptsFound
<1> QED BY <1>1, <1>2 DEF FoundInv, ReceiptsFound

\* Without a mark every line of the log stays.
LEMMA QuietLines ==
  ASSUME OneCommand, NEW a \in Actors, pc'[a] \notin Appending, reviewLog' = reviewLog
  PROVE  LinesLast
  BY DEF OneCommand, LinesLast, Lasting

\* The checks of accept_promotion find what the invariant says.
LEMMA ReadFound ==
  ASSUME OneCommand, TypeOK, FoundInv, ground' = ground, NEW a \in Actors,
         \/ \E c \in Clusters, A \in ArtifactSets, r \in Reviewers : AcceptStart(a, c, A, r)
         \/ AcceptManifest(a) \/ AcceptVersions(a) \/ AcceptPolicy(a)
         \/ AcceptRehash(a) \/ AcceptProvenance(a) \/ AcceptRulings(a)
         \/ AcceptReadFails(a)
  PROVE  FoundInv'
<1>0. /\ pc \in [Actors -> Steps \cup {"idle"}] /\ job \in [Actors -> Jobs] /\ job[a] \in Jobs
      /\ FoundOf(a)
      /\ UNCHANGED <<artifact, reviewLog, rulings, receipt>>
  BY DEF TypeOK, FoundInv, AcceptStart, AcceptManifest, AcceptVersions, AcceptPolicy,
         AcceptRehash, AcceptProvenance, AcceptRulings, AcceptReadFails, Pass, trails
<1>1. CASE End(a)
  BY <1>0, <1>1, EndFound
<1>2. ASSUME pc'[a] \in ReadSteps \cup {"mark"}, FoundOf(a)' PROVE FoundInv'
  BY <1>0, <1>2, QuietLines, MoveFound DEF ReadSteps, Appending
<1>3. ASSUME NEW c \in Clusters, NEW A \in ArtifactSets, NEW r \in Reviewers,
             AcceptStart(a, c, A, r)
      PROVE  FoundInv'
  <2>1. pc'[a] = "manifest" /\ job'[a].paths = A /\ Policy \in A
    BY <1>0, <1>3 DEF AcceptStart, Goto, NoJob
  <2> QED BY <1>2, <2>1 DEF FoundOf, ReadSteps, WriteSteps, Appending
<1>4. CASE AcceptManifest(a) /\ ~End(a)
  <2>1. /\ pc[a] = "manifest" /\ pc'[a] = "versions"
        /\ job'[a].paths = job[a].paths /\ job'[a].manifest = ManifestOf(job[a].paths)
    BY <1>0, <1>4 DEF AcceptManifest, Goto, Jobs
  <2>2. DOMAIN job'[a].manifest = job'[a].paths /\ Policy \in job'[a].paths
    BY <1>0, <2>1 DEF ManifestOf, FoundOf, ReadSteps
  <2> QED BY <1>2, <2>1, <2>2 DEF FoundOf, ReadSteps, WriteSteps, Appending
<1>5. CASE AcceptVersions(a) /\ ~End(a)
  <2>1. /\ pc[a] = "versions" /\ pc'[a] = "policy" /\ job' = job
        /\ job[a].paths \cap Targets # {}
        /\ \A t \in job[a].paths \cap Targets : Acceptable(t)
    BY <1>0, <1>5 DEF AcceptVersions, Pass, Goto
  <2>2. \A t \in job[a].paths \cap Targets : Acceptable(t)'
    BY <1>0, <2>1 DEF Acceptable, ContextOf, Lookup, CoveredBy
  <2> QED BY <1>0, <1>2, <2>1, <2>2 DEF FoundOf, ReadSteps, WriteSteps, Appending
<1>6. CASE AcceptPolicy(a) /\ ~End(a)
  <2>1. /\ pc[a] = "policy" /\ pc'[a] = "rehash"
        /\ job'[a].paths = job[a].paths /\ job'[a].manifest = job[a].manifest
        /\ job'[a].policy = artifact[Policy]
    BY <1>0, <1>6 DEF AcceptPolicy, Goto, Jobs
  <2>2. \A t \in job[a].paths \cap Targets : Acceptable(t)'
    BY <1>0, <2>1 DEF FoundOf, Acceptable, ContextOf, Lookup, CoveredBy
  <2> QED BY <1>0, <1>2, <2>1, <2>2 DEF FoundOf, ReadSteps, WriteSteps, Appending
<1>7. CASE AcceptRehash(a) /\ ~End(a)
  <2>1. /\ pc[a] = "rehash" /\ pc'[a] = "provenance" /\ job' = job
        /\ Stands(job[a].manifest)
    BY <1>0, <1>7 DEF AcceptRehash, Pass, Goto
  <2>2. \A t \in job[a].paths \cap Targets : Acceptable(t)'
    BY <1>0, <2>1 DEF FoundOf, Acceptable, ContextOf, Lookup, CoveredBy
  <2>3. Stands(job[a].manifest)'
    BY <1>0, <2>1 DEF Stands
  <2> QED BY <1>0, <1>2, <2>1, <2>2, <2>3 DEF FoundOf, ReadSteps, WriteSteps, Appending, Stands
<1>8. CASE AcceptProvenance(a) /\ ~End(a)
  <2> DEFINE m == job[a].manifest
  <2>1. /\ pc[a] = "provenance" /\ pc'[a] = "rulings" /\ job' = job
        /\ Provenanced(job[a].paths)
    BY <1>0, <1>8 DEF AcceptProvenance, Pass, Goto
  <2>2. /\ DOMAIN m = job[a].paths /\ Stands(m) /\ job[a].policy = artifact[Policy]
        /\ job[a].paths \cap Targets # {} /\ Policy \in job[a].paths
        /\ \A t \in job[a].paths \cap Targets : Acceptable(t)
    BY <1>0, <2>1 DEF FoundOf, ReadSteps, WriteSteps
  <2>3. WasGrounded(m, job[a].policy)
    <3>1. /\ artifact \in [Paths -> Contents] /\ \A p \in DOMAIN m : artifact[p] = m[p]
          /\ Policy \in DOMAIN m /\ artifact[Policy] = job[a].policy
          /\ ground \in Ground
          /\ \A t \in Targets \cap DOMAIN m : AcceptableIn(artifact, ground, t)
      BY <2>2 DEF TypeOK, Stands, Acceptable, AcceptableIn
    <3> QED BY <3>1 DEF WasGrounded
  <2>4. Readable(reviewLog)
    BY <2>1, <2>2 DEF Provenanced, Acceptable
  <2>5. ASSUME NEW t \in Targets \cap DOMAIN m
        PROVE  \E k \in DOMAIN reviewLog :
                 reviewLog[k] = [path |-> t, reviewer |-> m[t].reviewer]
    BY <2>1, <2>2, <2>5 DEF Provenanced, Acceptable, Stands
  <2>6. \A k : Lasting(k)'
    BY <2>1 DEF OneCommand, Lasting, Appending
  <2>7. Approved(m)' /\ Readable(reviewLog)'
    BY <1>0, <2>1, <2>4, <2>5, <2>6 DEF Approved, Logged, Readable
  <2> HIDE DEF m
  <2>8. WasGrounded(job'[a].manifest, job'[a].policy) /\ Approved(job[a].manifest)'
    BY <2>1, <2>3, <2>7 DEF m
  <2> QED BY <1>2, <2>1, <2>2, <2>7, <2>8 DEF FoundOf, ReadSteps, WriteSteps, Appending, m
<1>9. CASE AcceptRulings(a) /\ ~End(a)
  <2>1. pc[a] = "rulings" /\ pc'[a] = "mark" /\ job' = job
    BY <1>0, <1>9 DEF AcceptRulings, Pass, Goto
  <2>2. /\ WasGrounded(job[a].manifest, job[a].policy) /\ Approved(job[a].manifest)
        /\ Readable(reviewLog) /\ DOMAIN job[a].manifest = job[a].paths
        /\ Policy \in job[a].paths
    BY <1>0, <2>1 DEF FoundOf, ReadSteps, WriteSteps
  <2>3. \A k : Lasting(k)'
    BY <2>1 DEF OneCommand, Lasting, Appending
  <2>4. Approved(job[a].manifest)' /\ Readable(reviewLog)'
    BY <1>0, <2>1, <2>2, <2>3 DEF Approved, Logged, Readable
  <2>5. WasGrounded(job'[a].manifest, job'[a].policy)
    BY <2>1, <2>2
  <2> QED BY <1>2, <2>1, <2>2, <2>4, <2>5 DEF FoundOf, ReadSteps, WriteSteps, Appending
<1>10. CASE AcceptReadFails(a)
  BY <1>1, <1>10 DEF AcceptReadFails
<1> QED BY <1>1, <1>3, <1>4, <1>5, <1>6, <1>7, <1>8, <1>9, <1>10

\* Appending keeps the lines of the log.
LEMMA LogGrows ==
  ASSUME TypeOK, NEW new \in Seq(ReviewEntry), new # <<>>, reviewLog' = Appended(reviewLog, new)
  PROVE  /\ Len(reviewLog') \in Nat /\ Len(reviewLog) <= Len(reviewLog')
         /\ \A k \in DOMAIN reviewLog : k \in DOMAIN reviewLog' /\ reviewLog'[k] = reviewLog[k]
         /\ Readable(reviewLog) => reviewLog' = reviewLog \o new /\ Readable(reviewLog')
<1>1. reviewLog \in Seq(ReviewLine) /\ Damaged \in ReviewLine /\ new \in Seq(ReviewLine)
  BY DEF TypeOK, ReviewLine
<1>2. /\ Appended(reviewLog, new) \in Seq(ReviewLine)
      /\ Len(Appended(reviewLog, new)) = Len(reviewLog) + Len(new)
      /\ \A k \in DOMAIN reviewLog : Appended(reviewLog, new)[k] = reviewLog[k]
  BY <1>1, AppendedKeeps
<1>3. Readable(reviewLog) => Appended(reviewLog, new) = reviewLog \o new
                             /\ Readable(Appended(reviewLog, new))
  BY <1>1, ReadableGrows, LineAssumption DEF ReviewLine
<1> QED BY <1>1, <1>2, <1>3

\* A rollback keeps the lines before the mark.
LEMMA LogShrinks ==
  ASSUME TypeOK, NEW n \in Nat, n <= Len(reviewLog)
  PROVE  \A k \in DOMAIN reviewLog : k <= n =>
           /\ k \in DOMAIN TruncatedTo(reviewLog, n)
           /\ TruncatedTo(reviewLog, n)[k] = reviewLog[k]
  BY DEF TruncatedTo, TypeOK

\* What a process past the provenance check holds.
FoundPast(a) ==
  /\ Policy \in job[a].paths /\ DOMAIN job[a].manifest = job[a].paths
  /\ WasGrounded(job[a].manifest, job[a].policy)
  /\ Approved(job[a].manifest) /\ Readable(reviewLog)

\* It still holds it when the lines last.
LEMMA PastKept ==
  ASSUME NEW a \in Actors, FoundPast(a), LinesLast, Readable(reviewLog'),
         job'[a].paths = job[a].paths, job'[a].manifest = job[a].manifest,
         job'[a].policy = job[a].policy
  PROVE  FoundPast(a)'
<1>1. Approved(job[a].manifest)'
  BY DEF FoundPast, Approved, Logged, LinesLast
<1>2. WasGrounded(job'[a].manifest, job'[a].policy)
  BY DEF FoundPast
<1> QED BY <1>1, <1>2 DEF FoundPast, Readable

\* The transaction of accept_promotion.
LEMMA WriteFound ==
  ASSUME OneCommand, IInv, FoundInv, NEW a \in Actors,
         \/ AcceptMark(a) \/ AcceptAppend(a) \/ AcceptAppendFails(a)
         \/ AcceptStage(a) \/ AcceptStageFails(a)
         \/ AcceptReplace(a) \/ AcceptReplaceFails(a) \/ AcceptTruncate(a)
  PROVE  FoundInv'
<1>0. /\ TypeOK
      /\ pc \in [Actors -> Steps \cup {"idle"}] /\ job \in [Actors -> Jobs] /\ job[a] \in Jobs
      /\ FoundOf(a) /\ FoundPast(a) /\ pc[a] \in WriteSteps
      /\ job[a].mark \in Nat /\ job[a].cluster \in Clusters /\ job[a].by \in Reviewers
      /\ reviewLog \in Seq(ReviewLine) /\ Len(reviewLog) \in Nat
      /\ artifact' = artifact
  <2>1. TypeOK /\ pc[a] \in WriteSteps /\ FoundOf(a) /\ KnownOf(a) /\ artifact' = artifact
    BY DEF IInv, Known, FoundInv, WriteSteps, AcceptMark, AcceptAppend, AcceptAppendFails,
           AcceptStage, AcceptStageFails, AcceptReplace, AcceptReplaceFails, AcceptTruncate
  <2>2. FoundPast(a)
    BY <2>1 DEF FoundOf, FoundPast, ReadSteps, WriteSteps
  <2> QED BY <2>1, <2>2 DEF TypeOK, Jobs, KnownOf, ReviewLine
<1>1. \A b \in Actors : b = a
  BY DEF OneCommand
<1>2. CASE AcceptMark(a)
  <2>1. /\ pc[a] = "mark" /\ pc'[a] = "append" /\ UNCHANGED <<reviewLog, receipt>>
        /\ job'[a] = [job[a] EXCEPT !.mark = Len(reviewLog)]
    BY <1>0, <1>2 DEF AcceptMark, Goto, trails
  <2>2. /\ job'[a].paths = job[a].paths /\ job'[a].manifest = job[a].manifest
        /\ job'[a].policy = job[a].policy /\ job'[a].mark = Len(reviewLog)
    BY <1>0, <2>1 DEF Jobs
  <2>3. \A k \in DOMAIN reviewLog : k <= Len(reviewLog)
    BY <1>0
  <2>4. LinesLast
    BY <1>1, <2>1, <2>2, <2>3 DEF LinesLast, Lasting
  <2>5. FoundPast(a)'
    BY <1>0, <2>1, <2>2, <2>4, PastKept DEF FoundPast, Readable
  <2>6. FoundOf(a)'
    BY <1>0, <2>1, <2>2, <2>5 DEF FoundOf, FoundPast, ReadSteps, WriteSteps, Appending
  <2> QED BY <1>0, <2>1, <2>4, <2>6, MoveFound
<1>3. CASE AcceptAppend(a)
  <2> DEFINE new == <<AuditLine(a)>>
  <2>1. /\ pc[a] = "append" /\ pc'[a] = "stage" /\ job' = job /\ receipt' = receipt
        /\ reviewLog' = Appended(reviewLog, new)
    BY <1>0, <1>3 DEF AcceptAppend, Goto
  <2>2. AuditLine(a) \in ReviewEntry
    BY <1>0 DEF AuditLine, ReviewEntry
  <2>3. /\ Len(reviewLog') \in Nat /\ Len(reviewLog) <= Len(reviewLog')
        /\ \A k \in DOMAIN reviewLog : k \in DOMAIN reviewLog' /\ reviewLog'[k] = reviewLog[k]
        /\ Readable(reviewLog) => reviewLog' = reviewLog \o new /\ Readable(reviewLog')
    <3>1. new \in Seq(ReviewEntry) /\ new # <<>>
      BY <2>2
    <3> HIDE DEF new
    <3> QED BY <1>0, <2>1, <3>1, LogGrows
  <2>4. LinesLast
    BY <1>1, <2>1, <2>3 DEF LinesLast, Lasting, Appending
  <2>5. FoundPast(a)'
    BY <1>0, <2>1, <2>3, <2>4, PastKept DEF FoundPast
  <2>6. reviewLog' = reviewLog \o new
    BY <1>0, <2>3 DEF FoundPast
  <2>7. Len(reviewLog) + 1 \in DOMAIN reviewLog' /\ reviewLog'[Len(reviewLog) + 1] = AuditLine(a)
    BY <1>0, <2>6
  <2>8. AuditLine(a)' = AuditLine(a)
    BY <2>1 DEF AuditLine
  <2>9. job[a].mark <= Len(reviewLog')
    BY <1>0, <2>1, <2>3 DEF FoundOf, Appending
  <2>10. FoundOf(a)'
    BY <2>1, <2>5, <2>7, <2>8, <2>9 DEF FoundOf, FoundPast, ReadSteps, WriteSteps, Appending
  <2> QED BY <1>0, <2>1, <2>4, <2>10, MoveFound
<1>4. CASE AcceptAppendFails(a) \/ AcceptTruncate(a)
  <2>1. /\ pc[a] \in Appending /\ End(a) /\ receipt' = receipt
        /\ reviewLog' \in {reviewLog, TruncatedTo(reviewLog, job[a].mark)}
    BY <1>4 DEF AcceptAppendFails, AcceptTruncate, Appending
  <2>2. job[a].mark <= Len(reviewLog)
    BY <1>0, <2>1 DEF FoundOf
  <2>3. \A k \in DOMAIN reviewLog : Lasting(k) =>
           k \in DOMAIN reviewLog' /\ reviewLog'[k] = reviewLog[k]
    BY <1>0, <2>1, <2>2, LogShrinks DEF Lasting
  <2> QED BY <1>0, <2>1, <2>3, EndFound
<1>5. CASE AcceptStage(a) \/ AcceptReplaceFails(a)
  <2>1. /\ pc[a] \in {"stage", "replace"} /\ pc'[a] \in {"replace", "truncate"} /\ job' = job
        /\ UNCHANGED <<reviewLog, receipt>>
    BY <1>0, <1>5 DEF AcceptStage, AcceptReplaceFails, Goto, trails
  <2>2. LinesLast
    BY <1>1, <2>1 DEF LinesLast, Lasting, Appending
  <2>3. FoundPast(a)'
    BY <1>0, <2>1, <2>2, PastKept DEF FoundPast, Readable
  <2>4. job[a].mark <= Len(reviewLog) /\ \E k \in DOMAIN reviewLog : reviewLog[k] = AuditLine(a)
    BY <1>0, <2>1 DEF FoundOf, Appending
  <2>5. AuditLine(a)' = AuditLine(a)
    BY <2>1 DEF AuditLine
  <2>6. FoundOf(a)'
    BY <2>1, <2>3, <2>4, <2>5 DEF FoundOf, FoundPast, ReadSteps, WriteSteps, Appending
  <2> QED BY <1>0, <2>1, <2>2, <2>6, MoveFound
<1>6. CASE AcceptStageFails(a)
  <2>1. End(a) /\ UNCHANGED <<reviewLog, receipt>>
    BY <1>6 DEF AcceptStageFails, trails
  <2> QED BY <1>0, <2>1, EndFound
<1>7. CASE AcceptReplace(a)
  <2>1. /\ pc[a] = "replace" /\ End(a) /\ reviewLog' = reviewLog
        /\ receipt' = [receipt EXCEPT ![job[a].cluster] = ReceiptOf(a)]
    BY <1>7 DEF AcceptReplace, trails
  <2>2. pc'[a] = "idle"
    BY <1>0, <2>1 DEF End
  <2>3. \A k : Lasting(k)'
    BY <1>1, <2>2 DEF Lasting, Appending
  <2>4. FoundOf(a)'
    BY <2>2 DEF FoundOf, ReadSteps, WriteSteps, Appending
  <2>5. ASSUME NEW c \in Clusters, receipt'[c] # None
        PROVE  /\ WasGrounded(receipt'[c].manifest, receipt'[c].policy)
               /\ Approved(receipt[c].manifest)'
               /\ Logged([path |-> c, reviewer |-> receipt[c].reviewer])'
    <3>1. CASE c = job[a].cluster
      <4>1. /\ receipt'[c].manifest = job[a].manifest /\ receipt'[c].policy = job[a].policy
            /\ receipt'[c].reviewer = job[a].by
        BY <2>1, <3>1, <1>0 DEF TypeOK, ReceiptOf
      <4>2. WasGrounded(receipt'[c].manifest, receipt'[c].policy)
        BY <1>0, <4>1 DEF FoundPast
      <4>3. Approved(receipt[c].manifest)'
        BY <1>0, <2>1, <2>3, <4>1 DEF FoundPast, Approved, Logged
      <4>4. \E k \in DOMAIN reviewLog : reviewLog[k] = [path |-> c, reviewer |-> job[a].by]
        BY <1>0, <2>1, <3>1 DEF FoundOf, AuditLine
      <4>5. Logged([path |-> c, reviewer |-> receipt[c].reviewer])'
        BY <2>1, <2>3, <4>1, <4>4 DEF Logged
      <4> QED BY <4>2, <4>3, <4>5
    <3>2. CASE c # job[a].cluster
      <4>1. receipt'[c] = receipt[c]
        BY <2>1, <3>2, <1>0 DEF TypeOK
      <4>2. /\ WasGrounded(receipt[c].manifest, receipt[c].policy)
            /\ Approved(receipt[c].manifest)
            /\ Logged([path |-> c, reviewer |-> receipt[c].reviewer])
        BY <2>5, <4>1 DEF FoundInv
      <4>3. Approved(receipt[c].manifest)'
        BY <2>1, <2>3, <4>1, <4>2 DEF Approved, Logged
      <4>4. Logged([path |-> c, reviewer |-> receipt[c].reviewer])'
        BY <2>1, <2>3, <4>1, <4>2 DEF Logged
      <4> QED BY <4>1, <4>2, <4>3, <4>4
    <3> QED BY <3>1, <3>2
  <2> QED BY <1>1, <2>4, <2>5 DEF FoundInv
<1> QED BY <1>2, <1>3, <1>4, <1>5, <1>6, <1>7

\* record-ruling, and a process that dies, leave the review log's lines.
LEMMA RulingFound ==
  ASSUME OneCommand, TypeOK, FoundInv, NEW a \in Actors, RecordRuling(a) \/ Crash(a)
  PROVE  FoundInv'
<1>0. reviewLog \in Seq(ReviewLine) /\ receipt' = receipt
  BY DEF TypeOK, ReviewLine, RecordRuling, RuleStart, RuleAppend, RuleFails, Crash
<1>1. ASSUME NEW A \in ArtifactSets, NEW v \in Verdicts, RuleStart(a, A, v) PROVE FoundInv'
  <2>1. pc'[a] = "rule" /\ reviewLog' = reviewLog
    BY <1>1 DEF RuleStart, Goto, TypeOK, trails
  <2>2. FoundOf(a)'
    BY <2>1 DEF FoundOf, ReadSteps, WriteSteps, Appending
  <2>3. LinesLast
    BY <2>1, QuietLines DEF Appending
  <2> QED BY <1>0, <2>2, <2>3, MoveFound
<1>2. CASE RuleAppend(a) \/ RuleFails(a) \/ Crash(a)
  <2>1. End(a) /\ reviewLog' \in {reviewLog, Append(reviewLog, Fragment)}
    BY <1>2 DEF RuleAppend, RuleFails, Crash, CutShort
  <2>2. \A k \in DOMAIN reviewLog : k \in DOMAIN reviewLog' /\ reviewLog'[k] = reviewLog[k]
    BY <1>0, <2>1
  <2> QED BY <1>0, <2>1, <2>2, EndFound
<1> QED BY <1>1, <1>2 DEF RecordRuling

\* Approvals and edits under a command leave what it has found, as long as
\* the files are held while it relies on them.
LEMMA WorkspaceFound ==
  ASSUME OneCommand, FilesHeld, TypeOK, FoundInv, Workspace
  PROVE  FoundInv'
<1>0. UNCHANGED <<receipt, pc, job>> /\ Writable
  BY DEF Workspace, Approve, ApprovePair, HandEdit
<1>1. /\ Len(reviewLog') \in Nat /\ Len(reviewLog) <= Len(reviewLog')
      /\ \A k \in DOMAIN reviewLog : k \in DOMAIN reviewLog' /\ reviewLog'[k] = reviewLog[k]
      /\ Readable(reviewLog) => Readable(reviewLog')
  <2>1. ASSUME NEW t \in Targets, NEW doc \in Doc, Approve(t, doc)
        PROVE  \E new \in Seq(ReviewEntry) :
                 new # <<>> /\ reviewLog' = Appended(reviewLog, new)
    <3>1. [path |-> t, reviewer |-> doc.reviewer] \in ReviewEntry
      BY DEF ReviewEntry, Doc
    <3>2. <<[path |-> t, reviewer |-> doc.reviewer]>> \in Seq(ReviewEntry)
      BY <3>1
    <3> QED BY <2>1, <3>2 DEF Approve
  <2>2. ASSUME NEW i \in Ids, NEW k \in {"debt", "exemption"}, NEW doc \in Doc,
               NEW cover \in Doc, ApprovePair(i, k, doc, cover)
        PROVE  \E new \in Seq(ReviewEntry) :
                 new # <<>> /\ reviewLog' = Appended(reviewLog, new)
    <3>1. Interaction(i) \in Targets /\ <<k, i>> \in Targets
      BY DEF Interaction, Targets, Kinds
    <3> DEFINE e == [path |-> Interaction(i), reviewer |-> doc.reviewer]
               f == [path |-> <<k, i>>, reviewer |-> doc.reviewer]
    <3>2. e \in ReviewEntry /\ f \in ReviewEntry
      BY <3>1 DEF ReviewEntry, Doc
    <3>3. reviewLog' = Appended(reviewLog, <<e, f>>)
      BY <2>2 DEF ApprovePair
    <3> HIDE DEF e, f
    <3>4. <<e, f>> \in Seq(ReviewEntry) /\ <<e, f>> # <<>>
      BY <3>2
    <3> QED BY <3>3, <3>4
  <2>3. CASE \E new \in Seq(ReviewEntry) : new # <<>> /\ reviewLog' = Appended(reviewLog, new)
    BY <2>3, LogGrows
  <2>4. CASE reviewLog' = reviewLog
    BY <2>4 DEF TypeOK, Readable
  <2>5. ASSUME NEW p \in Paths, NEW content \in Contents, HandEdit(p, content)
        PROVE  reviewLog' = reviewLog
    BY <2>5 DEF HandEdit, trails
  <2> QED BY <2>1, <2>2, <2>3, <2>4, <2>5 DEF Workspace
<1>2. LinesLast
  BY <1>0, <1>1 DEF LinesLast, Lasting
<1>3. ASSUME NEW a \in Actors PROVE FoundOf(a)'
  <2>1. FoundOf(a) /\ pc[a] \notin {"policy", "rehash", "provenance"}
        /\ pc[a] \in Steps \cup {"idle"} /\ job[a] \in Jobs
    BY <1>0 DEF FoundInv, Writable, FilesHeld, TypeOK
  <2>2. pc'[a] = pc[a] /\ job'[a] = job[a]
    BY <1>0
  <2>3. CASE pc[a] \in {"rulings"} \cup WriteSteps
    <3>1. FoundPast(a)
      BY <2>1, <2>3 DEF FoundOf, FoundPast, ReadSteps, WriteSteps
    <3>2. FoundPast(a)'
      BY <1>1, <1>2, <2>2, <3>1, PastKept DEF FoundPast
    <3>3. pc[a] \in Appending => job[a].mark <= Len(reviewLog')
      BY <1>1, <2>1 DEF FoundOf, Jobs, TypeOK
    <3>4. pc[a] \in {"stage", "replace"} => \E k \in DOMAIN reviewLog' : reviewLog'[k] = AuditLine(a)
      BY <1>1, <2>1 DEF FoundOf
    <3>5. AuditLine(a)' = AuditLine(a)
      BY <2>2 DEF AuditLine
    <3> QED BY <2>2, <2>3, <3>2, <3>3, <3>4, <3>5
            DEF FoundOf, FoundPast, ReadSteps, WriteSteps, Appending
  <2>4. CASE pc[a] \notin {"rulings"} \cup WriteSteps
    BY <2>1, <2>2, <2>4 DEF FoundOf, ReadSteps, WriteSteps, Appending, Steps
  <2> QED BY <2>3, <2>4
<1>4. ReceiptsFound'
  BY <1>0, <1>2, ReceiptsStayFound DEF FoundInv, ReceiptsFound
<1> QED BY <1>3, <1>4 DEF FoundInv, ReceiptsFound

LEMMA StepFound ==
  ASSUME OneCommand, FilesHeld
  PROVE  IInv /\ FoundInv /\ [Next]_vars => FoundInv'
<1> SUFFICES ASSUME IInv, FoundInv, [Next]_vars PROVE FoundInv'
  OBVIOUS
<1>0. TypeOK
  BY DEF IInv
<1>1. ASSUME NEW a \in Actors, AcceptPromotion(a), ground' = ground PROVE FoundInv'
  BY <1>0, <1>1, ReadFound, WriteFound DEF AcceptPromotion
<1>2. ASSUME NEW a \in Actors, RecordRuling(a) \/ Crash(a) PROVE FoundInv'
  BY <1>0, <1>2, RulingFound
<1>3. CASE UNCHANGED vars \/ \E g \in Grounds : Reground(g)
  <2>1. /\ UNCHANGED <<artifact, reviewLog, receipt, pc, job>>
        /\ ground' = ground \/ Writable
    BY <1>3 DEF vars, Reground, trails
  <2>2. ASSUME NEW a \in Actors PROVE FoundOf(a)'
    <3>1. FoundOf(a) /\ pc'[a] = pc[a] /\ job'[a] = job[a]
      BY <2>1 DEF FoundInv
    <3>2. pc[a] \in {"policy", "rehash", "provenance"} =>
            \A t \in Targets : Acceptable(t) => Acceptable(t)'
      <4>1. pc[a] \in {"policy", "rehash", "provenance"} => ground' = ground
        BY <2>1 DEF Writable, FilesHeld
      <4> QED BY <2>1, <4>1 DEF Acceptable, ContextOf, Lookup, CoveredBy
    <3>3. Stands(job[a].manifest) => Stands(job[a].manifest)'
      BY <2>1 DEF Stands
    <3>4. Approved(job[a].manifest) => Approved(job[a].manifest)'
      BY <2>1 DEF Approved, Logged, Lasting
    <3>5. Readable(reviewLog) => Readable(reviewLog)'
      BY <2>1 DEF Readable
    <3>6. AuditLine(a)' = AuditLine(a)
      BY <2>1 DEF AuditLine
    <3>7. WasGrounded(job[a].manifest, job[a].policy)
            => WasGrounded(job'[a].manifest, job'[a].policy)
      BY <3>1
    <3> QED BY <2>1, <3>1, <3>2, <3>3, <3>4, <3>5, <3>6, <3>7 DEF FoundOf
  <2>3. LinesLast
    BY <2>1 DEF LinesLast, Lasting
  <2> QED BY <2>1, <2>2, <2>3, ReceiptsStayFound DEF FoundInv, ReceiptsFound
<1> QED BY <1>0, <1>1, <1>2, <1>3, WorkspaceFound DEF Next, Commands

-----------------------------------------------------------------------------
\* Every review block a receipt states was in the log when it was minted and is
\* there since, whatever fails or dies: one command at a time, and nobody writes
\* a file between its validation and its provenance check.
THEOREM ReceiptsProvenanced ==
  ASSUME OneCommand, FilesHeld
  PROVE  Spec => []ReceiptProvenanced
<1>1. Init => FoundInv
  BY DEF Init, FoundInv, FoundOf, ReadSteps, WriteSteps, Appending
<1>2. FoundInv => ReceiptProvenanced
  BY DEF FoundInv, ReceiptProvenanced, Approved, Logged
<1> QED BY <1>1, <1>2, InitIInv, StepIInv, StepFound, PTL DEF Spec

\* A receipt has its acceptance in the log, also when the command that wrote it,
\* or one after it, fails or dies at any point: the log is taken back to a mark
\* behind it, and nothing glues the line to a damaged one, because an
\* unreadable log is refused before.
THEOREM ReceiptsLogged ==
  ASSUME OneCommand, FilesHeld
  PROVE  Spec => []ReceiptLogged
<1>1. Init => FoundInv
  BY DEF Init, FoundInv, FoundOf, ReadSteps, WriteSteps, Appending
<1>2. FoundInv => ReceiptLogged
  BY DEF FoundInv, ReceiptLogged, Logged
<1> QED BY <1>1, <1>2, InitIInv, StepIInv, StepFound, PTL DEF Spec

\* An interaction that passes with the records that cover it passes in every
\* workspace that has the same files and the evidence it links.
LEMMA GroundedAgrees ==
  ASSUME NEW i \in Ids, NEW x \in [Paths -> Contents], NEW y \in [Paths -> Contents],
         NEW g \in Ground, NEW h \in Ground, NEW body, body = x[Interaction(i)].body,
         AcceptableIn(x, g, Interaction(i)), x[Interaction(i)] = y[Interaction(i)],
         Linked(body, h.evidence),
         body \in NonPairwise => x[<<"debt", i>>] = y[<<"debt", i>>],
         body \in BoundaryRequired =>
           \/ EdgeOf[body] \in h.edges
           \/ /\ AcceptableIn(x, g, <<"exemption", i>>)
              /\ x[<<"exemption", i>>] = y[<<"exemption", i>>]
  PROVE  AcceptableIn(y, h, Interaction(i))
<1> DEFINE t == Interaction(i)
           e == <<"exemption", i>>
<1>1. t[1] = "interaction" /\ t[2] = i /\ e[1] = "exemption" /\ e[2] = i
  BY DEF Interaction
<1>2. /\ x[t] \in Doc /\ InteractionValid(i, body, ContextOf(x, g))
      /\ G5(body, g.evidence)
  BY <1>1 DEF AcceptableIn, Valid
<1>3. y[t] \in Doc /\ y[t].body = body /\ body \in WellFormed /\ Linked(body, g.evidence)
  BY <1>2 DEF InteractionValid, ContextOf
<1>4. Lookup(x, g)[i] = body /\ Lookup(y, h)[i] = body
  BY <1>2, <1>3 DEF Lookup
<1>5. G15(i, body, ContextOf(y, h))
  <2>1. body \in NonPairwise => i \in CoveredBy("debt", x, g)
    BY <1>2 DEF InteractionValid, G15, ContextOf
  <2> QED BY <1>4, <2>1 DEF G15, ContextOf, CoveredBy
<1>6. R2(i, body, ContextOf(y, h))
  <2>1. ASSUME body \in BoundaryRequired, EdgeOf[body] \notin h.edges
        PROVE  i \in CoveredBy("exemption", y, h)
    <3>1. AcceptableIn(x, g, e) /\ x[e] = y[e]
      BY <2>1
    <3>2. x[e] \in Doc /\ CoverValid("exemption", i, x[e].body, ContextOf(x, g))
      BY <1>1, <3>1 DEF AcceptableIn, Valid
    <3>3. y[e] \in Doc /\ y[e].body \in WellFormed
      BY <3>1, <3>2 DEF CoverValid
    <3> QED BY <1>4, <2>1, <3>3 DEF CoveredBy, Resolves
  <2> QED BY <2>1 DEF R2, ContextOf
<1>7. G5(body, h.evidence)
  BY <1>2, <1>3 DEF G5, Linked
<1>8. InteractionValid(i, body, ContextOf(y, h))
  BY <1>3, <1>5, <1>6 DEF InteractionValid, ContextOf
<1> QED BY <1>1, <1>3, <1>7, <1>8 DEF AcceptableIn, Valid

\* While the files of a receipt stand, its policy version is the one of the
\* policy document, and the interactions it lists with their cover, with the
\* evidence they link still there, pass the gates of the crate as it is now:
\* a receipt's hashes carry the validation of its minting over, through every
\* other change of evidence and boundary contracts.
THEOREM StandingReceiptsGrounded ==
  ASSUME OneCommand, FilesHeld
  PROVE  Spec => []StandingMeansGrounded
<1>1. Init => FoundInv
  BY DEF Init, FoundInv, FoundOf, ReadSteps, WriteSteps, Appending
<1>2. TypeOK /\ FoundInv => StandingMeansGrounded
  <2> SUFFICES ASSUME TypeOK, FoundInv, NEW c \in Clusters, receipt[c] # None,
                      Stands(receipt[c].manifest)
               PROVE  /\ receipt[c].policy = artifact[Policy]
                      /\ \A i \in Ids :
                           LET t == Interaction(i) IN
                           (/\ t \in DOMAIN receipt[c].manifest
                            /\ Covered(i, receipt[c].manifest[t].body, receipt[c].manifest)
                            /\ Linked(receipt[c].manifest[t].body, ground.evidence))
                           => Acceptable(t)
    BY DEF StandingMeansGrounded
  <2> DEFINE m == receipt[c].manifest
  <2>0. WasGrounded(m, receipt[c].policy)
    BY DEF FoundInv
  <2>1. PICK files \in [Paths -> Contents], g \in Ground :
          /\ \A p \in DOMAIN m : files[p] = m[p]
          /\ Policy \in DOMAIN m /\ files[Policy] = receipt[c].policy
          /\ \A t \in Targets \cap DOMAIN m : AcceptableIn(files, g, t)
    BY <2>0 DEF WasGrounded
  <2>2. /\ artifact \in [Paths -> Contents] /\ ground \in Ground
        /\ \A p \in DOMAIN m : artifact[p] = files[p]
    BY <2>1 DEF TypeOK, Stands
  <2> HIDE DEF m
  <2>3. receipt[c].policy = artifact[Policy]
    BY <2>1, <2>2
  <2>4. ASSUME NEW i \in Ids, Interaction(i) \in DOMAIN m,
               Covered(i, m[Interaction(i)].body, m),
               Linked(m[Interaction(i)].body, ground.evidence)
        PROVE  Acceptable(Interaction(i))
    <3> DEFINE body == files[Interaction(i)].body
    <3>1. Interaction(i) \in Targets /\ <<"exemption", i>> \in Targets
      BY DEF Interaction, Targets, Kinds
    <3>2. /\ AcceptableIn(files, g, Interaction(i))
          /\ files[Interaction(i)] = artifact[Interaction(i)]
          /\ body = m[Interaction(i)].body
      BY <2>1, <2>2, <2>4, <3>1
    <3>3. body \in NonPairwise => files[<<"debt", i>>] = artifact[<<"debt", i>>]
      BY <2>2, <2>4, <3>2 DEF Covered
    <3>4. body \in BoundaryRequired =>
            \/ EdgeOf[body] \in ground.edges
            \/ /\ AcceptableIn(files, g, <<"exemption", i>>)
               /\ files[<<"exemption", i>>] = artifact[<<"exemption", i>>]
      BY <2>1, <2>2, <2>4, <3>1, <3>2 DEF Covered
    <3>5. Linked(body, ground.evidence)
      BY <2>4, <3>2
    <3> HIDE DEF body
    <3>6. body = files[Interaction(i)].body
      BY DEF body
    <3>7. AcceptableIn(artifact, ground, Interaction(i))
      BY <2>2, <3>2, <3>3, <3>4, <3>5, <3>6, GroundedAgrees
    <3> QED BY <3>7 DEF AcceptableIn, Acceptable
  <2> QED BY <2>3, <2>4 DEF m
<1>3. IInv => TypeOK
  BY DEF IInv
<1> QED BY <1>1, <1>2, <1>3, InitIInv, StepIInv, StepFound, PTL DEF Spec

\* A command past the rulings check holds what the last rulings ratify, because
\* nobody else rules meanwhile.
LEMMA StepRuled ==
  ASSUME OneCommand
  PROVE  IInv /\ RuledInv /\ [Next]_vars => RuledInv'
<1> SUFFICES ASSUME IInv, RuledInv, [Next]_vars, NEW b \in Actors, pc'[b] \in WriteSteps
             PROVE  RatifiedNow(job[b].manifest)'
  BY DEF RuledInv
<1>0. TypeOK /\ job[b] \in Jobs
  BY DEF IInv, TypeOK
<1>1. ASSUME rulings' = rulings, job'[b].manifest = job[b].manifest, RatifiedNow(job[b].manifest)
      PROVE  RatifiedNow(job[b].manifest)'
  BY <1>1 DEF RatifiedNow, RulingsOn, Readable
<1>2. ASSUME NEW a \in Actors, End(a) PROVE FALSE
  BY <1>0, <1>2 DEF OneCommand, End, TypeOK, WriteSteps
<1>3. ASSUME NEW a \in Actors, pc'[a] \in ReadSteps \cup {"rule"} PROVE FALSE
  BY <1>3 DEF OneCommand, ReadSteps, WriteSteps
<1>4. ASSUME NEW a \in Actors,
             \/ \E c \in Clusters, A \in ArtifactSets, r \in Reviewers : AcceptStart(a, c, A, r)
             \/ AcceptManifest(a) \/ AcceptVersions(a) \/ AcceptPolicy(a)
             \/ AcceptRehash(a) \/ AcceptProvenance(a) \/ AcceptReadFails(a)
             \/ AcceptAppendFails(a) \/ AcceptStageFails(a) \/ AcceptReplace(a)
             \/ AcceptTruncate(a) \/ RecordRuling(a) \/ Crash(a)
      PROVE  FALSE
  <2>1. End(a) \/ \E s \in ReadSteps \cup {"rule"} : Goto(a, s)
    BY <1>4 DEF AcceptStart, AcceptManifest, AcceptVersions, AcceptPolicy, AcceptRehash,
                AcceptProvenance, AcceptReadFails, Pass, AcceptAppendFails, AcceptStageFails,
                AcceptReplace, AcceptTruncate, RecordRuling, RuleStart, RuleAppend, RuleFails,
                Crash, ReadSteps
  <2>2. ASSUME NEW s \in ReadSteps \cup {"rule"}, Goto(a, s) PROVE pc'[a] \in ReadSteps \cup {"rule"}
    BY <1>0, <2>2 DEF Goto, TypeOK
  <2> QED BY <1>2, <1>3, <2>1, <2>2
<1>5. ASSUME NEW a \in Actors, AcceptRulings(a) PROVE RatifiedNow(job[b].manifest)'
  <2>1. a = b /\ ~End(a)
    BY <1>2, <1>5 DEF OneCommand
  <2>2. job' = job /\ rulings' = rulings /\ RatifiedNow(job[b].manifest)
    BY <1>5, <2>1 DEF AcceptRulings, Pass, trails
  <2> QED BY <1>1, <2>2
<1>6. ASSUME NEW a \in Actors,
             AcceptMark(a) \/ AcceptAppend(a) \/ AcceptStage(a) \/ AcceptReplaceFails(a)
      PROVE  RatifiedNow(job[b].manifest)'
  <2>1. a = b /\ pc[b] \in WriteSteps /\ rulings' = rulings
    BY <1>6 DEF OneCommand, AcceptMark, AcceptAppend, AcceptStage, AcceptReplaceFails, trails,
                WriteSteps
  <2>2. job'[b].manifest = job[b].manifest
    BY <1>0, <1>6, <2>1 DEF AcceptMark, AcceptAppend, AcceptStage, AcceptReplaceFails, TypeOK, Jobs
  <2> QED BY <1>1, <2>1, <2>2 DEF RuledInv
<1>7. CASE Workspace \/ UNCHANGED vars \/ \E g \in Grounds : Reground(g)
  <2>1. UNCHANGED <<rulings, pc, job>>
    BY <1>7 DEF Workspace, Approve, ApprovePair, HandEdit, Reground, trails, vars
  <2> QED BY <1>1, <2>1 DEF RuledInv
<1> QED BY <1>4, <1>5, <1>6, <1>7 DEF Next, Commands, AcceptPromotion

\* "A rejected artifact must not be promoted": what a receipt states when it is
\* written, the last ruling on each file ratifies, with one command at a time;
\* files may change under it.
THEOREM MintedOnLast ==
  ASSUME OneCommand
  PROVE  Spec => MintedOnLastRuling
<1>1. Init => RuledInv
  BY DEF Init, RuledInv, WriteSteps
<1>2. IInv /\ RuledInv /\ [Next]_vars =>
        [\A c \in Clusters : receipt'[c] # receipt[c] => RatifiedNow(receipt'[c].manifest)]_vars
  <2> SUFFICES ASSUME IInv, RuledInv, [Next]_vars, NEW c \in Clusters, receipt'[c] # receipt[c]
               PROVE  RatifiedNow(receipt'[c].manifest)
    OBVIOUS
  <2>1. PICK a \in Actors : AcceptReplace(a)
    BY ReceiptsKept
  <2>2. receipt'[c] = ReceiptOf(a) /\ pc[a] \in WriteSteps
    BY <2>1 DEF AcceptReplace, IInv, TypeOK, WriteSteps
  <2> QED BY <2>2 DEF ReceiptOf, RuledInv
<1> QED BY <1>1, <1>2, InitIInv, StepIInv, StepRuled, PTL DEF Spec, MintedOnLastRuling
=============================================================================

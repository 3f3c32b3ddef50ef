----------------------- MODULE ReviewCheckpointProofs -----------------------
(***************************************************************************)
(* Theorems about ReviewCheckpoint, for every set of processes, artifacts  *)
(* and reviewers and every choice of failing and dying steps.              *)
(*                                                                         *)
(* The inductive invariant adds two facts to the type invariant: the shape *)
(* of a process's local variables at each step, and where the documents it *)
(* still may write come from.  With one command at a time it is added what  *)
(* a pair has written, which lines of the log stay, and which records are   *)
(* staged: the all-or-nothing of a pair, the audit line of what stands and  *)
(* the coverage of it rest on these.                                        *)
(***************************************************************************)
EXTENDS ReviewCheckpoint, AuditLogProofs, FiniteSetTheorems

\* Steps at which a command holds drafts that passed their validator.
ValidatedSingle == {"write", "torn", "unlink", "log"}
ValidatedPair == PairSteps \ {"pair_read", "pair_validate"}

\* The local variables a step reads are there.
ShapeOf(a) ==
  /\ pc[a] # "idle" => job[a].by \in Reviewers
  /\ pc[a] \in SingleSteps => Len(job[a].tgts) = 1
  /\ pc[a] \in PairSteps =>
       Len(job[a].tgts) = 2 /\ job[a].tgts[1] # job[a].tgts[2]
  /\ pc[a] \in ValidatedSingle => Len(job[a].read) = 1
  /\ pc[a] \in PairSteps \ {"pair_read"} => Len(job[a].read) = 2
  /\ pc[a] \in {"replace_1", "replace_2", "unlink_1", "unlink_2"} =>
       Len(job[a].orig) = 2
  /\ job[a].done > 0 => Len(job[a].orig) = 2
  /\ pc[a] = "unlink_2" => job[a].done = 3
  /\ job[a].done = 3 => pc[a] \in {"unlink_2", "restore", "truncate"}

\* Everything a process may still write to a target was validated.
SourcedOf(a) ==
  /\ pc[a] \in ValidatedSingle => <<job[a].tgts[1], DocRead(a, 1)>> \in passed
  /\ pc[a] \in ValidatedPair =>
       \A n \in 1..2 : <<job[a].tgts[n], DocRead(a, n)>> \in passed
  /\ pc[a] \in PairSteps /\ Len(job[a].orig) = 2 =>
       \A n \in 1..2 : job[a].orig[n] \in Doc =>
                         <<job[a].tgts[n], job[a].orig[n]>> \in passed

Shape == \A a \in Actors : ShapeOf(a)
Sourced == \A a \in Actors : SourcedOf(a)

IInv == TypeOK /\ Shape /\ OnlyValidated /\ Sourced

\* The coverage derived from any files is a context of the declared type.
LEMMA ContextType ==
  ASSUME target \in [Targets -> Content], ground \in Ground
  PROVE  ContextOf(target, ground) \in Contexts
<1>1. Lookup(target, ground) \in [Ids -> Bodies \cup {None}]
  BY BodiesAssumption DEF Lookup, Doc, Content
<1>2. /\ CoveredBy("debt", target, ground) \subseteq Ids
      /\ CoveredBy("exemption", target, ground) \subseteq Ids
  BY DEF CoveredBy
<1>3. ground.evidence \in SUBSET Evidence /\ ground.edges \in SUBSET Edges
  BY DEF Ground
<1> QED BY <1>1, <1>2, <1>3 DEF ContextOf, Contexts

\* A process at rest has local variables of their types.
LEMMA NoJobType == NoJob \in Jobs
  BY DEF NoJob, Jobs, NoContext, Contexts


\* The empty workspace has the declared types.
LEMMA TypeInit == Init => TypeOK
  BY NoJobType, CheckpointAssumption DEF Init, TypeOK, LogLine, Content, DraftContent

\* Assigning one local variable keeps the record of them well-typed.
LEMMA JobUpdate ==
  ASSUME NEW j \in Jobs
  PROVE  /\ \A s \in Seq(Bodies) : [j EXCEPT !.read = s] \in Jobs
         /\ \A s \in Seq(Content) : [j EXCEPT !.orig = s] \in Jobs
         /\ \A n \in Nat : [j EXCEPT !.mark = n] \in Jobs
         /\ \A n \in 0..3 : [j EXCEPT !.done = n] \in Jobs
         /\ \A s \in Seq(Targets), r \in Reviewers :
              [j EXCEPT !.tgts = s, !.by = r] \in Jobs
         /\ \A s \in Seq(Targets), r \in Reviewers, c \in Contexts :
              [j EXCEPT !.tgts = s, !.by = r, !.ctx = c] \in Jobs
  BY DEF Jobs

\* What a command ends with.
LEMMA EndType ==
  ASSUME TypeOK, NEW a \in Actors, End(a)
  PROVE  pc' \in [Actors -> Steps \cup {"idle"}] /\ job' \in [Actors -> Jobs]
  BY NoJobType DEF End, TypeOK

\* Moving to a known step.
LEMMA GotoType ==
  ASSUME TypeOK, NEW a \in Actors, NEW s \in Steps, Goto(a, s)
  PROVE  pc' \in [Actors -> Steps \cup {"idle"}]
  BY DEF Goto, TypeOK

\* The documents and the audit lines a process writes are of their types.
LEMMA Written ==
  ASSUME TypeOK, Shape, NEW a \in Actors, NEW n \in 1..2,
         n <= Len(job[a].read), n <= Len(job[a].tgts), pc[a] # "idle"
  PROVE  /\ job[a].tgts[n] \in Targets
         /\ job[a].read[n] \in Bodies
         /\ DocRead(a, n) \in Doc
         /\ EntryFor(a, n) \in LogLine
<1>1. job[a].tgts \in Seq(Targets) /\ job[a].read \in Seq(Bodies) /\ job[a].by \in Reviewers
  BY DEF TypeOK, Jobs, Shape, ShapeOf
<1>2. job[a].tgts[n] \in Targets /\ job[a].read[n] \in Bodies
  BY <1>1
<1> QED BY <1>1, <1>2 DEF DocRead, EntryFor, Doc, Entry, LogLine

\* The same for a single approval past its validator.
LEMMA WrittenSingle ==
  ASSUME TypeOK, Shape, NEW a \in Actors, pc[a] \in ValidatedSingle
  PROVE  /\ job[a].tgts[1] \in Targets
         /\ DocRead(a, 1) \in Doc
         /\ EntryFor(a, 1) \in LogLine
<1>1. Len(job[a].read) = 1 /\ Len(job[a].tgts) = 1 /\ pc[a] # "idle"
  BY DEF Shape, ShapeOf, SingleSteps, ValidatedSingle
<1> QED BY <1>1, Written

\* The same for a pair approval that has read its drafts.
LEMMA WrittenPair ==
  ASSUME TypeOK, Shape, NEW a \in Actors, pc[a] \in PairSteps \ {"pair_read"},
         NEW n \in 1..2
  PROVE  /\ job[a].tgts[n] \in Targets
         /\ job[a].read[n] \in Bodies
         /\ DocRead(a, n) \in Doc
         /\ EntryFor(a, n) \in LogLine
<1>1. Len(job[a].read) = 2 /\ Len(job[a].tgts) = 2 /\ pc[a] # "idle"
  BY DEF Shape, ShapeOf, PairSteps
<1> QED BY <1>1, Written

\* The log after a step: lines of this command's, fragments, or a rollback.
LEMMA LogType ==
  ASSUME TypeOK
  PROVE  /\ \A e \in LogLine : Appended(log, <<e>>) \in Seq(LogLine)
         /\ \A e, f \in LogLine : Appended(log, <<e, f>>) \in Seq(LogLine)
         /\ \A n \in Nat : TruncatedTo(log, n) \in Seq(LogLine)
         /\ \A a, steps, points : CutShort(a, steps, points) \subseteq Seq(LogLine)
<1>1. log \in Seq(LogLine) /\ Fragment \in LogLine /\ Damaged \in LogLine
  BY DEF TypeOK, LogLine
<1>2. ASSUME NEW e \in LogLine, NEW f \in LogLine
      PROVE  /\ Appended(log, <<e>>) \in Seq(LogLine)
             /\ Appended(log, <<e, f>>) \in Seq(LogLine)
  <2>1. <<e>> \in Seq(LogLine) /\ <<e, f>> \in Seq(LogLine)
    OBVIOUS
  <2>2. <<e>> # <<>> /\ <<e, f>> # <<>>
    OBVIOUS
  <2> QED BY <1>1, <2>1, <2>2, AppendedKeeps
<1>3. \A n \in Nat : TruncatedTo(log, n) \in Seq(LogLine)
  BY <1>1, TruncatedType
<1>4. \A a, steps, points : CutShort(a, steps, points) \subseteq Seq(LogLine)
  BY <1>1 DEF CutShort
<1> QED BY <1>2, <1>3, <1>4

\* What no command writes has its type.
CrateType == ground \in Ground /\ retracted \in SUBSET Edges

\* No step of a single approval leaves the declared types.
LEMMA ApproveType ==
  ASSUME TypeOK, Shape, NEW a \in Actors, Approve(a), CrateType'
  PROVE  TypeOK'
<1> USE DEF TypeOK, CrateType
<1>s. SingleSteps \subseteq Steps
  BY DEF Steps
<1>1. ASSUME NEW t \in Targets, NEW r \in Reviewers, ApproveSelect(a, t, r) PROVE TypeOK'
  <2>1. [NoJob EXCEPT !.tgts = <<t>>, !.by = r, !.ctx = ContextOf(target, ground)] \in Jobs
    <3>1. <<t>> \in Seq(Targets) /\ ContextOf(target, ground) \in Contexts
      BY ContextType
    <3> QED BY <3>1, NoJobType, JobUpdate
  <2>2. pc' \in [Actors -> Steps \cup {"idle"}]
    BY <1>1, GotoType DEF ApproveSelect, Steps, SingleSteps
  <2>3. job' \in [Actors -> Jobs]
    BY <1>1, <2>1 DEF ApproveSelect
  <2> QED BY <1>1, <2>2, <2>3 DEF ApproveSelect, files, history
<1>2. CASE ApproveRead(a)
  <2> DEFINE t == job[a].tgts[1]
             d == draft[t]
  <2>1. job[a].tgts \in Seq(Targets) /\ Len(job[a].tgts) = 1 /\ job[a].by \in Reviewers
    BY <1>2 DEF ApproveRead, Shape, ShapeOf, SingleSteps, Jobs
  <2>2. t \in Targets
    BY <2>1
  <2>3. CASE d \in Bodies /\ Goto(a, "write") /\ job' = [job EXCEPT ![a].read = <<d>>]
             /\ passed' = passed \cup {<<t, [body |-> d, reviewer |-> job[a].by]>>}
    <3>1. <<d>> \in Seq(Bodies)
      BY <2>3
    <3>2. job' \in [Actors -> Jobs]
      BY <2>3, <3>1, JobUpdate
    <3>3. passed' \in SUBSET (Targets \X Doc)
      BY <2>1, <2>2, <2>3 DEF Doc
    <3>4. pc' \in [Actors -> Steps \cup {"idle"}]
      BY <2>3, GotoType DEF Steps, SingleSteps
    <3> QED BY <1>2, <3>2, <3>3, <3>4 DEF ApproveRead, files
  <2>4. CASE End(a) /\ UNCHANGED passed
    BY <1>2, <2>4, EndType DEF ApproveRead, files
  <2> QED BY <1>2, <2>3, <2>4 DEF ApproveRead
<1>3. CASE ApproveTruncate(a)
  <2>1. pc' \in [Actors -> Steps \cup {"idle"}]
    BY <1>3, GotoType DEF ApproveTruncate, Steps, SingleSteps
  <2> QED BY <1>3, <2>1 DEF ApproveTruncate, history, Content
<1>4. CASE ApproveWrite(a)
  <2>1. pc' \in [Actors -> Steps \cup {"idle"}]
    BY <1>4, GotoType DEF ApproveWrite, Steps, SingleSteps
  <2>2. DocRead(a, 1) \in Content
    BY <1>4, WrittenSingle DEF ApproveWrite, ValidatedSingle, Content
  <2>3. target' \in [Targets -> Content]
    BY <1>4, <2>2 DEF ApproveWrite
  <2>4. unlogged' \in SUBSET (Targets \X Doc)
    BY <1>4, WrittenSingle DEF ApproveWrite, ValidatedSingle
  <2> QED BY <1>4, <2>1, <2>3, <2>4 DEF ApproveWrite
<1>5. CASE ApproveUnlink(a)
  <2>1. CASE Goto(a, "log") /\ UNCHANGED job
    <3>1. pc' \in [Actors -> Steps \cup {"idle"}]
      BY <2>1, GotoType DEF Steps, SingleSteps
    <3> QED BY <1>5, <2>1, <3>1 DEF ApproveUnlink, history, DraftContent
  <2>2. CASE End(a) /\ UNCHANGED draft
    BY <1>5, <2>2, EndType DEF ApproveUnlink, history
  <2> QED BY <1>5, <2>1, <2>2 DEF ApproveUnlink
<1>6. CASE ApproveLog(a)
  <2>1. EntryFor(a, 1) \in LogLine
    BY <1>6, WrittenSingle DEF ApproveLog, ValidatedSingle
  <2>2. log' \in Seq(LogLine)
    BY <1>6, <2>1, LogType DEF ApproveLog
  <2>3. completed' \in [Targets -> Nat]
    BY <1>6, WrittenSingle DEF ApproveLog, ValidatedSingle
  <2> QED BY <1>6, <2>2, <2>3, EndType DEF ApproveLog
<1>7. CASE ApproveFails(a)
  <2>1. log' \in Seq(LogLine)
    BY <1>7, LogType DEF ApproveFails
  <2> QED BY <1>7, <2>1, EndType DEF ApproveFails, history
<1> QED BY <1>1, <1>2, <1>3, <1>4, <1>5, <1>6, <1>7 DEF Approve

\* What the rollback puts back over a target it had replaced.
LEMMA Restored ==
  ASSUME TypeOK, Shape, NEW a \in Actors, PairRestore(a), NEW t \in Targets
  PROVE  \/ target'[t] = target[t]
         \/ \E n \in 1..2 : /\ n <= Len(job[a].orig)
                            /\ Len(job[a].orig) = 2
                            /\ t = job[a].tgts[n]
                            /\ target'[t] = job[a].orig[n]
<1> DEFINE restored == {n \in 1..2 : n <= job[a].done}
<1>1. CASE ~\E n \in restored : t = job[a].tgts[n]
  BY <1>1 DEF PairRestore
<1>2. CASE \E n \in restored : t = job[a].tgts[n]
  <2> DEFINE m == CHOOSE n \in restored : t = job[a].tgts[n]
  <2>1. m \in restored /\ t = job[a].tgts[m]
    BY <1>2
  <2>2. target'[t] = job[a].orig[m]
    BY <1>2 DEF PairRestore
  <2> HIDE DEF m
  <2>3. m \in 1..2 /\ m <= job[a].done /\ job[a].done \in 0..3
    BY <2>1 DEF TypeOK, Jobs
  <2>4. job[a].done > 0
    BY <2>3
  <2>5. Len(job[a].orig) = 2
    BY <2>4 DEF Shape, ShapeOf
  <2> QED BY <2>1, <2>2, <2>3, <2>5
<1> QED BY <1>1, <1>2

\* After a restore every target holds content.
LEMMA RestoredType ==
  ASSUME TypeOK, Shape, NEW a \in Actors, PairRestore(a)
  PROVE  target' \in [Targets -> Content]
<1>1. \A t \in Targets : target'[t] \in Content
  <2> TAKE t \in Targets
  <2>1. job[a].orig \in Seq(Content) /\ target[t] \in Content
    BY DEF TypeOK, Jobs
  <2>2. \A n \in 1..2 : n <= Len(job[a].orig) => job[a].orig[n] \in Content
    BY <2>1
  <2> QED BY <2>1, <2>2, Restored
<1>2. target' = [t \in Targets |-> target'[t]]
  BY DEF PairRestore
<1> QED BY <1>1, <1>2

\* No step of a pair approval leaves the declared types.
LEMMA PairType ==
  ASSUME TypeOK, Shape, NEW a \in Actors, ApprovePair(a), CrateType'
  PROVE  TypeOK'
<1> USE DEF TypeOK, CrateType
<1>1. ASSUME NEW i \in Ids, NEW k \in {"debt", "exemption"}, NEW r \in Reviewers, PairSelect(a, i, k, r) PROVE TypeOK'
  <2>1. <<Interaction(i), <<k, i>>>> \in Seq(Targets)
    BY DEF Interaction, Targets, Kinds
  <2>2. [NoJob EXCEPT !.tgts = <<Interaction(i), <<k, i>>>>, !.by = r] \in Jobs
    BY <2>1, NoJobType, JobUpdate
  <2>3. pc' \in [Actors -> Steps \cup {"idle"}]
    BY <1>1, GotoType DEF PairSelect, Steps, PairSteps
  <2>4. job' \in [Actors -> Jobs]
    BY <1>1, <2>2 DEF PairSelect
  <2> QED BY <1>1, <2>3, <2>4 DEF PairSelect, files, history
<1>2. CASE PairRead(a)
  <2>1. CASE End(a)
    BY <1>2, <2>1, EndType DEF PairRead, files, history
  <2>2. CASE /\ \A n \in 1..2 : draft[job[a].tgts[n]] \in Bodies
             /\ Goto(a, "pair_validate")
             /\ job' = [job EXCEPT ![a].read = <<draft[job[a].tgts[1]], draft[job[a].tgts[2]]>>]
    <3>1. <<draft[job[a].tgts[1]], draft[job[a].tgts[2]]>> \in Seq(Bodies)
      BY <2>2
    <3>2. job' \in [Actors -> Jobs]
      BY <2>2, <3>1, JobUpdate
    <3>3. pc' \in [Actors -> Steps \cup {"idle"}]
      BY <2>2, GotoType DEF Steps, PairSteps
    <3> QED BY <1>2, <3>2, <3>3 DEF PairRead, files, history
  <2> QED BY <1>2, <2>1, <2>2 DEF PairRead
<1>3. CASE PairValidate(a)
  <2>1. CASE End(a) /\ UNCHANGED passed
    BY <1>3, <2>1, EndType DEF PairValidate, files
  <2>2. CASE /\ Goto(a, "pair_mark")
             /\ passed' = passed \cup {<<job[a].tgts[n], DocRead(a, n)>> : n \in 1..2}
             /\ UNCHANGED job
    <3>1. \A n \in 1..2 : <<job[a].tgts[n], DocRead(a, n)>> \in Targets \X Doc
      BY <1>3, WrittenPair DEF PairValidate, PairSteps
    <3>2. passed' \in SUBSET (Targets \X Doc)
      BY <2>2, <3>1
    <3>3. pc' \in [Actors -> Steps \cup {"idle"}]
      BY <2>2, GotoType DEF Steps, PairSteps
    <3> QED BY <1>3, <2>2, <3>2, <3>3 DEF PairValidate, files
  <2> QED BY <1>3, <2>1, <2>2 DEF PairValidate
<1>4. CASE PairMark(a)
  <2>1. job' \in [Actors -> Jobs]
    <3>1. [job[a] EXCEPT !.mark = Len(log)] \in Jobs
      <4>1. job[a] \in Jobs /\ Len(log) \in Nat
        OBVIOUS
      <4> QED BY <4>1, JobUpdate
    <3> QED BY <1>4, <3>1 DEF PairMark
  <2>2. pc' \in [Actors -> Steps \cup {"idle"}]
    BY <1>4, GotoType DEF PairMark, Steps, PairSteps
  <2> QED BY <1>4, <2>1, <2>2 DEF PairMark, files, history
<1>5. CASE PairAppend(a)
  <2>1. EntryFor(a, 1) \in LogLine /\ EntryFor(a, 2) \in LogLine
    BY <1>5, WrittenPair DEF PairAppend, PairSteps
  <2>2. log' \in Seq(LogLine)
    BY <1>5, <2>1, LogType DEF PairAppend
  <2>3. pc' \in [Actors -> Steps \cup {"idle"}]
    BY <1>5, GotoType DEF PairAppend, Steps, PairSteps
  <2> QED BY <1>5, <2>2, <2>3 DEF PairAppend, history
<1>6. CASE PairAppendFails(a) \/ PairTruncate(a)
  <2>1. job[a].mark \in Nat
    BY DEF Jobs
  <2>2. log' \in Seq(LogLine)
    BY <1>6, <2>1, LogType DEF PairAppendFails, PairTruncate
  <2> QED BY <1>6, <2>2, EndType DEF PairAppendFails, PairTruncate, history
<1>7. CASE PairStage(a)
  <2>1. /\ job[a].tgts[1] \in Targets
        /\ job[a].tgts[2] \in Targets
    BY <1>7, WrittenPair DEF PairStage, PairSteps
  <2>2. <<target[job[a].tgts[1]], target[job[a].tgts[2]]>> \in Seq(Content)
    BY <2>1
  <2>3. job' \in [Actors -> Jobs]
    BY <1>7, <2>2, JobUpdate DEF PairStage
  <2>4. pc' \in [Actors -> Steps \cup {"idle"}]
    BY <1>7, GotoType DEF PairStage, Steps, PairSteps
  <2> QED BY <1>7, <2>3, <2>4 DEF PairStage, files, history
<1>8. ASSUME NEW n \in 1..2, PairReplace(a, n) PROVE TypeOK'
  <2>1. DocRead(a, n) \in Content
    BY <1>8, WrittenPair DEF PairReplace, PairSteps, Content
  <2>2. target' \in [Targets -> Content]
    BY <1>8, <2>1 DEF PairReplace
  <2>3. job' \in [Actors -> Jobs]
    <3>1. [job[a] EXCEPT !.done = n] \in Jobs
      <4>1. n \in 0..3
        OBVIOUS
      <4> QED BY <4>1, JobUpdate
    <3> QED BY <1>8, <3>1 DEF PairReplace
  <2>4. pc' \in [Actors -> Steps \cup {"idle"}]
    BY <1>8, GotoType DEF PairReplace, Steps, PairSteps
  <2> QED BY <1>8, <2>2, <2>3, <2>4 DEF PairReplace, history
<1>9. CASE PairUnlinkFirst(a)
  <2>1. pc' \in [Actors -> Steps \cup {"idle"}]
    BY <1>9, GotoType DEF PairUnlinkFirst, Steps, PairSteps
  <2>2. job' \in [Actors -> Jobs]
    <3>1. [job[a] EXCEPT !.done = 3] \in Jobs
      <4>1. job[a] \in Jobs /\ 3 \in 0..3
        OBVIOUS
      <4> QED BY <4>1, JobUpdate
    <3> QED BY <1>9, <3>1 DEF PairUnlinkFirst
  <2>3. draft' \in [Targets -> DraftContent]
    BY <1>9 DEF PairUnlinkFirst, DraftContent
  <2> QED BY <1>9, <2>1, <2>2, <2>3 DEF PairUnlinkFirst, history
<1>10. CASE PairUnlinkSecond(a)
  <2>1. pc' \in [Actors -> Steps \cup {"idle"}] /\ job' \in [Actors -> Jobs]
    BY <1>10, GotoType, EndType DEF PairUnlinkSecond, Steps, PairSteps
  <2>2. draft' \in [Targets -> DraftContent]
    BY <1>10 DEF PairUnlinkSecond, DraftContent
  <2>3. completed' \in [Targets -> Nat]
    <3> DEFINE more == [s \in Targets |->
          IF s \in {job[a].tgts[1], job[a].tgts[2]} THEN completed[s] + 1 ELSE completed[s]]
    <3>1. completed' \in {completed, more}
      BY <1>10 DEF PairUnlinkSecond
    <3>2. more \in [Targets -> Nat]
      OBVIOUS
    <3> QED BY <3>1, <3>2
  <2> QED BY <1>10, <2>1, <2>2, <2>3 DEF PairUnlinkSecond
<1>11. CASE PairFails(a)
  <2>1. pc' \in [Actors -> Steps \cup {"idle"}]
    BY <1>11, GotoType DEF PairFails, Steps, PairSteps
  <2> QED BY <1>11, <2>1 DEF PairFails, files, history
<1>12. CASE PairRefused(a)
  BY <1>12, EndType DEF PairRefused, files, history
<1>13. CASE PairRestore(a)
  <2>1. pc' \in [Actors -> Steps \cup {"idle"}]
    BY <1>13, GotoType DEF PairRestore, Steps, PairSteps
  <2>2. target' \in [Targets -> Content]
    BY <1>13, RestoredType DEF PairRestore
  <2>3. draft' \in [Targets -> DraftContent]
    BY <1>13, WrittenPair DEF PairRestore, PairSteps, DraftContent
  <2> QED BY <1>13, <2>1, <2>2, <2>3 DEF PairRestore, history
<1> QED BY <1>1, <1>2, <1>3, <1>4, <1>5, <1>6, <1>7, <1>8, <1>9, <1>10, <1>11, <1>12, <1>13 DEF ApprovePair

\* A step of one process leaves the facts about the others alone.
LEMMA OtherProcesses ==
  ASSUME Shape, Sourced, NEW a \in Actors, passed \subseteq passed',
         \A b \in Actors \ {a} : pc'[b] = pc[b] /\ job'[b] = job[b],
         ShapeOf(a)', SourcedOf(a)'
  PROVE  Shape' /\ Sourced'
<1>1. ASSUME NEW b \in Actors \ {a} PROVE ShapeOf(b)' /\ SourcedOf(b)'
  <2>1. ShapeOf(b) /\ SourcedOf(b) /\ pc'[b] = pc[b] /\ job'[b] = job[b]
    BY DEF Shape, Sourced
  <2>2. \A n \in 1..2 : DocRead(b, n)' = DocRead(b, n)
    BY <2>1 DEF DocRead
  <2>3. ShapeOf(b)'
    BY <2>1 DEF ShapeOf
  <2>4. SourcedOf(b)'
    BY <2>1, <2>2 DEF SourcedOf
  <2> QED BY <2>3, <2>4
<1> QED BY <1>1 DEF Shape, Sourced

\* A process that has ended reads and writes nothing.
LEMMA EndShape ==
  ASSUME TypeOK, Shape, Sourced, NEW a \in Actors, End(a), passed' = passed
  PROVE  Shape' /\ Sourced'
<1>1. pc'[a] = "idle" /\ job'[a] = NoJob
  BY DEF End, TypeOK
<1>2. \A b \in Actors \ {a} : pc'[b] = pc[b] /\ job'[b] = job[b]
  BY DEF End, TypeOK
<1>3. ShapeOf(a)'
  BY <1>1 DEF ShapeOf, SingleSteps, PairSteps, ValidatedSingle, NoJob
<1>4. SourcedOf(a)'
  BY <1>1 DEF SourcedOf, SingleSteps, PairSteps, ValidatedSingle, ValidatedPair
<1> QED BY <1>1, <1>2, <1>3, <1>4, OtherProcesses

\* A target that changes gets a document some validator let through.
LEMMA TargetsValidated ==
  ASSUME OnlyValidated, passed \subseteq passed',
         \A t \in Targets : target'[t] \in Doc =>
            target'[t] = target[t] \/ <<t, target'[t]>> \in passed
  PROVE  OnlyValidated'
  BY DEF OnlyValidated

\* The steps of a single approval preserve the invariant.
LEMMA ApproveSourced ==
  ASSUME IInv, NEW a \in Actors, Approve(a)
  PROVE  Shape' /\ OnlyValidated' /\ Sourced'
<1> USE DEF IInv
<1>0. /\ pc \in [Actors -> Steps \cup {"idle"}]
      /\ job \in [Actors -> Jobs]
      /\ target \in [Targets -> Content]
      /\ ShapeOf(a) /\ SourcedOf(a)
  BY DEF TypeOK, Shape, Sourced
<1>1. ASSUME NEW t \in Targets, NEW r \in Reviewers, ApproveSelect(a, t, r)
      PROVE  Shape' /\ OnlyValidated' /\ Sourced'
  <2>1. /\ pc'[a] = "selected"
        /\ job'[a] = [NoJob EXCEPT !.tgts = <<t>>, !.by = r, !.ctx = ContextOf(target, ground)]
        /\ \A b \in Actors \ {a} : pc'[b] = pc[b] /\ job'[b] = job[b]
        /\ passed' = passed /\ target' = target
    BY <1>0, <1>1 DEF ApproveSelect, Goto, files, history
  <2>2. job'[a].by = r /\ job'[a].tgts = <<t>> /\ job'[a].done = 0
    BY <2>1 DEF NoJob
  <2>3. ShapeOf(a)'
    BY <2>1, <2>2 DEF ShapeOf, SingleSteps, PairSteps, ValidatedSingle
  <2>4. SourcedOf(a)'
    BY <2>1 DEF SourcedOf, PairSteps, ValidatedSingle, ValidatedPair
  <2> QED BY <2>1, <2>3, <2>4, OtherProcesses DEF OnlyValidated
<1>2. CASE ApproveRead(a)
  <2>1. CASE End(a) /\ UNCHANGED passed
    BY <1>2, <2>1, EndShape DEF ApproveRead, files, OnlyValidated
  <2>2. CASE /\ Goto(a, "write")
             /\ job' = [job EXCEPT ![a].read = <<draft[job[a].tgts[1]]>>]
             /\ passed' = passed \cup
                  {<<job[a].tgts[1], [body |-> draft[job[a].tgts[1]], reviewer |-> job[a].by]>>}
    <3>1. /\ pc[a] = "selected" /\ pc'[a] = "write"
          /\ job'[a] = [job[a] EXCEPT !.read = <<draft[job[a].tgts[1]]>>]
          /\ \A b \in Actors \ {a} : pc'[b] = pc[b] /\ job'[b] = job[b]
          /\ target' = target
      BY <1>0, <1>2, <2>2 DEF ApproveRead, Goto, files
    <3>2. /\ job'[a].by = job[a].by /\ job'[a].tgts = job[a].tgts
          /\ job'[a].orig = job[a].orig /\ job'[a].done = job[a].done
          /\ job'[a].read = <<draft[job[a].tgts[1]]>>
      BY <1>0, <3>1 DEF Jobs
    <3>3. ShapeOf(a)'
      BY <1>0, <3>1, <3>2 DEF ShapeOf, SingleSteps, PairSteps, ValidatedSingle
    <3>4. DocRead(a, 1)' = [body |-> draft[job[a].tgts[1]], reviewer |-> job[a].by]
      BY <3>2 DEF DocRead
    <3>5. SourcedOf(a)'
      BY <2>2, <3>1, <3>2, <3>4 DEF SourcedOf, PairSteps, ValidatedSingle, ValidatedPair
    <3> QED BY <2>2, <3>1, <3>3, <3>5, OtherProcesses DEF OnlyValidated
  <2> QED BY <1>2, <2>1, <2>2 DEF ApproveRead
<1>3. CASE ApproveTruncate(a) \/ ApproveWrite(a)
  <2>1. /\ pc[a] \in {"write", "torn"} /\ pc'[a] \in {"torn", "unlink"}
        /\ \A b \in Actors \ {a} : pc'[b] = pc[b]
        /\ job' = job /\ passed' = passed
    BY <1>0, <1>3 DEF ApproveTruncate, ApproveWrite, Goto, history
  <2>2. DocRead(a, 1)' = DocRead(a, 1)
    BY <2>1 DEF DocRead
  <2>3. ShapeOf(a)'
    BY <1>0, <2>1 DEF ShapeOf, SingleSteps, PairSteps, ValidatedSingle
  <2>4. SourcedOf(a)'
    BY <1>0, <2>1, <2>2 DEF SourcedOf, PairSteps, ValidatedSingle, ValidatedPair
  <2>5. <<job[a].tgts[1], DocRead(a, 1)>> \in passed
    BY <1>0, <2>1 DEF SourcedOf, ValidatedSingle
  <2>6. \A t \in Targets : target'[t] \in Doc =>
            target'[t] = target[t] \/ <<t, target'[t]>> \in passed
    BY <1>0, <1>3, <2>5, ContentAssumption DEF ApproveTruncate, ApproveWrite
  <2> QED BY <2>1, <2>3, <2>4, <2>6, OtherProcesses, TargetsValidated
<1>4. CASE ApproveUnlink(a)
  <2>1. CASE End(a) /\ UNCHANGED draft
    BY <1>4, <2>1, EndShape DEF ApproveUnlink, history, OnlyValidated
  <2>2. CASE Goto(a, "log") /\ UNCHANGED job
    <3>1. /\ pc[a] = "unlink" /\ pc'[a] = "log"
          /\ \A b \in Actors \ {a} : pc'[b] = pc[b]
          /\ job' = job /\ passed' = passed /\ target' = target
      BY <1>0, <1>4, <2>2 DEF ApproveUnlink, Goto, history
    <3>2. DocRead(a, 1)' = DocRead(a, 1)
      BY <3>1 DEF DocRead
    <3>3. ShapeOf(a)'
      BY <1>0, <3>1 DEF ShapeOf, SingleSteps, PairSteps, ValidatedSingle
    <3>4. SourcedOf(a)'
      BY <1>0, <3>1, <3>2 DEF SourcedOf, PairSteps, ValidatedSingle, ValidatedPair
    <3> QED BY <3>1, <3>3, <3>4, OtherProcesses DEF OnlyValidated
  <2> QED BY <1>4, <2>1, <2>2 DEF ApproveUnlink
<1>5. CASE ApproveLog(a) \/ ApproveFails(a)
  BY <1>5, EndShape DEF ApproveLog, ApproveFails, files, history, OnlyValidated
<1> QED BY <1>1, <1>2, <1>3, <1>4, <1>5 DEF Approve

\* The steps of a pair approval preserve the invariant.
LEMMA PairSourced ==
  ASSUME IInv, NEW a \in Actors, ApprovePair(a)
  PROVE  Shape' /\ OnlyValidated' /\ Sourced'
<1> USE DEF IInv
<1>0. /\ pc \in [Actors -> Steps \cup {"idle"}]
      /\ job \in [Actors -> Jobs]
      /\ target \in [Targets -> Content]
      /\ ShapeOf(a) /\ SourcedOf(a)
  BY DEF TypeOK, Shape, Sourced
<1>1. ASSUME NEW i \in Ids, NEW k \in {"debt", "exemption"}, NEW r \in Reviewers, PairSelect(a, i, k, r)
      PROVE  Shape' /\ OnlyValidated' /\ Sourced'
  <2>1. /\ pc'[a] = "pair_read"
        /\ job'[a] = [NoJob EXCEPT !.tgts = <<Interaction(i), <<k, i>>>>, !.by = r]
        /\ \A b \in Actors \ {a} : pc'[b] = pc[b] /\ job'[b] = job[b]
        /\ passed' = passed /\ target' = target
    BY <1>0, <1>1 DEF PairSelect, Goto, files, history
  <2>2. /\ job'[a].by = r /\ job'[a].tgts = <<Interaction(i), <<k, i>>>>
        /\ job'[a].done = 0 /\ job'[a].orig = <<>>
    BY <2>1 DEF NoJob
  <2>3. ShapeOf(a)'
    BY <2>1, <2>2 DEF ShapeOf, SingleSteps, PairSteps, ValidatedSingle, Interaction
  <2>4. SourcedOf(a)'
    BY <2>1, <2>2 DEF SourcedOf, PairSteps, ValidatedSingle, ValidatedPair
  <2> QED BY <2>1, <2>3, <2>4, OtherProcesses DEF OnlyValidated
<1>2. CASE PairRead(a)
  <2>1. CASE End(a)
    BY <1>2, <2>1, EndShape DEF PairRead, files, history, OnlyValidated
  <2>2. CASE /\ Goto(a, "pair_validate")
             /\ job' = [job EXCEPT ![a].read = <<draft[job[a].tgts[1]], draft[job[a].tgts[2]]>>]
    <3>1. /\ pc[a] = "pair_read" /\ pc'[a] = "pair_validate"
          /\ job'[a] = [job[a] EXCEPT !.read = <<draft[job[a].tgts[1]], draft[job[a].tgts[2]]>>]
          /\ \A b \in Actors \ {a} : pc'[b] = pc[b] /\ job'[b] = job[b]
          /\ target' = target /\ passed' = passed
      BY <1>0, <1>2, <2>2 DEF PairRead, Goto, files, history
    <3>2. /\ job'[a].by = job[a].by /\ job'[a].tgts = job[a].tgts
          /\ job'[a].orig = job[a].orig /\ job'[a].done = job[a].done
          /\ Len(job'[a].read) = 2
      BY <1>0, <3>1 DEF Jobs
    <3>3. ShapeOf(a)'
      BY <1>0, <3>1, <3>2 DEF ShapeOf, SingleSteps, PairSteps, ValidatedSingle
    <3>4. SourcedOf(a)'
      BY <1>0, <3>1, <3>2 DEF SourcedOf, PairSteps, ValidatedSingle, ValidatedPair
    <3> QED BY <3>1, <3>3, <3>4, OtherProcesses DEF OnlyValidated
  <2> QED BY <1>2, <2>1, <2>2 DEF PairRead
<1>3. CASE PairValidate(a)
  <2>1. CASE End(a) /\ UNCHANGED passed
    BY <1>3, <2>1, EndShape DEF PairValidate, files, OnlyValidated
  <2>2. CASE /\ Goto(a, "pair_mark")
             /\ passed' = passed \cup {<<job[a].tgts[n], DocRead(a, n)>> : n \in 1..2}
             /\ UNCHANGED job
    <3>1. /\ pc[a] = "pair_validate" /\ pc'[a] = "pair_mark"
          /\ \A b \in Actors \ {a} : pc'[b] = pc[b]
          /\ job' = job /\ target' = target
      BY <1>0, <1>3, <2>2 DEF PairValidate, Goto, files
    <3>2. \A n \in 1..2 : DocRead(a, n)' = DocRead(a, n)
      BY <3>1 DEF DocRead
    <3>3. ShapeOf(a)'
      BY <1>0, <3>1 DEF ShapeOf, SingleSteps, PairSteps, ValidatedSingle
    <3>4. SourcedOf(a)'
      BY <1>0, <2>2, <3>1, <3>2 DEF SourcedOf, PairSteps, ValidatedSingle, ValidatedPair
    <3> QED BY <2>2, <3>1, <3>3, <3>4, OtherProcesses DEF OnlyValidated
  <2> QED BY <1>3, <2>1, <2>2 DEF PairValidate
<1>4. CASE PairMark(a)
  <2>1. /\ pc[a] = "pair_mark" /\ pc'[a] = "pair_append"
        /\ job'[a] = [job[a] EXCEPT !.mark = Len(log)]
        /\ \A b \in Actors \ {a} : pc'[b] = pc[b] /\ job'[b] = job[b]
        /\ target' = target /\ passed' = passed
    BY <1>0, <1>4 DEF PairMark, Goto, files, history
  <2>2. /\ job'[a].by = job[a].by /\ job'[a].tgts = job[a].tgts
        /\ job'[a].orig = job[a].orig /\ job'[a].done = job[a].done
        /\ job'[a].read = job[a].read
    BY <1>0, <2>1 DEF Jobs
  <2>3. ShapeOf(a)'
    BY <1>0, <2>1, <2>2 DEF ShapeOf, SingleSteps, PairSteps, ValidatedSingle
  <2>4. \A n \in 1..2 : DocRead(a, n)' = DocRead(a, n)
    BY <2>2 DEF DocRead
  <2>5. SourcedOf(a)'
    BY <1>0, <2>1, <2>2, <2>4 DEF SourcedOf, PairSteps, ValidatedSingle, ValidatedPair
  <2> QED BY <2>1, <2>3, <2>5, OtherProcesses DEF OnlyValidated
<1>5. CASE PairAppend(a)
  <2>1. /\ pc[a] = "pair_append" /\ pc'[a] = "pair_stage"
        /\ \A b \in Actors \ {a} : pc'[b] = pc[b]
        /\ job' = job /\ target' = target /\ passed' = passed
    BY <1>0, <1>5 DEF PairAppend, Goto, history
  <2>2. \A n \in 1..2 : DocRead(a, n)' = DocRead(a, n)
    BY <2>1 DEF DocRead
  <2>3. ShapeOf(a)'
    BY <1>0, <2>1 DEF ShapeOf, SingleSteps, PairSteps, ValidatedSingle
  <2>4. SourcedOf(a)'
    BY <1>0, <2>1, <2>2 DEF SourcedOf, PairSteps, ValidatedSingle, ValidatedPair
  <2> QED BY <2>1, <2>3, <2>4, OtherProcesses DEF OnlyValidated
<1>6. CASE PairAppendFails(a) \/ PairTruncate(a) \/ PairRefused(a)
  BY <1>6, EndShape DEF PairAppendFails, PairTruncate, PairRefused, files, history, OnlyValidated
<1>7. CASE PairStage(a)
  <2>1. /\ pc[a] = "pair_stage" /\ pc'[a] = "replace_1"
        /\ job'[a] = [job[a] EXCEPT !.orig = <<target[job[a].tgts[1]], target[job[a].tgts[2]]>>]
        /\ \A b \in Actors \ {a} : pc'[b] = pc[b] /\ job'[b] = job[b]
        /\ target' = target /\ passed' = passed
    BY <1>0, <1>7 DEF PairStage, Goto, files, history
  <2>2. /\ job'[a].by = job[a].by /\ job'[a].tgts = job[a].tgts
        /\ job'[a].orig = <<target[job[a].tgts[1]], target[job[a].tgts[2]]>>
        /\ job'[a].done = job[a].done /\ job'[a].read = job[a].read
    BY <1>0, <2>1 DEF Jobs
  <2>3. ShapeOf(a)'
    BY <1>0, <2>1, <2>2 DEF ShapeOf, SingleSteps, PairSteps, ValidatedSingle
  <2>4. \A n \in 1..2 : DocRead(a, n)' = DocRead(a, n)
    BY <2>2 DEF DocRead
  <2>5. job[a].tgts[1] \in Targets /\ job[a].tgts[2] \in Targets
    BY <2>1, WrittenPair DEF PairSteps
  <2>6. \A n \in 1..2 : job'[a].orig[n] \in Doc => <<job'[a].tgts[n], job'[a].orig[n]>> \in passed
    BY <2>2, <2>5 DEF OnlyValidated
  <2>7. SourcedOf(a)'
    BY <1>0, <2>1, <2>2, <2>4, <2>6 DEF SourcedOf, PairSteps, ValidatedSingle, ValidatedPair
  <2> QED BY <2>1, <2>3, <2>7, OtherProcesses DEF OnlyValidated
<1>8. ASSUME NEW n \in 1..2, PairReplace(a, n)
      PROVE  Shape' /\ OnlyValidated' /\ Sourced'
  <2>1. /\ pc[a] \in {"replace_1", "replace_2"} /\ pc'[a] \in {"replace_2", "unlink_1"}
        /\ job'[a] = [job[a] EXCEPT !.done = n]
        /\ \A b \in Actors \ {a} : pc'[b] = pc[b] /\ job'[b] = job[b]
        /\ target' = [target EXCEPT ![job[a].tgts[n]] = DocRead(a, n)]
        /\ passed' = passed
    BY <1>0, <1>8 DEF PairReplace, Goto, history
  <2>2. /\ job'[a].by = job[a].by /\ job'[a].tgts = job[a].tgts
        /\ job'[a].orig = job[a].orig /\ job'[a].read = job[a].read
        /\ job'[a].done = n
    BY <1>0, <2>1 DEF Jobs
  <2>3. ShapeOf(a)'
    BY <1>0, <2>1, <2>2 DEF ShapeOf, SingleSteps, PairSteps, ValidatedSingle
  <2>4. \A m \in 1..2 : DocRead(a, m)' = DocRead(a, m)
    BY <2>2 DEF DocRead
  <2>5. SourcedOf(a)'
    BY <1>0, <2>1, <2>2, <2>4 DEF SourcedOf, PairSteps, ValidatedSingle, ValidatedPair
  <2>6. <<job[a].tgts[n], DocRead(a, n)>> \in passed
    BY <1>0, <2>1 DEF SourcedOf, PairSteps, ValidatedPair
  <2>7. \A t \in Targets : target'[t] \in Doc =>
            target'[t] = target[t] \/ <<t, target'[t]>> \in passed
    BY <1>0, <2>1, <2>6
  <2> QED BY <2>1, <2>3, <2>5, <2>7, OtherProcesses, TargetsValidated
<1>9. CASE PairUnlinkFirst(a)
  <2>1. /\ pc[a] = "unlink_1" /\ pc'[a] \in {"unlink_2", "restore"}
        /\ job'[a] \in {job[a], [job[a] EXCEPT !.done = 3]}
        /\ pc'[a] = "unlink_2" => job'[a] = [job[a] EXCEPT !.done = 3]
        /\ pc'[a] = "restore" => job'[a] = job[a]
        /\ \A b \in Actors \ {a} : pc'[b] = pc[b] /\ job'[b] = job[b]
        /\ target' = target /\ passed' = passed
    BY <1>0, <1>9 DEF PairUnlinkFirst, Goto, history
  <2>2. /\ job'[a].by = job[a].by /\ job'[a].tgts = job[a].tgts
        /\ job'[a].orig = job[a].orig /\ job'[a].read = job[a].read
        /\ pc'[a] = "unlink_2" => job'[a].done = 3
    BY <1>0, <2>1 DEF Jobs
  <2>3. ShapeOf(a)'
    BY <1>0, <2>1, <2>2 DEF ShapeOf, SingleSteps, PairSteps, ValidatedSingle
  <2>4. \A m \in 1..2 : DocRead(a, m)' = DocRead(a, m)
    BY <2>2 DEF DocRead
  <2>5. SourcedOf(a)'
    BY <1>0, <2>1, <2>2, <2>4 DEF SourcedOf, PairSteps, ValidatedSingle, ValidatedPair
  <2> QED BY <2>1, <2>3, <2>5, OtherProcesses DEF OnlyValidated
<1>10. CASE End(a) /\ passed' = passed /\ target' = target
  BY <1>10, EndShape DEF OnlyValidated
<1>11. CASE /\ pc[a] \in {"pair_stage", "replace_1", "replace_2", "unlink_1", "unlink_2"}
            /\ Goto(a, "restore") /\ job' = job /\ target' = target /\ passed' = passed
  <2>1. /\ pc'[a] = "restore"
        /\ \A b \in Actors \ {a} : pc'[b] = pc[b]
    BY <1>0, <1>11 DEF Goto
  <2>2. \A m \in 1..2 : DocRead(a, m)' = DocRead(a, m)
    BY <1>11 DEF DocRead
  <2>3. ShapeOf(a)'
    BY <1>0, <1>11, <2>1 DEF ShapeOf, SingleSteps, PairSteps, ValidatedSingle
  <2>4. SourcedOf(a)'
    BY <1>0, <1>11, <2>1, <2>2 DEF SourcedOf, PairSteps, ValidatedSingle, ValidatedPair
  <2> QED BY <1>11, <2>1, <2>3, <2>4, OtherProcesses DEF OnlyValidated
<1>12. CASE PairUnlinkSecond(a)
  BY <1>10, <1>11, <1>12 DEF PairUnlinkSecond
<1>13. CASE PairFails(a)
  BY <1>11, <1>13 DEF PairFails, files, history
<1>14. CASE PairRestore(a)
  <2>1. /\ pc[a] = "restore" /\ pc'[a] = "truncate"
        /\ \A b \in Actors \ {a} : pc'[b] = pc[b]
        /\ job' = job /\ passed' = passed
    BY <1>0, <1>14 DEF PairRestore, Goto, history
  <2>2. \A m \in 1..2 : DocRead(a, m)' = DocRead(a, m)
    BY <2>1 DEF DocRead
  <2>3. ShapeOf(a)'
    BY <1>0, <2>1 DEF ShapeOf, SingleSteps, PairSteps, ValidatedSingle
  <2>4. SourcedOf(a)'
    BY <1>0, <2>1, <2>2 DEF SourcedOf, PairSteps, ValidatedSingle, ValidatedPair
  <2>5. ASSUME NEW t \in Targets, target'[t] \in Doc
        PROVE  target'[t] = target[t] \/ <<t, target'[t]>> \in passed
    <3>1. ASSUME NEW n \in 1..2, Len(job[a].orig) = 2, t = job[a].tgts[n],
                 target'[t] = job[a].orig[n]
          PROVE  <<t, target'[t]>> \in passed
      BY <1>0, <2>1, <2>5, <3>1 DEF SourcedOf, PairSteps
    <3> QED BY <1>14, <3>1, Restored
  <2> QED BY <2>1, <2>3, <2>4, <2>5, OtherProcesses, TargetsValidated
<1> QED BY <1>1, <1>2, <1>3, <1>4, <1>5, <1>6, <1>7, <1>8, <1>9, <1>12, <1>13, <1>14 DEF ApprovePair

\* The empty workspace satisfies the invariant.
LEMMA InitIInv == Init => IInv
<1> SUFFICES ASSUME Init PROVE IInv
  OBVIOUS
<1>1. TypeOK
  BY TypeInit
<1>2. Shape /\ Sourced
  BY DEF Init, Shape, Sourced, ShapeOf, SourcedOf, SingleSteps, PairSteps,
         ValidatedSingle, ValidatedPair, NoJob
<1>3. OnlyValidated
  BY ContentAssumption DEF Init, OnlyValidated
<1> QED BY <1>1, <1>2, <1>3 DEF IInv

\* A command that writes a draft, by template or by hand.
LEMMA StageStep ==
  ASSUME IInv, NEW t \in Targets, StageDraft(t) \/ CopyDraft(t), CrateType'
  PROVE  IInv'
<1>1. TypeOK'
  <2>1. CASE StageDraft(t)
    BY <2>1, BodiesAssumption, CheckpointAssumption
       DEF IInv, TypeOK, CrateType, StageDraft, DraftBodies, DraftContent
  <2>2. CASE CopyDraft(t)
    BY <2>2, CheckpointAssumption DEF IInv, TypeOK, CrateType, CopyDraft, DraftBodies, DraftContent
  <2> QED BY <2>1, <2>2
<1>2. UNCHANGED <<target, pc, job, passed>>
  BY DEF StageDraft, CopyDraft
<1>3. \A a \in Actors, n \in 1..2 : DocRead(a, n)' = DocRead(a, n)
  BY <1>2 DEF DocRead
<1>4. Shape' /\ OnlyValidated'
  BY <1>2 DEF IInv, Shape, ShapeOf, OnlyValidated
<1>5. Sourced'
  BY <1>2, <1>3 DEF IInv, Sourced, SourcedOf
<1> QED BY <1>1, <1>4, <1>5 DEF IInv

\* A command leaves the crate alone; what changes it is of its type.
LEMMA CrateStep ==
  ASSUME TypeOK, [Next]_vars
  PROVE  CrateType'
<1>1. CASE UNCHANGED crate
  BY <1>1 DEF TypeOK, CrateType, crate
<1>2. CASE UNCHANGED vars
  BY <1>1, <1>2 DEF vars
<1>3. ASSUME NEW g \in Grounds, Reground(g) PROVE CrateType'
  <2>1. g \in Ground /\ ground \in Ground
    BY CheckpointAssumption DEF TypeOK
  <2>2. ground.edges \in SUBSET Edges
    BY <2>1 DEF Ground
  <2> QED BY <1>3, <2>1, <2>2 DEF Reground, TypeOK, CrateType
<1> QED BY <1>1, <1>2, <1>3 DEF Next, Commands

\* A change of the crate, or a stutter, touches nothing a command works on.
LEMMA CrateApart ==
  ASSUME UNCHANGED vars \/ \E g \in Grounds : Reground(g)
  PROVE  UNCHANGED <<target, draft, log, pc, job, passed, staged, unlogged, completed>>
  BY DEF vars, Reground, files, history

\* A step is a command's or touches nothing a command works on.
LEMMA StepIs ==
  ASSUME [Next]_vars
  PROVE  \/ \/ UNCHANGED vars
            \/ \E g \in Grounds : Reground(g)
            \/ \E t \in Targets : StageDraft(t) \/ CopyDraft(t)
         \/ \E a \in Actors : Approve(a) \/ ApprovePair(a) \/ Crash(a)
  BY DEF Next, Commands

\* Every step of every process preserves the invariant.
LEMMA StepIInv == IInv /\ [Next]_vars => IInv'
<1> SUFFICES ASSUME IInv, [Next]_vars PROVE IInv'
  OBVIOUS
<1>0. CrateType'
  BY CrateStep DEF IInv
<1>1. ASSUME NEW a \in Actors, Approve(a) PROVE IInv'
  BY <1>0, <1>1, ApproveType, ApproveSourced DEF IInv
<1>2. ASSUME NEW a \in Actors, ApprovePair(a) PROVE IInv'
  BY <1>0, <1>2, PairType, PairSourced DEF IInv
<1>3. ASSUME NEW a \in Actors, Crash(a) PROVE IInv'
  <2>0. TypeOK /\ log' \in Seq(LogLine)
    BY <1>3, LogType DEF IInv, Crash
  <2>1. TypeOK'
    BY <1>0, <1>3, <2>0, EndType DEF TypeOK, CrateType, Crash, history
  <2>2. Shape' /\ Sourced'
    BY <1>3, EndShape DEF IInv, Crash, history
  <2>3. OnlyValidated'
    BY <1>3 DEF IInv, Crash, files, history, OnlyValidated
  <2> QED BY <2>1, <2>2, <2>3 DEF IInv
<1>4. CASE UNCHANGED vars \/ \E g \in Grounds : Reground(g)
  <2>0. UNCHANGED <<target, draft, log, pc, job, passed, staged, unlogged, completed>>
    BY <1>4, CrateApart
  <2>1. \A a \in Actors, n \in 1..2 : DocRead(a, n)' = DocRead(a, n)
    BY <2>0 DEF DocRead
  <2>2. TypeOK' /\ Shape' /\ OnlyValidated'
    BY <1>0, <2>0 DEF IInv, TypeOK, CrateType, Shape, ShapeOf, OnlyValidated
  <2>3. Sourced'
    BY <2>0, <2>1 DEF IInv, Sourced, SourcedOf
  <2> QED BY <2>2, <2>3 DEF IInv
<1> QED BY <1>0, <1>1, <1>2, <1>3, <1>4, StageStep DEF Next, Commands

\* Every state of the checkpoint has the declared types: review_checkpoint's
\* steps never read a local variable that an earlier step did not set.
THEOREM TypeCorrect == Spec => []TypeOK
<1>1. IInv => TypeOK
  BY DEF IInv
<1> QED BY <1>1, InitIInv, StepIInv, PTL DEF Spec

\* No interleaving, failure or crash of approve and the two pair approvals
\* puts a document at a target that no validator let through for that target
\* and under the reviewer the document names.
THEOREM ValidatedOnly == Spec => []OnlyValidated
<1>1. IInv => OnlyValidated
  BY DEF IInv
<1> QED BY <1>1, InitIInv, StepIInv, PTL DEF Spec

-----------------------------------------------------------------------------
(* Each staging of a draft is promoted at most once.  A staging is in one  *)
(* place at a time: in the draft file, in the hands of a command that has  *)
(* unlinked it and not yet returned, or among the completed promotions.    *)

Holds(a, t) ==
  /\ t = job[a].tgts[1]
  /\ \/ pc[a] = "log"
     \/ pc[a] \in {"unlink_2", "restore"} /\ job[a].done = 3

Holders(t) == {a \in Actors : Holds(a, t)}

InFile(t) == IF draft[t] # None THEN 1 ELSE 0

Accounted(t) == InFile(t) + Cardinality(Holders(t)) + completed[t] <= staged[t]

Tokens == \A t \in Targets : Accounted(t)

\* Only finitely many processes hold a draft.
LEMMA HoldersFinite ==
  ASSUME NEW t
  PROVE  IsFiniteSet(Holders(t)) /\ Cardinality(Holders(t)) \in Nat
<1>1. Holders(t) \in SUBSET Actors
  BY DEF Holders
<1>2. IsFiniteSet(Holders(t))
  BY <1>1, FS_Subset, CheckpointAssumption
<1> QED BY <1>2, FS_CardinalityType

\* Nobody new holds t and its file, completions and stagings do not move.
LEMMA AccountedFewer ==
  ASSUME TypeOK, TypeOK', NEW t \in Targets, Accounted(t),
         Holders(t)' \subseteq Holders(t), InFile(t)' <= InFile(t),
         completed'[t] = completed[t], staged'[t] = staged[t]
  PROVE  Accounted(t)'
<1>1. /\ Cardinality(Holders(t)') <= Cardinality(Holders(t))
      /\ Cardinality(Holders(t)') \in Nat
  BY FS_Subset, FS_CardinalityType, HoldersFinite
<1>2. InFile(t) \in Nat /\ InFile(t)' \in Nat
  BY DEF InFile
<1>3. completed[t] \in Nat /\ staged[t] \in Nat /\ Cardinality(Holders(t)) \in Nat
  BY HoldersFinite DEF TypeOK
<1>4. Cardinality(Holders(t))' = Cardinality(Holders(t)')
  OBVIOUS
<1> QED BY <1>1, <1>2, <1>3, <1>4 DEF Accounted

\* A command takes t out of its file.
LEMMA AccountedTaken ==
  ASSUME TypeOK, NEW t \in Targets, Accounted(t), NEW a \in Actors,
         Holders(t)' \subseteq Holders(t) \cup {a}, draft[t] # None, draft'[t] = None,
         completed'[t] = completed[t], staged'[t] = staged[t]
  PROVE  Accounted(t)'
<1>1. /\ IsFiniteSet(Holders(t) \cup {a})
      /\ Cardinality(Holders(t) \cup {a}) <= Cardinality(Holders(t)) + 1
      /\ Cardinality(Holders(t) \cup {a}) \in Nat
  <2>1. /\ IsFiniteSet(Holders(t) \cup {a})
        /\ Cardinality(Holders(t) \cup {a}) =
             IF a \in Holders(t) THEN Cardinality(Holders(t)) ELSE Cardinality(Holders(t)) + 1
    BY FS_AddElement, HoldersFinite
  <2>2. Cardinality(Holders(t)) \in Nat
    BY HoldersFinite
  <2> QED BY <2>1, <2>2
<1>2. /\ Cardinality(Holders(t)') <= Cardinality(Holders(t) \cup {a})
      /\ Cardinality(Holders(t)') \in Nat
  BY <1>1, FS_Subset, FS_CardinalityType
<1>3. InFile(t) = 1 /\ InFile(t)' = 0
  BY DEF InFile
<1>4. completed[t] \in Nat /\ staged[t] \in Nat /\ Cardinality(Holders(t)) \in Nat
  BY HoldersFinite DEF TypeOK
<1> QED BY <1>1, <1>2, <1>3, <1>4 DEF Accounted

\* A holder gives t up, to its file or to the completed promotions.
LEMMA AccountedReleased ==
  ASSUME TypeOK, TypeOK', NEW t \in Targets, Accounted(t), NEW a \in Actors, a \in Holders(t),
         Holders(t)' \subseteq Holders(t) \ {a}, staged'[t] = staged[t],
         InFile(t)' + completed'[t] <= InFile(t) + completed[t] + 1
  PROVE  Accounted(t)'
<1>1. /\ IsFiniteSet(Holders(t) \ {a})
      /\ Cardinality(Holders(t) \ {a}) = Cardinality(Holders(t)) - 1
      /\ Cardinality(Holders(t) \ {a}) \in Nat
  BY FS_RemoveElement, FS_CardinalityType, HoldersFinite
<1>2. /\ Cardinality(Holders(t)') <= Cardinality(Holders(t) \ {a})
      /\ Cardinality(Holders(t)') \in Nat
  BY <1>1, FS_Subset, FS_CardinalityType
<1>3. InFile(t) \in Nat /\ InFile(t)' \in Nat
  BY DEF InFile
<1>4. /\ completed[t] \in Nat /\ staged[t] \in Nat /\ Cardinality(Holders(t)) \in Nat
      /\ completed'[t] \in Nat
  BY HoldersFinite DEF TypeOK
<1> QED BY <1>1, <1>2, <1>3, <1>4 DEF Accounted

\* Who holds t changes only with the process that takes the step.
LEMMA HoldersFrame ==
  ASSUME TypeOK, NEW a \in Actors, NEW t \in Targets,
         \A b \in Actors \ {a} : pc'[b] = pc[b] /\ job'[b] = job[b]
  PROVE  /\ Holders(t)' \subseteq Holders(t) \cup {a}
         /\ ~Holds(a, t)' => Holders(t)' \subseteq Holders(t) \ {a}
         /\ (Holds(a, t)' => Holds(a, t)) => Holders(t)' \subseteq Holders(t)
<1>1. \A b \in Actors \ {a} : Holds(b, t)' <=> Holds(b, t)
  BY DEF Holds
<1> QED BY <1>1 DEF Holders

\* A command that ends changes its own step and variables only.
LEMMA EndFrame ==
  ASSUME TypeOK, NEW a \in Actors, End(a)
  PROVE  /\ \A b \in Actors \ {a} : pc'[b] = pc[b] /\ job'[b] = job[b]
         /\ \A t \in Targets : ~Holds(a, t)'
<1>1. pc'[a] = "idle" /\ \A b \in Actors \ {a} : pc'[b] = pc[b] /\ job'[b] = job[b]
  BY DEF End, TypeOK
<1> QED BY <1>1 DEF Holds

\* A command that moves on changes its own step only.
LEMMA GotoFrame ==
  ASSUME TypeOK, NEW a \in Actors, NEW s, Goto(a, s)
  PROVE  pc'[a] = s /\ \A b \in Actors \ {a} : pc'[b] = pc[b]
  BY DEF Goto, TypeOK

\* A step that gives nobody a draft and moves no counter.
LEMMA QuietStep ==
  ASSUME TypeOK, TypeOK', Tokens, NEW a \in Actors,
         \A b \in Actors \ {a} : pc'[b] = pc[b] /\ job'[b] = job[b],
         \A t \in Targets : Holds(a, t)' => Holds(a, t),
         draft' = draft, completed' = completed, staged' = staged
  PROVE  Tokens'
<1>1. ASSUME NEW t \in Targets PROVE Accounted(t)'
  <2>1. Holders(t)' \subseteq Holders(t)
    BY HoldersFrame
  <2>2. InFile(t)' <= InFile(t)
    BY DEF InFile
  <2> QED BY <2>1, <2>2, AccountedFewer DEF Tokens
<1> QED BY <1>1 DEF Tokens

\* No step of a single approval makes a staged draft count twice.
LEMMA ApproveTokens ==
  ASSUME IInv, TypeOK', Tokens, NEW a \in Actors, Approve(a)
  PROVE  Tokens'
<1>0. TypeOK /\ ShapeOf(a)
  BY DEF IInv, Shape
<1>1. ASSUME NEW t \in Targets, NEW r \in Reviewers, ApproveSelect(a, t, r) PROVE Tokens'
  <2>1. pc'[a] = "selected" /\ \A b \in Actors \ {a} : pc'[b] = pc[b] /\ job'[b] = job[b]
    BY <1>0, <1>1 DEF ApproveSelect, Goto, TypeOK
  <2>2. \A s \in Targets : ~Holds(a, s)'
    BY <2>1 DEF Holds
  <2> QED BY <1>0, <1>1, <2>1, <2>2, QuietStep DEF ApproveSelect, files, history
<1>2. CASE ApproveRead(a)
  <2>1. CASE End(a)
    BY <1>0, <1>2, <2>1, EndFrame, QuietStep DEF ApproveRead, files
  <2>2. CASE Goto(a, "write") /\ job' = [job EXCEPT ![a].read = <<draft[job[a].tgts[1]]>>]
    <3>1. pc'[a] = "write" /\ \A b \in Actors \ {a} : pc'[b] = pc[b] /\ job'[b] = job[b]
      BY <1>0, <2>2 DEF Goto, TypeOK
    <3>2. \A s \in Targets : ~Holds(a, s)'
      BY <3>1 DEF Holds
    <3> QED BY <1>0, <1>2, <3>1, <3>2, QuietStep DEF ApproveRead, files
  <2> QED BY <1>2, <2>1, <2>2 DEF ApproveRead
<1>3. CASE ApproveTruncate(a) \/ ApproveWrite(a)
  <2>1. /\ pc'[a] \in {"torn", "unlink"} /\ job' = job
        /\ \A b \in Actors \ {a} : pc'[b] = pc[b]
    BY <1>0, <1>3, GotoFrame DEF ApproveTruncate, ApproveWrite
  <2>2. \A s \in Targets : ~Holds(a, s)'
    BY <2>1 DEF Holds
  <2> QED BY <1>0, <1>3, <2>1, <2>2, QuietStep DEF ApproveTruncate, ApproveWrite, history
<1>4. CASE ApproveUnlink(a)
  <2>1. CASE End(a) /\ UNCHANGED draft
    BY <1>0, <1>4, <2>1, EndFrame, QuietStep DEF ApproveUnlink, history
  <2>2. CASE /\ draft[job[a].tgts[1]] # None
             /\ draft' = [draft EXCEPT ![job[a].tgts[1]] = None]
             /\ Goto(a, "log") /\ job' = job
    <3>1. pc'[a] = "log" /\ \A b \in Actors \ {a} : pc'[b] = pc[b] /\ job'[b] = job[b]
      BY <1>0, <2>2, GotoFrame
    <3>2. completed' = completed /\ staged' = staged
      BY <1>4 DEF ApproveUnlink, history
    <3>3. ASSUME NEW s \in Targets PROVE Accounted(s)'
      <4>1. Holders(s)' \subseteq Holders(s) \cup {a}
        BY <1>0, <3>1, HoldersFrame
      <4>2. CASE s = job[a].tgts[1]
        <5>1. draft[s] # None /\ draft'[s] = None
          BY <1>0, <2>2, <4>2 DEF TypeOK
        <5> QED BY <1>0, <3>2, <4>1, <5>1, AccountedTaken DEF Tokens
      <4>3. CASE s # job[a].tgts[1]
        <5>1. ~Holds(a, s)'
          BY <2>2, <4>3 DEF Holds
        <5>2. Holders(s)' \subseteq Holders(s)
          BY <1>0, <3>1, <5>1, HoldersFrame
        <5>3. InFile(s)' <= InFile(s)
          BY <1>0, <2>2, <4>3 DEF InFile, TypeOK
        <5> QED BY <1>0, <3>2, <5>2, <5>3, AccountedFewer DEF Tokens
      <4> QED BY <4>2, <4>3
    <3> QED BY <3>3 DEF Tokens
  <2> QED BY <1>4, <2>1, <2>2 DEF ApproveUnlink
<1>5. CASE ApproveLog(a)
  <2>1. /\ \A b \in Actors \ {a} : pc'[b] = pc[b] /\ job'[b] = job[b]
        /\ \A s \in Targets : ~Holds(a, s)'
    BY <1>0, <1>5, EndFrame DEF ApproveLog
  <2>2. ASSUME NEW s \in Targets PROVE Accounted(s)'
    <3>1. Holders(s)' \subseteq Holders(s) \ {a} /\ Holders(s)' \subseteq Holders(s)
      BY <1>0, <2>1, HoldersFrame
    <3>2. InFile(s)' = InFile(s) /\ staged'[s] = staged[s] /\ InFile(s) \in Nat
      BY <1>5 DEF ApproveLog, InFile
    <3>3. CASE s = job[a].tgts[1]
      <4>1. a \in Holders(s)
        BY <1>5, <3>3 DEF ApproveLog, Holders, Holds
      <4>2. completed'[s] = completed[s] + 1 /\ completed[s] \in Nat
        BY <1>0, <1>5, <3>3 DEF ApproveLog, TypeOK
      <4> QED BY <1>0, <3>1, <3>2, <4>1, <4>2, AccountedReleased DEF Tokens
    <3>4. CASE s # job[a].tgts[1]
      <4>1. completed'[s] = completed[s]
        BY <1>0, <1>5, <3>4 DEF ApproveLog, TypeOK
      <4> QED BY <1>0, <3>1, <3>2, <4>1, AccountedFewer DEF Tokens
    <3> QED BY <3>3, <3>4
  <2> QED BY <2>2 DEF Tokens
<1>6. CASE ApproveFails(a)
  BY <1>0, <1>6, EndFrame, QuietStep DEF ApproveFails, files, history
<1> QED BY <1>1, <1>2, <1>3, <1>4, <1>5, <1>6 DEF Approve

\* Nor does a step of a pair approval, its rollback included.
LEMMA PairTokens ==
  ASSUME IInv, TypeOK', Tokens, NEW a \in Actors, ApprovePair(a)
  PROVE  Tokens'
<1>0. TypeOK /\ ShapeOf(a) /\ job[a] \in Jobs
  BY DEF IInv, Shape, TypeOK
<1>1. ASSUME NEW i \in Ids, NEW k \in {"debt", "exemption"}, NEW r \in Reviewers, PairSelect(a, i, k, r)
      PROVE  Tokens'
  <2>1. pc'[a] = "pair_read" /\ \A b \in Actors \ {a} : pc'[b] = pc[b] /\ job'[b] = job[b]
    BY <1>0, <1>1 DEF PairSelect, Goto, TypeOK
  <2>2. \A s \in Targets : ~Holds(a, s)'
    BY <2>1 DEF Holds
  <2> QED BY <1>0, <1>1, <2>1, <2>2, QuietStep DEF PairSelect, files, history
<1>2. CASE End(a) /\ draft' = draft /\ completed' = completed /\ staged' = staged
  BY <1>0, <1>2, EndFrame, QuietStep
<1>3. ASSUME NEW s, s \in {"pair_validate", "pair_mark", "pair_append", "pair_stage",
                           "replace_1", "replace_2", "unlink_1", "truncate"},
             pc'[a] = s, \A b \in Actors \ {a} : pc'[b] = pc[b] /\ job'[b] = job[b],
             draft' = draft, completed' = completed, staged' = staged
      PROVE  Tokens'
  <2>1. \A t \in Targets : ~Holds(a, t)'
    BY <1>3 DEF Holds
  <2> QED BY <1>0, <1>3, <2>1, QuietStep
<1>4. CASE PairRead(a)
  <2>1. CASE Goto(a, "pair_validate") /\ \A b \in Actors \ {a} : job'[b] = job[b]
    BY <1>0, <1>3, <1>4, <2>1, GotoFrame DEF PairRead, files, history
  <2>2. End(a) \/ (Goto(a, "pair_validate") /\ \A b \in Actors \ {a} : job'[b] = job[b])
    BY <1>0, <1>4 DEF PairRead, TypeOK
  <2> QED BY <1>2, <1>4, <2>1, <2>2 DEF PairRead, files, history
<1>5. CASE PairValidate(a)
  <2>1. CASE Goto(a, "pair_mark") /\ job' = job
    BY <1>0, <1>3, <1>5, <2>1, GotoFrame DEF PairValidate, files
  <2> QED BY <1>2, <1>5, <2>1 DEF PairValidate, files
<1>6. CASE PairMark(a) \/ PairAppend(a) \/ PairStage(a)
  <2>1. /\ pc'[a] \in {"pair_append", "pair_stage", "replace_1"}
        /\ \A b \in Actors \ {a} : pc'[b] = pc[b] /\ job'[b] = job[b]
    BY <1>0, <1>6 DEF PairMark, PairAppend, PairStage, Goto, TypeOK
  <2> QED BY <1>3, <1>6, <2>1 DEF PairMark, PairAppend, PairStage, files, history
<1>7. CASE PairAppendFails(a) \/ PairRefused(a) \/ PairTruncate(a)
  BY <1>2, <1>7 DEF PairAppendFails, PairRefused, PairTruncate, files, history
<1>8. ASSUME NEW n \in 1..2, PairReplace(a, n) PROVE Tokens'
  <2>1. /\ pc'[a] \in {"replace_2", "unlink_1"}
        /\ \A b \in Actors \ {a} : pc'[b] = pc[b] /\ job'[b] = job[b]
    BY <1>0, <1>8 DEF PairReplace, Goto, TypeOK
  <2> QED BY <1>3, <1>8, <2>1 DEF PairReplace, history
<1>9. ASSUME Goto(a, "restore"), pc[a] # "log", job' = job,
             draft' = draft, completed' = completed, staged' = staged
      PROVE  pc[a] \in {"pair_stage", "replace_1", "replace_2", "unlink_1", "unlink_2"} => Tokens'
  <2>1. pc'[a] = "restore" /\ \A b \in Actors \ {a} : pc'[b] = pc[b]
    BY <1>0, <1>9, GotoFrame
  <2> SUFFICES ASSUME pc[a] \in {"pair_stage", "replace_1", "replace_2", "unlink_1", "unlink_2"}
               PROVE  Tokens'
    OBVIOUS
  <2>2. CASE pc[a] = "unlink_2"
    <3>1. \A t \in Targets : Holds(a, t)' => Holds(a, t)
      BY <1>9, <2>1, <2>2 DEF Holds
    <3> QED BY <1>0, <1>9, <2>1, <3>1, QuietStep
  <2>3. CASE pc[a] # "unlink_2"
    <3>1. job[a].done # 3
      BY <1>0, <2>3 DEF ShapeOf
    <3>2. \A t \in Targets : ~Holds(a, t)'
      BY <1>9, <2>1, <3>1 DEF Holds
    <3> QED BY <1>0, <1>9, <2>1, <3>2, QuietStep
  <2> QED BY <2>2, <2>3
<1>10. CASE PairFails(a)
  BY <1>9, <1>10 DEF PairFails, files, history
<1>11. CASE PairUnlinkFirst(a)
  <2>1. CASE Goto(a, "restore") /\ UNCHANGED <<draft, job>>
    BY <1>9, <1>11, <2>1 DEF PairUnlinkFirst, history
  <2>2. CASE /\ draft[job[a].tgts[1]] # None
             /\ draft' = [draft EXCEPT ![job[a].tgts[1]] = None]
             /\ job' = [job EXCEPT ![a].done = 3]
             /\ Goto(a, "unlink_2")
    <3>1. pc'[a] = "unlink_2" /\ \A b \in Actors \ {a} : pc'[b] = pc[b] /\ job'[b] = job[b]
      BY <1>0, <2>2, GotoFrame DEF TypeOK
    <3>2. completed' = completed /\ staged' = staged
      BY <1>11 DEF PairUnlinkFirst, history
    <3>3. job'[a].tgts = job[a].tgts
      BY <1>0, <2>2 DEF TypeOK, Jobs
    <3>4. ASSUME NEW s \in Targets PROVE Accounted(s)'
      <4>1. Holders(s)' \subseteq Holders(s) \cup {a}
        BY <1>0, <3>1, HoldersFrame
      <4>2. CASE s = job[a].tgts[1]
        <5>1. draft[s] # None /\ draft'[s] = None
          BY <1>0, <2>2, <4>2 DEF TypeOK
        <5> QED BY <1>0, <3>2, <4>1, <5>1, AccountedTaken DEF Tokens
      <4>3. CASE s # job[a].tgts[1]
        <5>1. ~Holds(a, s)'
          BY <3>3, <4>3 DEF Holds
        <5>2. Holders(s)' \subseteq Holders(s)
          BY <1>0, <3>1, <5>1, HoldersFrame
        <5>3. InFile(s)' <= InFile(s)
          BY <1>0, <2>2, <4>3 DEF InFile, TypeOK
        <5> QED BY <1>0, <3>2, <5>2, <5>3, AccountedFewer DEF Tokens
      <4> QED BY <4>2, <4>3
    <3> QED BY <3>4 DEF Tokens
  <2> QED BY <1>11, <2>1, <2>2 DEF PairUnlinkFirst
<1>12. CASE PairUnlinkSecond(a)
  <2>1. CASE Goto(a, "restore") /\ UNCHANGED <<draft, completed, job>>
    BY <1>9, <1>12, <2>1 DEF PairUnlinkSecond
  <2>2. CASE /\ draft[job[a].tgts[2]] # None
             /\ draft' = [draft EXCEPT ![job[a].tgts[2]] = None]
             /\ completed' = [s \in Targets |->
                  IF s \in {job[a].tgts[1], job[a].tgts[2]} THEN completed[s] + 1 ELSE completed[s]]
             /\ End(a)
    <3>1. /\ \A b \in Actors \ {a} : pc'[b] = pc[b] /\ job'[b] = job[b]
          /\ \A s \in Targets : ~Holds(a, s)'
      BY <1>0, <2>2, EndFrame
    <3>2. /\ pc[a] = "unlink_2" /\ job[a].done = 3 /\ job[a].tgts[1] # job[a].tgts[2]
          /\ staged' = staged
      BY <1>0, <1>12 DEF PairUnlinkSecond, ShapeOf, PairSteps
    <3>3. ASSUME NEW s \in Targets PROVE Accounted(s)'
      <4>1. Holders(s)' \subseteq Holders(s) \ {a} /\ Holders(s)' \subseteq Holders(s)
        BY <1>0, <3>1, HoldersFrame
      <4>2. CASE s = job[a].tgts[1]
        <5>1. a \in Holders(s)
          BY <3>2, <4>2 DEF Holders, Holds
        <5>2. completed'[s] = completed[s] + 1 /\ completed[s] \in Nat
          BY <1>0, <2>2, <4>2 DEF TypeOK
        <5>3. InFile(s)' = InFile(s) /\ InFile(s) \in Nat
          BY <1>0, <2>2, <3>2, <4>2 DEF InFile, TypeOK
        <5> QED BY <1>0, <3>2, <4>1, <5>1, <5>2, <5>3, AccountedReleased DEF Tokens
      <4>3. CASE s = job[a].tgts[2]
        <5>1. completed'[s] = completed[s] + 1 /\ completed[s] \in Nat /\ staged[s] \in Nat
          BY <1>0, <2>2, <4>3 DEF TypeOK
        <5>2. InFile(s) = 1 /\ InFile(s)' = 0
          BY <1>0, <2>2, <4>3 DEF InFile, TypeOK
        <5>3. /\ Cardinality(Holders(s)') <= Cardinality(Holders(s))
              /\ Cardinality(Holders(s)') \in Nat /\ Cardinality(Holders(s)) \in Nat
          BY <4>1, FS_Subset, FS_CardinalityType, HoldersFinite
        <5> QED BY <3>2, <5>1, <5>2, <5>3 DEF Tokens, Accounted
      <4>4. CASE s \notin {job[a].tgts[1], job[a].tgts[2]}
        <5>1. completed'[s] = completed[s]
          BY <2>2, <4>4
        <5>2. InFile(s)' <= InFile(s)
          BY <1>0, <2>2, <4>4 DEF InFile, TypeOK
        <5> QED BY <1>0, <3>2, <4>1, <5>1, <5>2, AccountedFewer DEF Tokens
      <4> QED BY <4>2, <4>3, <4>4
    <3> QED BY <3>3 DEF Tokens
  <2> QED BY <1>12, <2>1, <2>2 DEF PairUnlinkSecond
<1>13. CASE PairRestore(a)
  <2>1. /\ pc[a] = "restore" /\ pc'[a] = "truncate" /\ job' = job
        /\ \A b \in Actors \ {a} : pc'[b] = pc[b]
        /\ completed' = completed /\ staged' = staged
    BY <1>0, <1>13, GotoFrame DEF PairRestore, history
  <2>2. \A s \in Targets : ~Holds(a, s)'
    BY <2>1 DEF Holds
  <2>3. CASE job[a].done # 3
    <3>1. draft' = draft
      BY <1>13, <2>3 DEF PairRestore
    <3> QED BY <1>0, <2>1, <2>2, <3>1, QuietStep
  <2>4. CASE job[a].done = 3
    <3>1. draft' = [draft EXCEPT ![job[a].tgts[1]] = job[a].read[1]]
      BY <1>13, <2>4 DEF PairRestore
    <3>2. ASSUME NEW s \in Targets PROVE Accounted(s)'
      <4>1. Holders(s)' \subseteq Holders(s) \ {a} /\ Holders(s)' \subseteq Holders(s)
        BY <1>0, <2>1, <2>2, HoldersFrame
      <4>2. CASE s = job[a].tgts[1]
        <5>1. a \in Holders(s)
          BY <2>1, <2>4, <4>2 DEF Holders, Holds
        <5>2. InFile(s)' \in 0..1 /\ InFile(s) \in 0..1 /\ completed[s] \in Nat
          BY <1>0 DEF InFile, TypeOK
        <5>3. InFile(s)' + completed'[s] <= InFile(s) + completed[s] + 1
          BY <2>1, <5>2
        <5> QED BY <1>0, <2>1, <4>1, <5>1, <5>3, AccountedReleased DEF Tokens
      <4>3. CASE s # job[a].tgts[1]
        <5>1. InFile(s)' <= InFile(s)
          BY <1>0, <3>1, <4>3 DEF InFile, TypeOK
        <5> QED BY <1>0, <2>1, <4>1, <5>1, AccountedFewer DEF Tokens
      <4> QED BY <4>2, <4>3
    <3> QED BY <3>2 DEF Tokens
  <2> QED BY <2>3, <2>4
<1> QED BY <1>1, <1>4, <1>5, <1>6, <1>7, <1>8, <1>10, <1>11, <1>12, <1>13 DEF ApprovePair

\* Staging a draft accounts for it.
LEMMA StageTokens ==
  ASSUME IInv, TypeOK', Tokens, NEW t \in Targets, StageDraft(t) \/ CopyDraft(t)
  PROVE  Tokens'
<1>1. /\ pc' = pc /\ job' = job /\ completed' = completed
      /\ staged' = [staged EXCEPT ![t] = @ + 1]
      /\ \A s \in Targets \ {t} : draft'[s] = draft[s]
  BY DEF StageDraft, CopyDraft, IInv, TypeOK
<1>2. ASSUME NEW s \in Targets PROVE Accounted(s)'
  <2>1. Holders(s)' = Holders(s)
    BY <1>1 DEF Holders, Holds
  <2>2. CASE s = t
    <3>1. staged'[s] = staged[s] + 1 /\ staged[s] \in Nat /\ completed[s] \in Nat
      BY <1>1, <2>2 DEF IInv, TypeOK
    <3>2. InFile(s)' \in 0..1 /\ InFile(s) \in 0..1
      BY DEF InFile
    <3>3. Cardinality(Holders(s)) \in Nat
      BY HoldersFinite
    <3> QED BY <1>1, <2>1, <3>1, <3>2, <3>3 DEF Tokens, Accounted
  <2>3. CASE s # t
    <3>1. InFile(s)' <= InFile(s) /\ staged'[s] = staged[s] /\ completed'[s] = completed[s]
      BY <1>1, <2>3 DEF InFile, IInv, TypeOK
    <3> QED BY <2>1, <3>1, AccountedFewer DEF Tokens, IInv
  <2> QED BY <2>2, <2>3
<1> QED BY <1>2 DEF Tokens

\* Every step keeps the accounts.
LEMMA StepTokens == IInv /\ Tokens /\ [Next]_vars => Tokens'
<1> SUFFICES ASSUME IInv, Tokens, [Next]_vars PROVE Tokens'
  OBVIOUS
<1>0. TypeOK' /\ TypeOK
  BY StepIInv DEF IInv
<1>1. ASSUME NEW a \in Actors, Crash(a) PROVE Tokens'
  BY <1>0, <1>1, EndFrame, QuietStep DEF Crash, files, history
<1>2. CASE UNCHANGED vars \/ \E g \in Grounds : Reground(g)
  <2>0. UNCHANGED <<target, draft, log, pc, job, passed, staged, unlogged, completed>>
    BY <1>2, CrateApart
  <2>1. \A t \in Targets : Holders(t)' = Holders(t) /\ InFile(t)' = InFile(t)
    BY <2>0 DEF Holders, Holds, InFile
  <2> QED BY <2>0, <2>1 DEF Tokens, Accounted
<1> QED BY <1>0, <1>1, <1>2, ApproveTokens, PairTokens, StageTokens DEF Next, Commands

\* Nothing is staged and nothing is owed at first.
LEMMA InitTokens == Init => Tokens
<1> SUFFICES ASSUME Init, NEW t \in Targets PROVE Accounted(t)
  BY DEF Tokens
<1>1. Holders(t) = {}
  BY DEF Init, Holders, Holds
<1>2. Cardinality(Holders(t)) = 0
  BY <1>1, FS_EmptySet
<1> QED BY <1>2 DEF Init, Accounted, InFile

\* However many commands race for it, a draft staged n times is promoted by at
\* most n commands that report success: the unlink of the draft, which the
\* rollback of a pair undoes, hands each staging to one command.
THEOREM PromotedOnce == Spec => []EachDraftPromotedOnce
<1>1. IInv /\ Tokens => EachDraftPromotedOnce
  <2> SUFFICES ASSUME IInv, Tokens, NEW t \in Targets PROVE completed[t] <= staged[t]
    BY DEF EachDraftPromotedOnce
  <2>1. InFile(t) \in Nat /\ Cardinality(Holders(t)) \in Nat
    BY HoldersFinite DEF InFile
  <2>2. completed[t] \in Nat /\ staged[t] \in Nat
    BY DEF IInv, TypeOK
  <2> QED BY <2>1, <2>2 DEF Tokens, Accounted
<1> QED BY <1>1, InitIInv, StepIInv, InitTokens, StepTokens, PTL DEF Spec

-----------------------------------------------------------------------------
(* One command at a time.                                                  *)

OneCommand == \A a, b \in Actors : a = b

\* Steps at which a pair approval may take the log back to its mark; those with
\* its lines appended; those at which it may put targets back.
Marked == {"pair_append", "pair_stage", "replace_1", "replace_2", "unlink_1", "unlink_2",
           "restore", "truncate"}
Logged == Marked \ {"pair_append"}
Replacing == {"replace_1", "replace_2", "unlink_1", "unlink_2", "restore"}

\* A line that no running command takes back; the log without the others.
Lasting(k) == \A a \in Actors : pc[a] \in Marked => k <= job[a].mark
KeptReadable == \A k \in DOMAIN log : Lasting(k) => log[k] \notin {Fragment, Damaged}

\* What a pair approval has written: its lines, and the targets done.
PairOf(a) ==
  LET j == job[a] IN
  /\ pc[a] \in PairSteps => \E i \in Ids, k \in {"debt", "exemption"} :
                              j.tgts = <<Interaction(i), <<k, i>>>>
  /\ pc[a] \in PairSteps \ (Replacing \cup {"truncate"}) => j.orig = <<>> /\ j.done = 0
  /\ pc[a] = "pair_append" => j.mark = Len(log)
  /\ pc[a] \in Logged =>
       /\ Len(log) = j.mark + 2
       /\ KeptReadable => \A n \in 1..2 : log[j.mark + n] = EntryFor(a, n)
  /\ /\ pc[a] = "replace_1" => j.done = 0
     /\ pc[a] = "replace_2" => j.done = 1
     /\ pc[a] = "unlink_1" => j.done = 2
  /\ pc[a] \in Replacing /\ j.orig # <<>> =>
       \A n \in 1..2 : target[j.tgts[n]] = IF n <= j.done THEN DocRead(a, n) ELSE j.orig[n]
  /\ pc[a] = "truncate" /\ j.orig # <<>> => \A n \in 1..2 : target[j.tgts[n]] = j.orig[n]

\* A command alone decides which lines last.
LEMMA LastingAlone ==
  ASSUME OneCommand, NEW a \in Actors
  PROVE  \A k : Lasting(k) <=> (pc[a] \in Marked => k <= job[a].mark)
  BY DEF OneCommand, Lasting

\* There is one process.
LEMMA OthersAlone ==
  ASSUME OneCommand, NEW a \in Actors
  PROVE  \A b \in Actors : b = a
  BY DEF OneCommand

\* A step inside a pair approval that leaves its lines and its mark alone.
LEMMA LogUnmoved ==
  ASSUME OneCommand, NEW a \in Actors, pc[a] \in Logged, pc'[a] \in Logged,
         PairOf(a), log' = log, job'[a].mark = job[a].mark,
         job'[a].tgts = job[a].tgts, job'[a].by = job[a].by
  PROVE  /\ Len(log') = job'[a].mark + 2
         /\ KeptReadable' => \A n \in 1..2 : log'[job'[a].mark + n] = EntryFor(a, n)'
<1>1. KeptReadable' => KeptReadable
  <2>1. \A k : Lasting(k) <=> k <= job[a].mark
    BY LastingAlone DEF Logged
  <2>2. \A k : Lasting(k)' <=> k <= job[a].mark
    BY OthersAlone DEF Lasting, Logged
  <2> QED BY <2>1, <2>2 DEF KeptReadable
<1>2. \A n \in 1..2 : EntryFor(a, n)' = EntryFor(a, n)
  BY DEF EntryFor
<1> QED BY <1>1, <1>2 DEF PairOf

\* Outside a pair approval there is no pair to describe.
LEMMA PairAway ==
  ASSUME NEW a \in Actors, pc'[a] \notin PairSteps
  PROVE  PairOf(a)'
  BY DEF PairOf, PairSteps, Logged, Marked, Replacing

\* A command that ends leaves no pair.
LEMMA EndAway ==
  ASSUME IInv, NEW a \in Actors, End(a)
  PROVE  PairOf(a)'
  BY PairAway DEF End, IInv, TypeOK, PairSteps

\* Every step of a pair approval writes its pair as described.
LEMMA PairSteady ==
  ASSUME IInv, OneCommand, NEW a \in Actors, PairOf(a), ApprovePair(a)
  PROVE  PairOf(a)'
<1>0. /\ TypeOK /\ ShapeOf(a)
      /\ job[a] \in Jobs
  BY DEF IInv, TypeOK, Shape
<1>1. ASSUME NEW i \in Ids, NEW k \in {"debt", "exemption"}, NEW r \in Reviewers, PairSelect(a, i, k, r)
      PROVE PairOf(a)'
  <2>1. /\ pc'[a] = "pair_read" /\ job'[a].tgts = <<Interaction(i), <<k, i>>>>
        /\ job'[a].orig = <<>> /\ job'[a].done = 0
    BY <1>0, <1>1 DEF PairSelect, Goto, TypeOK, NoJob
  <2> QED BY <2>1 DEF PairOf, PairSteps, Logged, Marked, Replacing
<1>2. CASE PairRead(a)
  <2>1. CASE End(a)
    BY <2>1, EndAway
  <2>2. CASE Goto(a, "pair_validate") /\ job' = [job EXCEPT ![a].read = <<draft[job[a].tgts[1]], draft[job[a].tgts[2]]>>]
    <3>1. /\ pc'[a] = "pair_validate" /\ job'[a].tgts = job[a].tgts
          /\ job'[a].orig = job[a].orig /\ job'[a].done = job[a].done
      BY <1>0, <2>2 DEF Goto, TypeOK, Jobs
    <3>2. pc[a] = "pair_read"
      BY <1>2 DEF PairRead
    <3> QED BY <3>1, <3>2 DEF PairOf, PairSteps, Logged, Marked, Replacing
  <2> QED BY <1>2, <2>1, <2>2 DEF PairRead
<1>3. CASE PairValidate(a)
  <2>1. CASE End(a)
    BY <2>1, EndAway
  <2>2. CASE Goto(a, "pair_mark") /\ UNCHANGED job
    <3>1. pc'[a] = "pair_mark" /\ job'[a] = job[a] /\ pc[a] = "pair_validate"
      BY <1>0, <1>3, <2>2 DEF PairValidate, Goto, TypeOK
    <3> QED BY <3>1 DEF PairOf, PairSteps, Logged, Marked, Replacing
  <2> QED BY <1>3, <2>1, <2>2 DEF PairValidate
<1>4. CASE PairMark(a)
  <2>1. /\ pc[a] = "pair_mark" /\ pc'[a] = "pair_append" /\ job'[a].tgts = job[a].tgts
        /\ job'[a].orig = job[a].orig /\ job'[a].done = job[a].done
        /\ job'[a].mark = Len(log) /\ log' = log
    BY <1>0, <1>4 DEF PairMark, Goto, TypeOK, Jobs, files
  <2> QED BY <2>1 DEF PairOf, PairSteps, Logged, Marked, Replacing
<1>5. CASE PairAppend(a)
  <2>1. /\ pc[a] = "pair_append" /\ pc'[a] = "pair_stage" /\ job' = job
        /\ log' = Appended(log, <<EntryFor(a, 1), EntryFor(a, 2)>>)
        /\ job[a].mark = Len(log)
    BY <1>0, <1>5 DEF PairAppend, Goto, TypeOK, PairOf
  <2>2. /\ log \in Seq(LogLine) /\ Damaged \in LogLine
        /\ EntryFor(a, 1) \in Entry /\ EntryFor(a, 2) \in Entry
    <3>1. job[a].tgts[1] \in Targets /\ job[a].tgts[2] \in Targets
      BY <1>0, <2>1, WrittenPair DEF PairSteps, IInv
    <3>2. job[a].by \in Reviewers
      BY <1>0, <2>1 DEF ShapeOf
    <3> QED BY <1>0, <3>1, <3>2 DEF TypeOK, LogLine, EntryFor, Entry
  <2> DEFINE new == <<EntryFor(a, 1), EntryFor(a, 2)>>
  <2>3. new \in Seq(Entry) /\ new \in Seq(LogLine) /\ new # <<>> /\ Len(new) = 2
        /\ new[1] = EntryFor(a, 1) /\ new[2] = EntryFor(a, 2)
    BY <2>2 DEF LogLine
  <2> HIDE DEF new
  <2>4. Len(log') = job'[a].mark + 2
    <3>1. Len(Appended(log, new)) = Len(log) + Len(new)
      BY <2>2, <2>3, AppendedKeeps
    <3> QED BY <2>1, <2>3, <3>1 DEF new
  <2>5. ASSUME KeptReadable', NEW n \in 1..2
        PROVE  log'[job'[a].mark + n] = EntryFor(a, n)'
    <3>1. \A k \in DOMAIN log : log'[k] = log[k] /\ k \in DOMAIN log'
      <4>1. /\ Appended(log, new) \in Seq(LogLine)
            /\ Len(Appended(log, new)) = Len(log) + Len(new)
            /\ \A k \in DOMAIN log : Appended(log, new)[k] = log[k]
        BY <2>2, <2>3, AppendedKeeps
      <4>2. log' = Appended(log, new)
        BY <2>1 DEF new
      <4>3. Len(log) <= Len(log') /\ log' \in Seq(LogLine)
        BY <2>2, <2>3, <4>1, <4>2
      <4>4. \A k \in DOMAIN log : k \in DOMAIN log'
        BY <2>2, <4>3
      <4> QED BY <4>1, <4>2, <4>4
    <3>2. \A k \in DOMAIN log : Lasting(k)'
      <4>1. \A k \in DOMAIN log : k <= job'[a].mark
        BY <2>1, <2>2
      <4> QED BY <4>1, OthersAlone DEF Lasting
    <3>3. Readable(log)
      BY <2>5, <3>1, <3>2 DEF KeptReadable, Readable
    <3>4. Appended(log, new) = log \o new
      <4>1. Fragment \notin Entry /\ Damaged \notin Entry
        BY LineAssumption
      <4> QED BY <2>2, <2>3, <3>3, <4>1, ReadableGrows DEF LogLine
    <3>5. (log \o new)[Len(log) + n] = new[n]
      <4>1. log \in Seq(LogLine) /\ new \in Seq(LogLine) /\ n \in 1..Len(new)
        BY <2>2, <2>3
      <4> QED BY <4>1, ConcatNew
    <3>6. EntryFor(a, n)' = EntryFor(a, n)
      BY <2>1 DEF EntryFor
    <3>7. new[n] = EntryFor(a, n)
      BY <2>3
    <3> QED BY <2>1, <3>4, <3>5, <3>6, <3>7 DEF new
  <2>6. /\ pc'[a] \in PairSteps => \E i \in Ids, k \in {"debt", "exemption"} :
                              job'[a].tgts = <<Interaction(i), <<k, i>>>>
        /\ job'[a].orig = <<>> /\ job'[a].done = 0
    BY <2>1 DEF PairOf, PairSteps, Replacing
  <2> QED BY <2>1, <2>4, <2>5, <2>6 DEF PairOf, Replacing
<1>6. CASE PairAppendFails(a) \/ PairTruncate(a) \/ PairRefused(a)
  BY <1>6, EndAway DEF PairAppendFails, PairTruncate, PairRefused
<1>7. CASE PairStage(a)
  <2>1. /\ pc[a] = "pair_stage" /\ pc'[a] = "replace_1" /\ job'[a].tgts = job[a].tgts
        /\ job'[a].orig = <<target[job[a].tgts[1]], target[job[a].tgts[2]]>>
        /\ job'[a].done = job[a].done /\ job'[a].mark = job[a].mark /\ job'[a].by = job[a].by
        /\ log' = log /\ target' = target
    BY <1>0, <1>7 DEF PairStage, Goto, TypeOK, Jobs, files
  <2>2. /\ Len(log') = job'[a].mark + 2
        /\ KeptReadable' => \A n \in 1..2 : log'[job'[a].mark + n] = EntryFor(a, n)'
    BY <2>1, LogUnmoved DEF Logged, Marked
  <2>3. job[a].done = 0
    BY <2>1 DEF PairOf, PairSteps, Replacing
  <2>4. \A n \in 1..2 : target'[job'[a].tgts[n]] = IF n <= job'[a].done THEN DocRead(a, n)' ELSE job'[a].orig[n]
    BY <2>1, <2>3
  <2>5. \E i \in Ids, k \in {"debt", "exemption"} : job'[a].tgts = <<Interaction(i), <<k, i>>>>
    BY <2>1 DEF PairOf, PairSteps
  <2> QED BY <2>1, <2>2, <2>3, <2>4, <2>5 DEF PairOf, PairSteps, Replacing
<1>8. ASSUME NEW m \in 1..2, PairReplace(a, m) PROVE PairOf(a)'
  <2>1. /\ pc[a] = <<"replace_1", "replace_2">>[m] /\ pc'[a] = <<"replace_2", "unlink_1">>[m]
        /\ job'[a].tgts = job[a].tgts /\ job'[a].read = job[a].read
        /\ job'[a].orig = job[a].orig
        /\ job'[a].done = m /\ job'[a].mark = job[a].mark /\ job'[a].by = job[a].by
        /\ log' = log /\ target' = [target EXCEPT ![job[a].tgts[m]] = DocRead(a, m)]
    BY <1>0, <1>8 DEF PairReplace, Goto, TypeOK, Jobs
  <2>2. pc[a] \in {"replace_1", "replace_2"} /\ pc'[a] \in {"replace_2", "unlink_1"}
    BY <2>1
  <2>3. /\ Len(log') = job'[a].mark + 2
        /\ KeptReadable' => \A n \in 1..2 : log'[job'[a].mark + n] = EntryFor(a, n)'
    BY <2>1, <2>2, LogUnmoved DEF Logged, Marked
  <2>4. job[a].done = m - 1
    BY <2>1 DEF PairOf
  <2>5. \A n \in 1..2 : job[a].tgts[n] \in Targets
    BY <1>0, <2>2, WrittenPair DEF PairSteps, IInv
  <2>6. job[a].tgts[1] # job[a].tgts[2] /\ job[a].orig # <<>>
    BY <1>0, <2>2 DEF ShapeOf, PairSteps
  <2>7. \A n \in 1..2 : target[job[a].tgts[n]] = IF n <= job[a].done THEN DocRead(a, n) ELSE job[a].orig[n]
    BY <2>2, <2>6 DEF PairOf, Replacing
  <2>8. \A n \in 1..2 : DocRead(a, n)' = DocRead(a, n)
    BY <2>1 DEF DocRead
  <2>9. \A n \in 1..2 : target'[job'[a].tgts[n]] = IF n <= job'[a].done THEN DocRead(a, n)' ELSE job'[a].orig[n]
    <3>1. target \in [Targets -> Content]
      BY <1>0 DEF TypeOK
    <3>2. target'[job[a].tgts[m]] = DocRead(a, m) /\ \A n \in 1..2 : n # m => target'[job[a].tgts[n]] = target[job[a].tgts[n]]
      BY <2>1, <2>5, <2>6, <3>1
    <3> QED BY <2>1, <2>4, <2>7, <2>8, <3>2
  <2>10. \E i \in Ids, k \in {"debt", "exemption"} : job'[a].tgts = <<Interaction(i), <<k, i>>>>
    BY <2>1, <2>2 DEF PairOf, PairSteps
  <2>11. (pc'[a] = "replace_2" => job'[a].done = 1) /\ (pc'[a] = "unlink_1" => job'[a].done = 2)
    BY <2>1
  <2> QED BY <2>2, <2>3, <2>9, <2>10, <2>11 DEF PairOf, PairSteps, Replacing
<1>9. ASSUME pc[a] \in {"pair_stage", "replace_1", "replace_2", "unlink_1", "unlink_2"},
             pc'[a] = "restore", job' = job, log' = log, target' = target
      PROVE  PairOf(a)'
  <2>1. /\ Len(log') = job'[a].mark + 2
        /\ KeptReadable' => \A n \in 1..2 : log'[job'[a].mark + n] = EntryFor(a, n)'
    BY <1>9, LogUnmoved DEF Logged, Marked
  <2>2. job[a].orig # <<>> => pc[a] # "pair_stage"
    BY <1>9 DEF PairOf, PairSteps, Replacing
  <2>3. \A n \in 1..2 : DocRead(a, n)' = DocRead(a, n)
    BY <1>9 DEF DocRead
  <2>4. job'[a].orig # <<>> => \A n \in 1..2 : target'[job'[a].tgts[n]] = IF n <= job'[a].done THEN DocRead(a, n)' ELSE job'[a].orig[n]
    BY <1>9, <2>2, <2>3 DEF PairOf, Replacing
  <2>5. \E i \in Ids, k \in {"debt", "exemption"} : job'[a].tgts = <<Interaction(i), <<k, i>>>>
    BY <1>9 DEF PairOf, PairSteps
  <2> QED BY <1>9, <2>1, <2>4, <2>5 DEF PairOf, PairSteps, Replacing
<1>10. CASE PairUnlinkFirst(a)
  <2>1. CASE Goto(a, "restore") /\ UNCHANGED <<draft, job>>
    BY <1>0, <1>9, <1>10, <2>1 DEF PairUnlinkFirst, Goto, TypeOK
  <2>2. CASE Goto(a, "unlink_2") /\ job' = [job EXCEPT ![a].done = 3]
    <3>1. /\ pc[a] = "unlink_1" /\ pc'[a] = "unlink_2"
          /\ job'[a].tgts = job[a].tgts /\ job'[a].read = job[a].read
          /\ job'[a].orig = job[a].orig
          /\ job'[a].done = 3 /\ job'[a].mark = job[a].mark /\ job'[a].by = job[a].by
          /\ log' = log /\ target' = target
      BY <1>0, <1>10, <2>2 DEF PairUnlinkFirst, Goto, TypeOK, Jobs
    <3>2. /\ Len(log') = job'[a].mark + 2
          /\ KeptReadable' => \A n \in 1..2 : log'[job'[a].mark + n] = EntryFor(a, n)'
      BY <3>1, LogUnmoved DEF Logged, Marked
    <3>3. \A n \in 1..2 : DocRead(a, n)' = DocRead(a, n)
      BY <3>1 DEF DocRead
    <3>4. job[a].orig # <<>> => \A n \in 1..2 : target'[job'[a].tgts[n]] = IF n <= job'[a].done THEN DocRead(a, n)' ELSE job'[a].orig[n]
      BY <3>1, <3>3 DEF PairOf, Replacing
    <3>5. \E i \in Ids, k \in {"debt", "exemption"} : job'[a].tgts = <<Interaction(i), <<k, i>>>>
      BY <3>1 DEF PairOf, PairSteps
    <3> QED BY <3>1, <3>2, <3>4, <3>5 DEF PairOf, PairSteps, Replacing
  <2> QED BY <1>10, <2>1, <2>2 DEF PairUnlinkFirst
<1>11. CASE PairUnlinkSecond(a)
  <2>1. CASE End(a)
    BY <2>1, EndAway
  <2>2. CASE Goto(a, "restore") /\ UNCHANGED job
    BY <1>0, <1>9, <1>11, <2>2 DEF PairUnlinkSecond, Goto, TypeOK
  <2> QED BY <1>11, <2>1, <2>2 DEF PairUnlinkSecond
<1>12. CASE PairFails(a)
  BY <1>0, <1>9, <1>12 DEF PairFails, Goto, TypeOK, files
<1>13. CASE PairRestore(a)
  <2>1. pc[a] = "restore" /\ pc'[a] = "truncate" /\ job' = job /\ log' = log
    BY <1>0, <1>13 DEF PairRestore, Goto, TypeOK
  <2>2. /\ Len(log') = job'[a].mark + 2
        /\ KeptReadable' => \A n \in 1..2 : log'[job'[a].mark + n] = EntryFor(a, n)'
    BY <2>1, LogUnmoved DEF Logged, Marked
  <2>3. ASSUME job[a].orig # <<>>, NEW n \in 1..2
        PROVE  target'[job[a].tgts[n]] = job[a].orig[n]
    <3>1. /\ job[a].tgts[1] # job[a].tgts[2]
          /\ \A p \in 1..2 : job[a].tgts[p] \in Targets
      BY <1>0, <2>1, WrittenPair DEF ShapeOf, PairSteps, IInv
    <3>2. target[job[a].tgts[n]] = IF n <= job[a].done THEN DocRead(a, n) ELSE job[a].orig[n]
      BY <2>1, <2>3 DEF PairOf, Replacing
    <3> DEFINE restored == {p \in 1..2 : p <= job[a].done}
    <3>3. CASE n <= job[a].done
      <4>1. \A p \in restored : job[a].tgts[n] = job[a].tgts[p] => p = n
        BY <3>1
      <4>2. n \in restored
        BY <3>3
      <4>3. (CHOOSE p \in restored : job[a].tgts[n] = job[a].tgts[p]) = n
        BY <4>1, <4>2
      <4> QED BY <1>13, <3>1, <4>2, <4>3 DEF PairRestore
    <3>4. CASE ~(n <= job[a].done)
      <4>1. ~\E p \in restored : job[a].tgts[n] = job[a].tgts[p]
        BY <3>1, <3>4
      <4>2. target'[job[a].tgts[n]] = target[job[a].tgts[n]]
        BY <1>13, <3>1, <4>1 DEF PairRestore
      <4> QED BY <3>2, <3>4, <4>2
    <3> QED BY <3>3, <3>4
  <2>4. \E i \in Ids, k \in {"debt", "exemption"} : job'[a].tgts = <<Interaction(i), <<k, i>>>>
    BY <2>1 DEF PairOf, PairSteps
  <2> QED BY <2>1, <2>2, <2>3, <2>4 DEF PairOf, PairSteps, Replacing
<1> QED BY <1>1, <1>2, <1>3, <1>4, <1>5, <1>6, <1>7, <1>8, <1>10, <1>11, <1>12, <1>13 DEF ApprovePair

Pairs == \A a \in Actors : PairOf(a)

\* No command runs at first.
LEMMA InitPairs == Init => Pairs
  BY DEF Init, Pairs, PairOf, PairSteps, Logged, Marked, Replacing

\* Every step of a command that runs alone keeps what its pair has written.
LEMMA StepPairs == IInv /\ OneCommand /\ Pairs /\ [Next]_vars => Pairs'
<1> SUFFICES ASSUME IInv, OneCommand, Pairs, [Next]_vars, NEW a \in Actors PROVE PairOf(a)'
  BY DEF Pairs
<1>0. TypeOK /\ PairOf(a) /\ \A b \in Actors : b = a
  BY OthersAlone DEF IInv, Pairs
<1>1. CASE ApprovePair(a)
  BY <1>0, <1>1, PairSteady
<1>2. CASE Approve(a) \/ Crash(a)
  <2>1. pc'[a] \notin PairSteps
    BY <1>0, <1>2 DEF Approve, ApproveSelect, ApproveRead, ApproveTruncate, ApproveWrite,
         ApproveUnlink, ApproveLog, ApproveFails, Crash, Goto, End, TypeOK, PairSteps
  <2> QED BY <2>1, PairAway
<1>3. CASE \/ UNCHANGED vars
           \/ \E g \in Grounds : Reground(g)
           \/ \E t \in Targets : StageDraft(t) \/ CopyDraft(t)
  <2>1. pc' = pc /\ job' = job /\ log' = log /\ target' = target
    BY <1>3, CrateApart DEF StageDraft, CopyDraft
  <2>2. (\A n \in 1..2 : DocRead(a, n)' = DocRead(a, n) /\ EntryFor(a, n)' = EntryFor(a, n)) /\ KeptReadable' = KeptReadable
    BY <2>1 DEF DocRead, EntryFor, KeptReadable, Lasting
  <2> QED BY <1>0, <2>1, <2>2 DEF PairOf
<1> QED BY <1>0, <1>1, <1>2, <1>3, StepIs

\* approve-pair and approve-exemption-pair are all or nothing: whichever operation
\* fails and wherever, a pair approval past its first write that returns or rolls
\* back to the end has promoted and logged both files, or left both files and the
\* length of the log as they were; one command at a time.
THEOREM PairsAllOrNone ==
  ASSUME OneCommand
  PROVE  Spec => PairAllOrNone
<1>1. ASSUME IInv, Pairs, [Next]_vars, NEW a \in Actors, PairEnds(a)
      PROVE  \/ \A n \in 1..2 :
              /\ target'[job[a].tgts[n]] = DocRead(a, n)
              /\ job[a].mark + n \in DOMAIN log'
              /\ log'[job[a].mark + n] = EntryFor(a, n) \/ ~Readable(log)
         \/ /\ \A n \in 1..2 : target'[job[a].tgts[n]] = job[a].orig[n]
            /\ Len(log') = job[a].mark
  <2>0. TypeOK /\ ShapeOf(a) /\ PairOf(a) /\ job[a] \in Jobs /\ \A b \in Actors : b = a
    BY <1>1, OthersAlone DEF IInv, Pairs, Shape, TypeOK
  <2>1. pc[a] \in PairSteps /\ pc'[a] = "idle" /\ job[a].orig # <<>>
    BY <1>1 DEF PairEnds
  <2>2. pc[a] \in Replacing \cup {"truncate"}
    BY <2>0, <2>1 DEF PairOf
  <2>3. ApprovePair(a) /\ (Crash(a) => PairTruncate(a))
    <3>1. /\ ~UNCHANGED vars /\ ~\E g \in Grounds : Reground(g)
          /\ ~\E t \in Targets : StageDraft(t) \/ CopyDraft(t)
      BY <2>1, CrateApart DEF StageDraft, CopyDraft, PairSteps
    <3>2. ~Approve(a)
      BY <2>0, <2>2 DEF Approve, ApproveSelect, ApproveRead, ApproveTruncate, ApproveWrite,
         ApproveUnlink, ApproveLog, ApproveFails, SingleSteps, Replacing
    <3>3. PairTruncate(a) => ApprovePair(a)
      BY DEF ApprovePair
    <3> QED BY <1>1, <2>0, <3>1, <3>2, <3>3 DEF Next, Commands, PairEnds
  <2>4. \/ PairTruncate(a)
        \/ PairUnlinkSecond(a) /\ pc[a] = "unlink_2"
    <3>1. ~PairRead(a) /\ ~PairValidate(a) /\ ~PairAppendFails(a) /\ ~PairRefused(a)
      BY <2>2 DEF PairRead, PairValidate, PairAppendFails, PairRefused, Replacing
    <3>2. /\ ~PairMark(a) /\ ~PairAppend(a) /\ ~PairStage(a)
      BY <2>2 DEF PairMark, PairAppend, PairStage, Replacing
    <3>3. \A i \in Ids, k \in {"debt", "exemption"}, r \in Reviewers : ~PairSelect(a, i, k, r)
      BY <2>2 DEF PairSelect, Replacing
    <3>4. \A n \in 1..2 : ~PairReplace(a, n)
      BY <2>0, <2>1 DEF PairReplace, Goto, TypeOK
    <3>5. ~PairUnlinkFirst(a) /\ ~PairFails(a) /\ ~PairRestore(a)
      BY <2>0, <2>1 DEF PairUnlinkFirst, PairFails, PairRestore, Goto, TypeOK
    <3>6. PairUnlinkSecond(a) => pc[a] = "unlink_2"
      BY DEF PairUnlinkSecond
    <3> QED BY <2>3, <3>1, <3>2, <3>3, <3>4, <3>5, <3>6 DEF ApprovePair
  <2>5. Len(log) = job[a].mark + 2 /\ job[a].mark \in Nat /\ log \in Seq(LogLine)
    BY <2>0, <2>2 DEF PairOf, Logged, Marked, Replacing, Jobs, TypeOK
  <2>6. CASE PairTruncate(a)
    <3>1. /\ pc[a] = "truncate" /\ target' = target /\ log' = TruncatedTo(log, job[a].mark)
      BY <2>6 DEF PairTruncate
    <3>2. Len(log') = job[a].mark
      BY <2>5, <3>1 DEF TruncatedTo
    <3> QED BY <2>0, <2>1, <3>1, <3>2 DEF PairOf
  <2>7. CASE PairUnlinkSecond(a) /\ pc[a] = "unlink_2"
    <3>1. target' = target /\ log' = log /\ job[a].done = 3
      BY <2>0, <2>7 DEF PairUnlinkSecond, ShapeOf
    <3>2. \A n \in 1..2 : target[job[a].tgts[n]] = DocRead(a, n)
      BY <2>0, <2>1, <2>7, <3>1 DEF PairOf, Replacing
    <3>3. \A n \in 1..2 : job[a].mark + n \in DOMAIN log
      BY <2>5
    <3>4. Readable(log) => KeptReadable
      BY DEF Readable, KeptReadable
    <3>5. Readable(log) => \A n \in 1..2 : log[job[a].mark + n] = EntryFor(a, n)
      BY <2>0, <2>7, <3>4 DEF PairOf, Logged, Marked
    <3> QED BY <3>1, <3>2, <3>3, <3>5
  <2> QED BY <2>4, <2>6, <2>7
<1>2. IInv /\ Pairs /\ [Next]_vars => [\A a \in Actors : PairEnds(a) =>
         \/ \A n \in 1..2 :
              /\ target'[job[a].tgts[n]] = DocRead(a, n)
              /\ job[a].mark + n \in DOMAIN log'
              /\ log'[job[a].mark + n] = EntryFor(a, n) \/ ~Readable(log)
         \/ /\ \A n \in 1..2 : target'[job[a].tgts[n]] = job[a].orig[n]
            /\ Len(log') = job[a].mark]_vars
  BY <1>1
<1>3. IInv /\ Pairs /\ [Next]_vars => Pairs'
  BY StepPairs
<1> QED BY <1>2, <1>3, InitIInv, StepIInv, InitPairs, PTL DEF Spec, PairAllOrNone

-----------------------------------------------------------------------------
(* What is promoted is logged.                                             *)

\* What stands, or is put back, at t has a line of the log that stays, unless a
\* single approval was cut short.
OnLog(t, file) ==
  KeptReadable /\ file \in Doc /\ <<t, file>> \notin unlogged =>
    \E k \in DOMAIN log : Lasting(k) /\ log[k] = [target |-> t, reviewer |-> file.reviewer]

\* No running command has replaced t.
Untouched(t) ==
  \A a \in Actors : pc[a] \in Replacing =>
    \A n \in 1..2 : n <= job[a].done => t # job[a].tgts[n]

LogInv ==
  /\ \A t \in Targets : Untouched(t) => OnLog(t, target[t])
  /\ \A a \in Actors : pc[a] \in Replacing /\ job[a].orig # <<>> =>
       \A n \in 1..2 : OnLog(job[a].tgts[n], job[a].orig[n])

\* The step takes no line back that was to stay.
LinesLast ==
  \A k \in DOMAIN log : Lasting(k) => k \in DOMAIN log' /\ log'[k] = log[k] /\ Lasting(k)'

\* The log is a sequence of lines.
LEMMA LogIsSeq ==
  ASSUME IInv
  PROVE  log \in Seq(LogLine) /\ \A k \in DOMAIN log : k \in 1..Len(log)
  BY DEF IInv, TypeOK

\* A step that only adds lines takes none back, if it takes its mark at the end.
LEMMA LinesStay ==
  ASSUME IInv, OneCommand, NEW a \in Actors,
         \A k \in DOMAIN log : k \in DOMAIN log' /\ log'[k] = log[k],
         pc'[a] \in Marked => \/ pc[a] \in Marked /\ job'[a].mark = job[a].mark
                              \/ job'[a].mark = Len(log)
  PROVE  LinesLast
<1>1. ASSUME NEW k \in DOMAIN log, Lasting(k) PROVE Lasting(k)'
  <2>1. pc[a] \in Marked => k <= job[a].mark
    BY <1>1, LastingAlone
  <2>2. k <= Len(log)
    BY LogIsSeq
  <2> QED BY <2>1, <2>2, OthersAlone DEF Lasting
<1> QED BY <1>1 DEF LinesLast

\* A rollback takes back the lines behind the mark and no other.
LEMMA LinesBack ==
  ASSUME IInv, OneCommand, NEW a \in Actors, PairOf(a),
         pc[a] \in {"pair_append", "truncate"}, pc'[a] = "idle",
         log' = TruncatedTo(log, job[a].mark)
  PROVE  LinesLast
<1>1. /\ log \in Seq(LogLine) /\ job[a].mark \in Nat /\ job[a].mark <= Len(log)
  BY DEF IInv, TypeOK, Jobs, PairOf, Logged, Marked
<1>2. log' = SubSeq(log, 1, job[a].mark)
  BY <1>1 DEF TruncatedTo
<1>3. ASSUME NEW k \in DOMAIN log, Lasting(k)
      PROVE  k \in DOMAIN log' /\ log'[k] = log[k] /\ Lasting(k)'
  <2>1. k <= job[a].mark
    BY <1>3, LastingAlone DEF Marked
  <2>2. k \in 1..job[a].mark
    BY <1>1, <2>1
  <2>3. Lasting(k)'
    BY OthersAlone DEF Lasting, Marked
  <2> QED BY <1>1, <1>2, <2>2, <2>3
<1> QED BY <1>3 DEF LinesLast

\* What an append, whole or cut short, does to the lines there.
LEMMA LogOnlyGrows ==
  ASSUME IInv
  PROVE  /\ \A e \in LogLine : \A k \in DOMAIN log :
              k \in DOMAIN Appended(log, <<e>>) /\ Appended(log, <<e>>)[k] = log[k]
         /\ \A e, f \in LogLine : \A k \in DOMAIN log :
              k \in DOMAIN Appended(log, <<e, f>>) /\ Appended(log, <<e, f>>)[k] = log[k]
         /\ \A b, steps, points : \A new \in CutShort(b, steps, points) : \A k \in DOMAIN log :
              k \in DOMAIN new /\ new[k] = log[k]
<1>0. log \in Seq(LogLine) /\ Fragment \in LogLine /\ Damaged \in LogLine
  BY DEF IInv, TypeOK, LogLine
<1>1. ASSUME NEW lines \in Seq(LogLine), lines # <<>>, NEW k \in DOMAIN log
      PROVE  k \in DOMAIN Appended(log, lines) /\ Appended(log, lines)[k] = log[k]
  <2>1. /\ Appended(log, lines) \in Seq(LogLine)
        /\ Len(Appended(log, lines)) = Len(log) + Len(lines)
        /\ \A j \in DOMAIN log : Appended(log, lines)[j] = log[j]
    BY <1>0, <1>1, AppendedKeeps
  <2>2. Len(lines) \in Nat /\ k \in 1..Len(log)
    BY <1>0
  <2>3. k \in 1..Len(Appended(log, lines))
    BY <1>0, <2>1, <2>2
  <2> QED BY <2>1, <2>3
<1>2. ASSUME NEW k \in DOMAIN log
      PROVE  k \in DOMAIN Append(log, Fragment) /\ Append(log, Fragment)[k] = log[k]
  BY <1>0
<1>3. \A e, f \in LogLine : <<e>> \in Seq(LogLine) /\ <<e>> # <<>> /\ <<e, f>> \in Seq(LogLine) /\ <<e, f>> # <<>>
  OBVIOUS
<1>4. \A b, steps, points : \A new \in CutShort(b, steps, points) : \A k \in DOMAIN log :
              k \in DOMAIN new /\ new[k] = log[k]
  BY <1>2 DEF CutShort
<1> QED BY <1>1, <1>3, <1>4

\* A single approval and a death only add lines.
LEMMA LinesStayApprove ==
  ASSUME IInv, OneCommand, NEW a \in Actors, Approve(a) \/ Crash(a)
  PROVE  LinesLast
<1>0. TypeOK
  BY DEF IInv
<1>1. pc'[a] \notin Marked
  BY <1>0 DEF Approve, ApproveSelect, ApproveRead, ApproveTruncate, ApproveWrite,
         ApproveUnlink, ApproveLog, ApproveFails, Crash, Goto, End, TypeOK, Marked
<1>2. \A k \in DOMAIN log : k \in DOMAIN log' /\ log'[k] = log[k]
  <2>1. CASE ApproveLog(a)
    <3>1. EntryFor(a, 1) \in LogLine
      BY <1>0, <2>1, WrittenSingle DEF ApproveLog, ValidatedSingle, IInv
    <3> QED BY <2>1, <3>1, LogOnlyGrows DEF ApproveLog
  <2>2. CASE ApproveFails(a) \/ Crash(a)
    BY <2>2, LogOnlyGrows DEF ApproveFails, Crash
  <2>3. CASE log' = log
    BY <2>3
  <2> QED BY <2>1, <2>2, <2>3 DEF Approve, ApproveSelect, ApproveRead, ApproveTruncate, ApproveWrite,
         ApproveUnlink, files
<1> QED BY <1>1, <1>2, LinesStay

\* A pair approval adds lines or takes its own back.
LEMMA LinesStayPair ==
  ASSUME IInv, OneCommand, NEW a \in Actors, PairOf(a), ApprovePair(a)
  PROVE  LinesLast
<1>0. TypeOK /\ job[a] \in Jobs
  BY DEF IInv, TypeOK
<1>1. CASE PairTruncate(a) \/ (PairAppendFails(a) /\ log' # log)
  <2>1. /\ pc[a] \in {"pair_append", "truncate"} /\ pc'[a] = "idle"
        /\ log' = TruncatedTo(log, job[a].mark)
    BY <1>0, <1>1 DEF PairTruncate, PairAppendFails, End, TypeOK
  <2> QED BY <2>1, LinesBack
<1>2. CASE PairAppend(a)
  <2>1. EntryFor(a, 1) \in LogLine /\ EntryFor(a, 2) \in LogLine
    BY <1>2, WrittenPair DEF PairAppend, PairSteps, IInv
  <2>2. \A k \in DOMAIN log : k \in DOMAIN log' /\ log'[k] = log[k]
    BY <1>2, <2>1, LogOnlyGrows DEF PairAppend
  <2>3. pc[a] \in Marked /\ job'[a].mark = job[a].mark
    BY <1>2 DEF PairAppend, Marked
  <2> QED BY <2>2, <2>3, LinesStay
<1>3. ASSUME log' = log,
             pc'[a] \in Marked => \/ pc[a] \in Marked /\ job'[a].mark = job[a].mark
                                  \/ job'[a].mark = Len(log)
      PROVE  LinesLast
  BY <1>3, LinesStay
<1>4. CASE PairMark(a)
  BY <1>0, <1>3, <1>4 DEF PairMark, TypeOK, Jobs, files
<1>5. ASSUME pc'[a] \notin Marked, log' = log PROVE LinesLast
  BY <1>3, <1>5
<1>6. ASSUME NEW i \in Ids, NEW k \in {"debt", "exemption"}, NEW r \in Reviewers, PairSelect(a, i, k, r)
      PROVE LinesLast
  BY <1>0, <1>5, <1>6 DEF PairSelect, Goto, TypeOK, Marked, files
<1>7. CASE PairRead(a) \/ PairValidate(a) \/ PairRefused(a) \/ (PairAppendFails(a) /\ log' = log)
  BY <1>0, <1>5, <1>7 DEF PairRead, PairValidate, PairRefused, PairAppendFails, Goto, End, TypeOK, Marked, files
<1>8. CASE PairStage(a)
  BY <1>0, <1>3, <1>8 DEF PairStage, TypeOK, Jobs, files, Marked
<1>9. ASSUME NEW n \in 1..2, PairReplace(a, n) PROVE LinesLast
  <2>1. pc[a] \in {"replace_1", "replace_2"}
    BY <1>9 DEF PairReplace
  <2> QED BY <1>0, <1>3, <1>9, <2>1 DEF PairReplace, TypeOK, Jobs, Marked
<1>10. CASE PairUnlinkFirst(a)
  BY <1>0, <1>3, <1>10 DEF PairUnlinkFirst, TypeOK, Jobs, Marked
<1>11. CASE PairUnlinkSecond(a)
  BY <1>0, <1>3, <1>11 DEF PairUnlinkSecond, TypeOK, Marked, End
<1>12. CASE PairFails(a) \/ PairRestore(a)
  BY <1>0, <1>3, <1>12 DEF PairFails, PairRestore, TypeOK, Marked, files
<1> QED BY <1>1, <1>2, <1>4, <1>6, <1>7, <1>8, <1>9, <1>10, <1>11, <1>12 DEF ApprovePair

\* No step takes back a line that was to stay.
LEMMA StepLinesLast ==
  ASSUME IInv, OneCommand, Pairs, [Next]_vars
  PROVE  LinesLast
<1>1. CASE \/ UNCHANGED vars
           \/ \E g \in Grounds : Reground(g)
           \/ \E t \in Targets : StageDraft(t) \/ CopyDraft(t)
  BY <1>1, CrateApart DEF StageDraft, CopyDraft, LinesLast, Lasting
<1> QED BY <1>1, StepIs, LinesStayApprove, LinesStayPair DEF Pairs

\* A file with its line in the log keeps it.
LEMMA OnLogStays ==
  ASSUME LinesLast, NEW t \in Targets, NEW f, OnLog(t, f),
         <<t, f>> \in unlogged => <<t, f>> \in unlogged'
  PROVE  OnLog(t, f)'
<1>1. KeptReadable' => KeptReadable
  BY DEF LinesLast, KeptReadable
<1> QED BY <1>1 DEF OnLog, LinesLast

\* With one process, what it has replaced is what is touched.
LEMMA UntouchedAlone ==
  ASSUME OneCommand, NEW a \in Actors
  PROVE  \A t : /\ Untouched(t) <=> (pc[a] \in Replacing =>
                     \A n \in 1..2 : n <= job[a].done => t # job[a].tgts[n])
                /\ Untouched(t)' <=> (pc'[a] \in Replacing =>
                     \A n \in 1..2 : n <= job'[a].done => t # job'[a].tgts[n])
  BY OthersAlone DEF Untouched

\* The files of a replacing command that it has not reached are as they were.
LEMMA LogSteady ==
  ASSUME OneCommand, NEW a \in Actors, LogInv, LinesLast, unlogged \subseteq unlogged',
         \A t \in Targets : Untouched(t)' => Untouched(t) /\ target'[t] = target[t],
         pc'[a] \in Replacing /\ job'[a].orig # <<>> =>
           /\ pc[a] \in Replacing /\ job'[a].orig = job[a].orig
           /\ job'[a].tgts = job[a].tgts /\ \A n \in 1..2 : job[a].tgts[n] \in Targets
  PROVE  LogInv'
<1>0. \A t \in Targets : \A f : OnLog(t, f) => OnLog(t, f)'
  BY OnLogStays
<1>1. ASSUME NEW t \in Targets, Untouched(t)' PROVE OnLog(t, target[t])'
  <2>1. OnLog(t, target[t]) /\ target'[t] = target[t]
    BY <1>1 DEF LogInv
  <2> DEFINE f == target[t]
  <2>2. \A g : OnLog(t, g) => OnLog(t, g)'
    BY <1>0
  <2> QED BY <2>1, <2>2 DEF OnLog
<1>2. ASSUME pc'[a] \in Replacing, job'[a].orig # <<>>, NEW n \in 1..2
      PROVE  OnLog(job[a].tgts[n], job[a].orig[n])'
  <2>1. /\ OnLog(job[a].tgts[n], job[a].orig[n]) /\ job[a].tgts[n] \in Targets
        /\ job'[a].orig = job[a].orig /\ job'[a].tgts = job[a].tgts
    BY <1>2 DEF LogInv
  <2>2. \A t \in Targets : \A g : OnLog(t, g) => OnLog(t, g)'
    BY <1>0
  <2> QED BY <2>1, <2>2 DEF OnLog
<1>3. \A b \in Actors : b = a
  BY OthersAlone
<1> QED BY <1>1, <1>2, <1>3 DEF LogInv

\* What a command replaced has its line, if it is still replaced.
LEMMA TouchedLogged ==
  ASSUME IInv, NEW a \in Actors, PairOf(a), pc[a] \in Replacing, NEW n \in 1..2, n <= job[a].done
  PROVE  /\ job[a].orig # <<>> /\ job[a].tgts[n] \in Targets
         /\ target[job[a].tgts[n]] = DocRead(a, n)
         /\ job[a].mark + n \in DOMAIN log
         /\ KeptReadable => log[job[a].mark + n] = EntryFor(a, n)
<1>0. /\ ShapeOf(a) /\ TypeOK /\ job[a].done \in 0..3 /\ job[a].mark \in Nat
      /\ log \in Seq(LogLine) /\ Len(log) = job[a].mark + 2 /\ job[a].orig \in Seq(Content)
  BY DEF IInv, Shape, TypeOK, Jobs, PairOf, Replacing, Logged, Marked
<1>1. job[a].orig # <<>>
  <2>1. job[a].done > 0
    BY <1>0
  <2>2. Len(job[a].orig) = 2
    BY <1>0, <2>1 DEF ShapeOf
  <2>3. \A s \in Seq(Content) : Len(s) = 2 => s # <<>>
    OBVIOUS
  <2> QED BY <1>0, <2>2, <2>3
<1>2. job[a].tgts[n] \in Targets
  BY WrittenPair DEF IInv, Replacing, PairSteps
<1>3. target[job[a].tgts[n]] = DocRead(a, n)
  BY <1>1 DEF PairOf
<1>4. job[a].mark + n \in DOMAIN log
  BY <1>0
<1>5. KeptReadable => log[job[a].mark + n] = EntryFor(a, n)
  BY DEF PairOf, Replacing, Logged, Marked
<1> QED BY <1>1, <1>2, <1>3, <1>4, <1>5

\* A command that ends with its targets replaced leaves their lines.
LEMMA LogEndReplaced ==
  ASSUME IInv, OneCommand, NEW a \in Actors, PairOf(a), LogInv, LinesLast,
         pc[a] \in Replacing, pc'[a] = "idle", log' = log, target' = target, unlogged' = unlogged
  PROVE  LogInv'
<1>1. ASSUME NEW t \in Targets PROVE OnLog(t, target[t])'
  <2>1. CASE Untouched(t)
    <3>1. OnLog(t, target[t])
      BY <2>1 DEF LogInv
    <3>2. \A g : OnLog(t, g) => OnLog(t, g)'
      BY OnLogStays
    <3> QED BY <3>1, <3>2 DEF OnLog
  <2>2. CASE ~Untouched(t)
    <3>1. PICK n \in 1..2 : n <= job[a].done /\ t = job[a].tgts[n]
      BY <2>2, UntouchedAlone
    <3>2. /\ target[t] = DocRead(a, n) /\ job[a].mark + n \in DOMAIN log
          /\ KeptReadable => log[job[a].mark + n] = EntryFor(a, n)
      BY <3>1, TouchedLogged
    <3>3. KeptReadable' => KeptReadable
      BY DEF LinesLast, KeptReadable
    <3>4. \A k : Lasting(k)'
      BY OthersAlone DEF Lasting, Marked
    <3>5. EntryFor(a, n) = [target |-> t, reviewer |-> target[t].reviewer]
      BY <3>1, <3>2 DEF EntryFor, DocRead
    <3>6. KeptReadable' => log'[job[a].mark + n] = [target |-> t, reviewer |-> target'[t].reviewer]
      BY <3>2, <3>3, <3>5
    <3>7. job[a].mark + n \in DOMAIN log'
      BY <3>2
    <3> QED BY <3>4, <3>6, <3>7 DEF OnLog
  <2> QED BY <2>1, <2>2
<1>2. \A b \in Actors : pc'[b] \notin Replacing
  BY OthersAlone DEF Replacing
<1> QED BY <1>1, <1>2 DEF LogInv

\* A single approval logs what it wrote, or is on record as cut short.
LEMMA ApproveLogged ==
  ASSUME IInv, IInv', OneCommand, NEW a \in Actors, LogInv, LinesLast, Approve(a)
  PROVE  LogInv'
<1>0. TypeOK /\ ShapeOf(a)
  BY DEF IInv, Shape
<1>1. pc[a] \notin Replacing /\ pc'[a] \notin Replacing
  BY <1>0 DEF Approve, ApproveSelect, ApproveRead, ApproveTruncate, ApproveWrite,
         ApproveUnlink, ApproveLog, ApproveFails, Goto, End, TypeOK, Replacing, SingleSteps
<1>2. (\A t \in Targets : Untouched(t) /\ Untouched(t)') /\ \A b \in Actors : b = a
  BY <1>1, UntouchedAlone, OthersAlone
<1>3. \A t \in Targets : OnLog(t, target[t])
  BY <1>2 DEF LogInv
<1>4. ASSUME \A t \in Targets : OnLog(t, target[t])' PROVE LogInv'
  BY <1>1, <1>2, <1>4 DEF LogInv
<1>5. CASE target' = target /\ unlogged' = unlogged
  <2>1. \A t \in Targets : \A g : OnLog(t, g) => OnLog(t, g)'
    BY <1>5, OnLogStays
  <2>2. \A t \in Targets : OnLog(t, target[t])'
    BY <1>3, <1>5, <2>1 DEF OnLog
  <2> QED BY <1>4, <2>2
<1>6. CASE ApproveTruncate(a)
  <2>1. unlogged' = unlogged /\ target' = [target EXCEPT ![job[a].tgts[1]] = Torn]
    BY <1>6 DEF ApproveTruncate, history
  <2>2. \A t \in Targets : \A g : OnLog(t, g) => OnLog(t, g)'
    BY <2>1, OnLogStays
  <2>3. ASSUME NEW t \in Targets PROVE OnLog(t, target[t])'
    <3>1. target'[t] = target[t] \/ target'[t] = Torn
      BY <1>0, <2>1 DEF TypeOK
    <3>2. Torn \notin Doc
      BY ContentAssumption
    <3>3. OnLog(t, target[t]) => OnLog(t, target[t])' \/ target'[t] = Torn
      BY <2>2, <3>1 DEF OnLog
    <3>4. target'[t] = Torn => OnLog(t, target[t])'
      BY <3>2 DEF OnLog
    <3> QED BY <1>3, <3>3, <3>4
  <2> QED BY <1>4, <2>3
<1>7. CASE ApproveWrite(a)
  <2>1. /\ unlogged' = unlogged \cup {<<job[a].tgts[1], DocRead(a, 1)>>}
        /\ target' = [target EXCEPT ![job[a].tgts[1]] = DocRead(a, 1)]
    BY <1>7 DEF ApproveWrite
  <2>2. \A t \in Targets : \A g : OnLog(t, g) => OnLog(t, g)'
    BY <2>1, OnLogStays
  <2>3. ASSUME NEW t \in Targets PROVE OnLog(t, target[t])'
    <3>1. CASE t = job[a].tgts[1]
      <4>1. target'[t] = DocRead(a, 1)
        BY <1>0, <2>1, <3>1 DEF TypeOK
      <4>2. <<t, target'[t]>> \in unlogged'
        BY <2>1, <3>1, <4>1
      <4> QED BY <4>2 DEF OnLog
    <3>2. CASE t # job[a].tgts[1]
      <4>1. target'[t] = target[t]
        BY <1>0, <2>1, <3>2 DEF TypeOK
      <4> QED BY <1>3, <2>2, <4>1 DEF OnLog
    <3> QED BY <3>1, <3>2
  <2> QED BY <1>4, <2>3
<1>8. CASE ApproveLog(a)
  <2>1. /\ unlogged' = unlogged \ {<<job[a].tgts[1], DocRead(a, 1)>>}
        /\ target' = target /\ log' = Appended(log, <<EntryFor(a, 1)>>)
        /\ pc'[a] = "idle" /\ pc[a] = "log"
    BY <1>0, <1>8 DEF ApproveLog, End, TypeOK
  <2>2. ASSUME NEW t \in Targets PROVE OnLog(t, target[t])'
    <3>1. CASE ~(t = job[a].tgts[1] /\ target[t] = DocRead(a, 1))
      <4>1. <<t, target[t]>> \in unlogged => <<t, target[t]>> \in unlogged'
        BY <2>1, <3>1
      <4>2. \A g : OnLog(t, g) /\ (<<t, g>> \in unlogged => <<t, g>> \in unlogged') => OnLog(t, g)'
        BY OnLogStays
      <4> QED BY <1>3, <2>1, <4>1, <4>2 DEF OnLog
    <3>2. CASE t = job[a].tgts[1] /\ target[t] = DocRead(a, 1)
      <4>1. log \in Seq(LogLine) /\ EntryFor(a, 1) \in Entry /\ Damaged \in LogLine
        <5>1. job[a].tgts[1] \in Targets
          BY <1>0, <2>1, WrittenSingle DEF ValidatedSingle, IInv
        <5>2. job[a].by \in Reviewers
          BY <1>0, <2>1 DEF ShapeOf
        <5> QED BY <1>0, <5>1, <5>2 DEF TypeOK, EntryFor, Entry, LogLine
      <4> DEFINE new == <<EntryFor(a, 1)>>
      <4>2. new \in Seq(Entry) /\ new \in Seq(LogLine) /\ new # <<>> /\ Len(new) = 1 /\ new[1] = EntryFor(a, 1)
        BY <4>1 DEF LogLine
      <4> HIDE DEF new
      <4>3. log' = Appended(log, new)
        BY <2>1 DEF new
      <4>4. ASSUME KeptReadable' PROVE Len(log) + 1 \in DOMAIN log' /\ log'[Len(log) + 1] = EntryFor(a, 1)
        <5>1. /\ Appended(log, new) \in Seq(LogLine)
              /\ Len(Appended(log, new)) = Len(log) + Len(new)
              /\ \A k \in DOMAIN log : Appended(log, new)[k] = log[k]
          BY <4>1, <4>2, AppendedKeeps
        <5>2. \A k \in DOMAIN log : k \in DOMAIN log'
          BY <4>1, <4>2, <4>3, <5>1
        <5>3. \A k \in DOMAIN log : Lasting(k)
          BY <2>1, LastingAlone DEF Marked
        <5>4. Readable(log)
          BY <4>4, <5>3 DEF LinesLast, KeptReadable, Readable
        <5>5. Fragment \notin Entry /\ Damaged \notin Entry
          BY LineAssumption
        <5>6. log \in Seq(Entry \cup {Fragment, Damaged})
          BY <4>1 DEF LogLine
        <5>7. Appended(log, new) = log \o new
          BY <4>2, <5>4, <5>5, <5>6, ReadableGrows
        <5>8. (log \o new)[Len(log) + 1] = new[1]
          <6>1. 1 \in 1..Len(new)
            BY <4>2
          <6> QED BY <4>1, <4>2, <6>1, ConcatNew
        <5>9. Len(log) + 1 \in DOMAIN log'
          BY <4>1, <4>2, <4>3, <5>1
        <5> QED BY <4>2, <4>3, <5>7, <5>8, <5>9
      <4>5. \A k : Lasting(k)'
        BY <2>1, OthersAlone DEF Lasting, Marked
      <4>6. EntryFor(a, 1) = [target |-> t, reviewer |-> target'[t].reviewer]
        BY <2>1, <3>2 DEF EntryFor, DocRead
      <4> QED BY <4>4, <4>5, <4>6 DEF OnLog
    <3> QED BY <3>1, <3>2
  <2> QED BY <1>4, <2>2
<1> QED BY <1>5, <1>6, <1>7, <1>8 DEF Approve, ApproveSelect, ApproveRead, ApproveUnlink, ApproveFails, files, history

\* A pair approval logs before it replaces, and restores what was logged.
LEMMA PairLogged ==
  ASSUME IInv, OneCommand, NEW a \in Actors, PairOf(a), LogInv, LinesLast, ApprovePair(a)
  PROVE  LogInv'
<1>0. TypeOK /\ ShapeOf(a) /\ job[a] \in Jobs /\ \A b \in Actors : b = a
  BY OthersAlone DEF IInv, Shape, TypeOK
<1>u. \A t : /\ Untouched(t) <=> (pc[a] \in Replacing =>
                     \A n \in 1..2 : n <= job[a].done => t # job[a].tgts[n])
             /\ Untouched(t)' <=> (pc'[a] \in Replacing =>
                     \A n \in 1..2 : n <= job'[a].done => t # job'[a].tgts[n])
  BY UntouchedAlone
<1>t. pc[a] \in Replacing => \A n \in 1..2 : job[a].tgts[n] \in Targets
  BY WrittenPair DEF Replacing, PairSteps, IInv
<1>a. ASSUME pc[a] \notin Replacing, pc'[a] \notin Replacing, target' = target, unlogged' = unlogged
      PROVE  LogInv'
  <2>1. \A t \in Targets : Untouched(t)' => Untouched(t) /\ target'[t] = target[t]
    BY <1>a, <1>u
  <2> QED BY <1>a, <2>1, LogSteady
<1>b. ASSUME pc[a] \in Replacing, pc'[a] \in Replacing, target' = target, unlogged' = unlogged,
             job'[a].orig = job[a].orig, job'[a].tgts = job[a].tgts, job[a].done <= job'[a].done, job'[a].done \in Nat
      PROVE  LogInv'
  <2>1. \A t \in Targets : Untouched(t)' => Untouched(t) /\ target'[t] = target[t]
    <3>1. job[a].done \in Nat
      BY <1>0 DEF Jobs
    <3> QED BY <1>b, <1>u, <3>1
  <2> QED BY <1>b, <1>t, <2>1, LogSteady
<1>1. ASSUME NEW i \in Ids, NEW k \in {"debt", "exemption"}, NEW r \in Reviewers, PairSelect(a, i, k, r)
      PROVE LogInv'
  BY <1>0, <1>1, <1>a DEF PairSelect, Goto, TypeOK, Replacing, files, history
<1>2. CASE PairRead(a)
  BY <1>0, <1>2, <1>a DEF PairRead, Goto, End, TypeOK, Replacing, files, history
<1>3. CASE PairValidate(a) \/ PairMark(a) \/ PairAppend(a)
  BY <1>0, <1>3, <1>a DEF PairValidate, PairMark, PairAppend, Goto, End, TypeOK, Replacing, files, history
<1>4. CASE PairAppendFails(a) \/ PairRefused(a) \/ PairTruncate(a)
  BY <1>0, <1>4, <1>a DEF PairAppendFails, PairRefused, PairTruncate, End, TypeOK, Replacing, files, history
<1>5. CASE PairStage(a)
  <2>1. /\ pc[a] = "pair_stage" /\ pc'[a] = "replace_1" /\ job'[a].tgts = job[a].tgts
        /\ job'[a].orig = <<target[job[a].tgts[1]], target[job[a].tgts[2]]>>
        /\ target' = target /\ unlogged' = unlogged
    BY <1>0, <1>5 DEF PairStage, Goto, TypeOK, Jobs, files, history
  <2>2. \A n \in 1..2 : job[a].tgts[n] \in Targets
    BY <2>1, WrittenPair DEF PairSteps, IInv
  <2>3. \A t \in Targets : OnLog(t, target[t])
    <3>1. \A t \in Targets : Untouched(t)
      BY <1>u, <2>1 DEF Replacing
    <3> QED BY <3>1 DEF LogInv
  <2>4. \A t \in Targets : \A g : OnLog(t, g) => OnLog(t, g)'
    BY <2>1, OnLogStays
  <2>5. \A t \in Targets : OnLog(t, target[t])'
    BY <2>1, <2>3, <2>4 DEF OnLog
  <2>6. \A n \in 1..2 : OnLog(job[a].tgts[n], job[a].orig[n])'
    <3>1. \A n \in 1..2 : job'[a].orig[n] = target'[job'[a].tgts[n]] /\ job'[a].tgts[n] \in Targets
      BY <2>1, <2>2
    <3> QED BY <2>5, <3>1 DEF OnLog
  <2> QED BY <1>0, <2>5, <2>6 DEF LogInv
<1>6. ASSUME NEW m \in 1..2, PairReplace(a, m) PROVE LogInv'
  <2>1. /\ pc[a] = <<"replace_1", "replace_2">>[m] /\ pc'[a] = <<"replace_2", "unlink_1">>[m]
        /\ job'[a].tgts = job[a].tgts
        /\ job'[a].orig = job[a].orig
        /\ job'[a].done = m /\ unlogged' = unlogged
        /\ target' = [target EXCEPT ![job[a].tgts[m]] = DocRead(a, m)]
    BY <1>0, <1>6 DEF PairReplace, Goto, TypeOK, Jobs, history
  <2>2. pc[a] \in Replacing /\ pc'[a] \in Replacing
    BY <2>1 DEF Replacing
  <2>3. job[a].done = m - 1
    BY <2>1 DEF PairOf
  <2>4. ASSUME NEW t \in Targets, Untouched(t)' PROVE Untouched(t) /\ target'[t] = target[t]
    <3>1. \A n \in 1..2 : n <= m => t # job[a].tgts[n]
      BY <1>u, <2>1, <2>2, <2>4
    <3>2. t # job[a].tgts[m]
      BY <3>1
    <3>3. target'[t] = target[t]
      BY <1>0, <2>1, <3>2 DEF TypeOK
    <3>4. Untouched(t)
      BY <1>u, <2>3, <3>1
    <3> QED BY <3>3, <3>4
  <2> QED BY <1>t, <2>1, <2>2, <2>4, LogSteady
<1>7. CASE PairUnlinkFirst(a)
  <2>1. CASE Goto(a, "restore") /\ UNCHANGED <<draft, job>>
    <3>1. /\ pc[a] \in Replacing /\ pc'[a] \in Replacing /\ job' = job
          /\ target' = target /\ unlogged' = unlogged
      BY <1>0, <1>7, <2>1 DEF PairUnlinkFirst, Goto, TypeOK, Replacing, history
    <3>2. job[a].done <= job'[a].done /\ job'[a].done \in Nat
      BY <1>0, <3>1 DEF Jobs
    <3> QED BY <1>b, <3>1, <3>2
  <2>2. CASE Goto(a, "unlink_2") /\ job' = [job EXCEPT ![a].done = 3]
    <3>1. /\ pc[a] \in Replacing /\ pc'[a] \in Replacing
          /\ job'[a].orig = job[a].orig /\ job'[a].tgts = job[a].tgts /\ job'[a].done = 3
          /\ target' = target /\ unlogged' = unlogged
      BY <1>0, <1>7, <2>2 DEF PairUnlinkFirst, Goto, TypeOK, Replacing, history, Jobs
    <3>2. job[a].done <= job'[a].done /\ job'[a].done \in Nat
      BY <1>0, <3>1 DEF Jobs
    <3> QED BY <1>b, <3>1, <3>2
  <2> QED BY <1>7, <2>1, <2>2 DEF PairUnlinkFirst
<1>8. CASE PairUnlinkSecond(a)
  <2>1. CASE End(a)
    <3>1. /\ pc[a] \in Replacing /\ pc'[a] = "idle"
          /\ log' = log /\ target' = target /\ unlogged' = unlogged
      BY <1>0, <1>8, <2>1 DEF PairUnlinkSecond, End, TypeOK, Replacing
    <3> QED BY <3>1, LogEndReplaced
  <2>2. CASE Goto(a, "restore") /\ UNCHANGED <<draft, completed, job>>
    <3>1. /\ pc[a] \in Replacing /\ pc'[a] \in Replacing /\ job' = job
          /\ target' = target /\ unlogged' = unlogged
      BY <1>0, <1>8, <2>2 DEF PairUnlinkSecond, Goto, TypeOK, Replacing
    <3>2. job[a].done <= job'[a].done /\ job'[a].done \in Nat
      BY <1>0, <3>1 DEF Jobs
    <3> QED BY <1>b, <3>1, <3>2
  <2> QED BY <1>8, <2>1, <2>2 DEF PairUnlinkSecond
<1>9. CASE PairFails(a)
  <2>1. /\ pc[a] \in Replacing \cup {"pair_stage"} /\ pc'[a] \in Replacing /\ job' = job
        /\ target' = target /\ unlogged' = unlogged
    BY <1>0, <1>9 DEF PairFails, Goto, TypeOK, Replacing, files, history
  <2>2. CASE pc[a] \in Replacing
    <3>1. job[a].done <= job'[a].done /\ job'[a].done \in Nat
      BY <1>0, <2>1 DEF Jobs
    <3> QED BY <1>b, <2>1, <2>2, <3>1
  <2>3. CASE pc[a] = "pair_stage"
    <3>1. job[a].orig = <<>> /\ job[a].done = 0
      BY <2>3 DEF PairOf, PairSteps, Replacing
    <3>2. \A t \in Targets : Untouched(t)' => Untouched(t) /\ target'[t] = target[t]
      BY <1>u, <2>1, <2>3 DEF Replacing
    <3> QED BY <2>1, <3>1, <3>2, LogSteady
  <2> QED BY <2>1, <2>2, <2>3
<1>10. CASE PairRestore(a)
  <2>1. pc[a] = "restore" /\ pc'[a] = "truncate" /\ unlogged' = unlogged
    BY <1>0, <1>10 DEF PairRestore, Goto, TypeOK, history
  <2>2. pc[a] \in Replacing /\ pc'[a] \notin Replacing
    BY <2>1 DEF Replacing
  <2> DEFINE restored == {p \in 1..2 : p <= job[a].done}
  <2>3. ASSUME NEW t \in Targets PROVE OnLog(t, target[t])'
    <3>0. \A g : OnLog(t, g) => OnLog(t, g)'
      BY <2>1, OnLogStays
    <3>1. CASE Untouched(t)
      <4>1. OnLog(t, target[t])
        BY <3>1 DEF LogInv
      <4>2. ~\E n \in restored : t = job[a].tgts[n]
        BY <1>u, <2>2, <3>1
      <4>3. target'[t] = target[t]
        BY <1>10, <4>2 DEF PairRestore
      <4> QED BY <3>0, <4>1, <4>3 DEF OnLog
    <3>2. CASE ~Untouched(t)
      <4>1. PICK n \in 1..2 : n <= job[a].done /\ t = job[a].tgts[n]
        BY <1>u, <3>2
      <4>2. job[a].orig # <<>>
        BY <2>2, <4>1, TouchedLogged
      <4> DEFINE m == CHOOSE p \in restored : t = job[a].tgts[p]
      <4>3. m \in restored /\ t = job[a].tgts[m]
        BY <4>1
      <4>4. target'[t] = job[a].orig[m]
        <5>1. \E p \in restored : t = job[a].tgts[p]
          BY <4>1
        <5> QED BY <1>10, <5>1 DEF PairRestore
      <4> HIDE DEF m
      <4>5. m \in 1..2
        BY <4>3
      <4>6. OnLog(job[a].tgts[m], job[a].orig[m])
        BY <2>2, <4>2, <4>5 DEF LogInv
      <4>7. OnLog(t, job[a].orig[m])
        BY <4>3, <4>6
      <4> QED BY <3>0, <4>4, <4>7 DEF OnLog
    <3> QED BY <3>1, <3>2
  <2> QED BY <1>0, <2>2, <2>3 DEF LogInv
<1> QED BY <1>1, <1>2, <1>3, <1>4, <1>5, <1>6, <1>7, <1>8, <1>9, <1>10 DEF ApprovePair

\* Every step of a command that runs alone keeps what stands on the log.
LEMMA StepLogged == IInv /\ IInv' /\ OneCommand /\ Pairs /\ LogInv /\ [Next]_vars => LogInv'
<1> SUFFICES ASSUME IInv, IInv', OneCommand, Pairs, LogInv, [Next]_vars PROVE LogInv'
  OBVIOUS
<1>0. LinesLast
  BY StepLinesLast
<1>1. ASSUME NEW a \in Actors, Approve(a) PROVE LogInv'
  BY <1>0, <1>1, ApproveLogged
<1>2. ASSUME NEW a \in Actors, ApprovePair(a) PROVE LogInv'
  BY <1>0, <1>2, PairLogged DEF Pairs
<1>3. ASSUME NEW a \in Actors, Crash(a) PROVE LogInv'
  <2>0. TypeOK /\ PairOf(a)
    BY DEF IInv, Pairs
  <2>1. pc'[a] = "idle" /\ target' = target /\ unlogged' = unlogged
    BY <1>3, <2>0 DEF Crash, End, TypeOK, history
  <2>2. CASE pc[a] \in Replacing
    <3>1. log' = log
      BY <1>3, <2>2 DEF Crash, CutShort, Replacing
    <3> QED BY <1>0, <2>0, <2>1, <2>2, <3>1, LogEndReplaced
  <2>3. CASE pc[a] \notin Replacing
    <3>1. \A t \in Targets : Untouched(t)' => Untouched(t) /\ target'[t] = target[t]
      BY <2>1, <2>3, UntouchedAlone
    <3>2. pc'[a] \notin Replacing
      BY <2>1 DEF Replacing
    <3> QED BY <1>0, <2>1, <3>1, <3>2, LogSteady
  <2> QED BY <2>2, <2>3
<1>4. CASE \/ UNCHANGED vars
           \/ \E g \in Grounds : Reground(g)
           \/ \E t \in Targets : StageDraft(t) \/ CopyDraft(t)
  <2>1. pc' = pc /\ job' = job /\ log' = log /\ target' = target /\ unlogged' = unlogged
    BY <1>4, CrateApart DEF StageDraft, CopyDraft
  <2>2. KeptReadable' = KeptReadable /\ (\A k : Lasting(k)' = Lasting(k)) /\ \A t : Untouched(t)' = Untouched(t)
    BY <2>1 DEF KeptReadable, Lasting, Untouched
  <2> QED BY <2>1, <2>2 DEF LogInv, OnLog
<1> QED BY <1>1, <1>2, <1>3, <1>4, StepIs

\* Nothing stands at first.
LEMMA InitLogged == Init => LogInv
  BY ContentAssumption DEF Init, LogInv, OnLog, Replacing

\* With no command running, what stands promoted has its line in a readable log,
\* but for single approvals cut short behind their write: a pair that fails or
\* dies at any point leaves nothing promoted that no line names.
THEOREM PromotionsLogged ==
  ASSUME OneCommand
  PROVE  Spec => []PromotedIsLogged
<1>1. IInv /\ LogInv => PromotedIsLogged
  <2> SUFFICES ASSUME LogInv, AtRest, Readable(log), NEW t \in Targets,
                      target[t] \in Doc, <<t, target[t]>> \notin unlogged
               PROVE  \E k \in DOMAIN log : log[k] = [target |-> t, reviewer |-> target[t].reviewer]
    BY DEF PromotedIsLogged
  <2>1. Untouched(t)
    BY DEF AtRest, Untouched, Replacing
  <2>2. KeptReadable
    BY DEF Readable, KeptReadable
  <2> QED BY <2>1, <2>2 DEF LogInv, OnLog
<1>2. IInv /\ IInv' /\ Pairs /\ LogInv /\ [Next]_vars => LogInv'
  BY StepLogged
<1>3. IInv /\ Pairs /\ [Next]_vars => Pairs'
  BY StepPairs
<1> QED BY <1>1, <1>2, <1>3, InitIInv, StepIInv, InitPairs, InitLogged, PTL DEF Spec

-----------------------------------------------------------------------------
(* What stands uncovered has a record on the way.                          *)

Covers == {"debt", "exemption"}

\* A record that counts for coverage.
Good(file) == file \in Doc /\ file.body \in WellFormed

\* Edges that have a boundary contract, or had one that was taken away.
Bounded == ground.edges \cup retracted

\* The record of kind k for i stands, is staged, or is not needed, or was not
\* before its contract went.  None of it depends on the evidence there is.
RecordAt(k, i) == Good(target[<<k, i>>])
Provided(k, i, body) ==
  RecordAt(k, i) \/ draft[<<k, i>>] # None \/ (k = "exemption" /\ EdgeOf[body] \in Bounded)
Ready(i, body) == \A k \in Covers : Resolves(k, body) => Provided(k, i, body)

\* What stands at an interaction's target is ready, linked to evidence or not.
StandsReady(i) == Good(target[Interaction(i)]) => Ready(i, target[Interaction(i)].body)

\* A context names no coverage that is not on file, or was when it was read.
Sound(ctx) ==
  /\ \A i \in Ids : i \in ctx.debts => RecordAt("debt", i)
  /\ \A i \in Ids : i \in ctx.exempt => RecordAt("exemption", i)
  /\ ctx.edges \subseteq Bounded

\* What a process may write leaves nothing uncovered and unfinished.
ReadyOf(a) ==
  LET j == job[a] t == j.tgts[1] IN
  /\ pc[a] = "selected" => Sound(j.ctx)
  /\ pc[a] \in {"write", "torn"} /\ t[1] = "interaction" => Ready(t[2], j.read[1])
  /\ pc[a] \in {"write", "torn", "unlink"} /\ t[1] # "interaction" =>
       draft[t] # None /\ j.read[1] \in WellFormed
  /\ pc[a] = "unlink" => target[t] = DocRead(a, 1)
  /\ pc[a] \in PairSteps \ {"pair_read"} => draft[j.tgts[2]] # None
  /\ pc[a] \in ValidatedPair => Ready(t[2], j.read[1]) /\ j.read[2] \in WellFormed
  /\ pc[a] \in Replacing /\ j.orig # <<>> =>
       (j.orig[1] \in Doc /\ j.orig[1].body \in WellFormed => Ready(t[2], j.orig[1].body))

CoverInv == (\A a \in Actors : ReadyOf(a)) /\ \A i \in Ids : StandsReady(i)

\* No record is lost that does not stay staged.
RecordsKept ==
  \A k \in Covers, i \in Ids :
    Good(target[<<k, i>>]) \/ draft[<<k, i>>] # None =>
      Good(target'[<<k, i>>]) \/ draft'[<<k, i>>] # None

\* What had a contract once is remembered.
BoundedKept == Bounded \subseteq Bounded'

\* What is ready stays ready while records are kept.
LEMMA ReadyKept ==
  ASSUME RecordsKept, BoundedKept, NEW i \in Ids, NEW body, Ready(i, body)
  PROVE  Ready(i, body)'
<1>1. ASSUME NEW k \in Covers, Provided(k, i, body) PROVE Provided(k, i, body)'
  BY <1>1 DEF RecordsKept, BoundedKept, Provided, RecordAt, Good
<1> QED BY <1>1 DEF Ready

\* A context read stays sound while the targets do not move.
LEMMA SoundKept ==
  ASSUME target' = target, BoundedKept, NEW ctx, Sound(ctx)
  PROVE  Sound(ctx)'
<1>1. \A k, i : RecordAt(k, i)' = RecordAt(k, i)
  BY DEF RecordAt, Good
<1> QED BY <1>1 DEF Sound, BoundedKept

\* What the gates read of the crate is there.
LEMMA ContextSound ==
  /\ Sound(ContextOf(target, ground))
  /\ TypeOK => ContextOf(target, ground) \in Contexts
<1>1. Sound(ContextOf(target, ground))
  BY DEF Sound, ContextOf, CoveredBy, RecordAt, Good, Bounded
<1> QED BY <1>1, ContextType DEF TypeOK

\* What stands is ready, if what is written is.
LEMMA StandingReady ==
  ASSUME RecordsKept, BoundedKept, CoverInv,
         \A i \in Ids : \/ target'[Interaction(i)] = target[Interaction(i)]
                        \/ Good(target'[Interaction(i)]) => Ready(i, target'[Interaction(i)].body)
  PROVE  \A i \in Ids : StandsReady(i)'
<1> SUFFICES ASSUME NEW i \in Ids, Good(target'[Interaction(i)])
             PROVE  Ready(i, target[Interaction(i)].body)'
  BY DEF StandsReady, Good
<1> DEFINE body == target'[Interaction(i)].body
<1>1. Ready(i, body)
  BY DEF CoverInv, StandsReady
<1>2. \A b : Ready(i, b) => Ready(i, b)'
  BY ReadyKept
<1>3. Ready(i, body) => \A k \in Covers : Resolves(k, body) => Provided(k, i, target[Interaction(i)].body)'
  BY <1>2 DEF Ready
<1> QED BY <1>1, <1>3 DEF Ready

\* Coverage counted by the gates is a record that counts.
LEMMA GatesMeanReady ==
  ASSUME NEW i \in Ids, NEW body, NEW ctx \in Contexts, Sound(ctx)
  PROVE  /\ InteractionValid(i, body, ctx) => Ready(i, body)
         /\ \A k \in Covers : \A cover : PairValid(k, i, body, cover, ctx) =>
              cover \in WellFormed /\ \A c \in Covers \ {k} : Resolves(c, body) => Provided(c, i, body)
<1>1. /\ i \in ctx.debts => RecordAt("debt", i)
      /\ i \in ctx.exempt => RecordAt("exemption", i)
      /\ EdgeOf[body] \in ctx.edges => EdgeOf[body] \in Bounded
  BY DEF Sound
<1>2. InteractionValid(i, body, ctx) => Ready(i, body)
  BY <1>1 DEF InteractionValid, G15, R2, Ready, Covers, Resolves, Provided
<1>3. ASSUME NEW k \in Covers, NEW cover, PairValid(k, i, body, cover, ctx),
             NEW c \in Covers \ {k}, Resolves(c, body)
      PROVE  Provided(c, i, body)
  <2> DEFINE granted == [ctx EXCEPT !.debts  = IF k = "debt" THEN @ \cup {i} ELSE @,
                                    !.exempt = IF k = "exemption" THEN @ \cup {i} ELSE @]
  <2>1. G15(i, body, granted) /\ R2(i, body, granted)
    BY <1>3 DEF PairValid, InteractionValid
  <2>2. /\ k = "exemption" => granted.debts = ctx.debts
        /\ k = "debt" => granted.exempt = ctx.exempt
        /\ granted.edges = ctx.edges
    BY DEF Contexts
  <2> HIDE DEF granted
  <2>3. CASE k = "debt" /\ c = "exemption"
    <3>1. body \in BoundaryRequired
      BY <1>3, <2>3 DEF Resolves
    <3>2. EdgeOf[body] \in ctx.edges \/ i \in ctx.exempt
      BY <2>1, <2>2, <2>3, <3>1 DEF R2
    <3> QED BY <1>1, <2>3, <3>2 DEF Provided
  <2>4. CASE k = "exemption" /\ c = "debt"
    <3>1. body \in NonPairwise
      BY <1>3, <2>4 DEF Resolves
    <3>2. i \in ctx.debts
      BY <2>1, <2>2, <2>4, <3>1 DEF G15
    <3> QED BY <1>1, <2>4, <3>2 DEF Provided
  <2> QED BY <2>3, <2>4 DEF Covers
<1>4. \A k \in Covers : \A cover : PairValid(k, i, body, cover, ctx) => cover \in WellFormed
  BY DEF PairValid, CoverValid
<1> QED BY <1>2, <1>3, <1>4

\* An interaction and the records that may cover it are different files.
LEMMA CoverTargets ==
  /\ \A k \in Covers, i \in Ids : <<k, i>> \in Targets /\ <<k, i>> # Interaction(i)
  /\ \A i \in Ids : Interaction(i) \in Targets /\ Interaction(i)[1] = "interaction" /\ Interaction(i)[2] = i
  /\ \A i, j \in Ids, k \in Covers : Interaction(i) # <<k, j>>
  /\ \A t \in Targets : t[1] = "interaction" => t = Interaction(t[2]) /\ t[2] \in Ids
  /\ \A t \in Targets : t[1] # "interaction" => t[1] \in Covers /\ t[2] \in Ids /\ t = <<t[1], t[2]>>
  BY DEF Covers, Targets, Kinds, Interaction

\* What a pair approval works on.
LEMMA PairTargets ==
  ASSUME NEW a \in Actors, PairOf(a), pc[a] \in PairSteps
  PROVE  \E i \in Ids, k \in Covers : job[a].tgts[1] = Interaction(i) /\ job[a].tgts[2] = <<k, i>>
  BY DEF PairOf, Covers

\* A single approval loses no record: its draft goes when its target stands.
LEMMA ApproveRecords ==
  ASSUME IInv, NEW a \in Actors, ReadyOf(a), Approve(a)
  PROVE  RecordsKept
<1>0. TypeOK
  BY DEF IInv
<1>1. CASE target' = target /\ draft' = draft
  BY <1>1 DEF RecordsKept
<1>2. CASE ApproveTruncate(a) \/ ApproveWrite(a)
  <2>1. pc[a] \in {"write", "torn"} /\ draft' = draft
    BY <1>2 DEF ApproveTruncate, ApproveWrite
  <2>2. job[a].tgts[1] \in Targets
    BY <2>1, WrittenSingle DEF ValidatedSingle, IInv
  <2>3. ASSUME NEW t \in Targets, t # job[a].tgts[1] PROVE target'[t] = target[t]
    BY <1>0, <1>2, <2>3 DEF ApproveTruncate, ApproveWrite, TypeOK
  <2>4. ASSUME NEW k \in Covers, NEW i \in Ids, <<k, i>> = job[a].tgts[1] PROVE draft[<<k, i>>] # None
    <3>1. job[a].tgts[1][1] # "interaction"
      BY <2>4 DEF Covers
    <3> QED BY <2>1, <2>4, <3>1 DEF ReadyOf
  <2>5. \A k \in Covers, i \in Ids : <<k, i>> \in Targets
    BY CoverTargets
  <2> QED BY <2>1, <2>3, <2>4, <2>5 DEF RecordsKept
<1>3. CASE ApproveUnlink(a) /\ draft' # draft
  <2>1. /\ pc[a] = "unlink" /\ target' = target
        /\ draft' = [draft EXCEPT ![job[a].tgts[1]] = None]
    BY <1>3 DEF ApproveUnlink
  <2>2. DocRead(a, 1) \in Doc
    BY <2>1, WrittenSingle DEF ValidatedSingle, IInv
  <2>3. ASSUME NEW k \in Covers, NEW i \in Ids, <<k, i>> = job[a].tgts[1] PROVE Good(target[<<k, i>>])
    <3>1. job[a].tgts[1][1] # "interaction"
      BY <2>3 DEF Covers
    <3>2. target[<<k, i>>] = DocRead(a, 1) /\ job[a].read[1] \in WellFormed
      BY <2>1, <2>3, <3>1 DEF ReadyOf
    <3> QED BY <2>2, <3>2 DEF Good, DocRead
  <2>4. ASSUME NEW t \in Targets, t # job[a].tgts[1] PROVE draft'[t] = draft[t]
    BY <1>0, <2>1, <2>4 DEF TypeOK
  <2>5. \A k \in Covers, i \in Ids : <<k, i>> \in Targets
    BY CoverTargets
  <2> QED BY <2>1, <2>3, <2>4, <2>5 DEF RecordsKept
<1> QED BY <1>1, <1>2, <1>3 DEF Approve, ApproveSelect, ApproveRead, ApproveUnlink, ApproveLog, ApproveFails, files

\* A pair approval loses no record: rollback and success each keep a copy.
LEMMA PairRecords ==
  ASSUME IInv, NEW a \in Actors, PairOf(a), ReadyOf(a), ApprovePair(a)
  PROVE  RecordsKept
<1>0. TypeOK /\ ShapeOf(a)
  BY DEF IInv, Shape
<1>1. CASE target' = target /\ draft' = draft
  BY <1>1 DEF RecordsKept
<1>p. ASSUME pc[a] \in PairSteps \ {"pair_read"}
      PROVE  /\ draft[job[a].tgts[2]] # None
             /\ \A n \in 1..2 : job[a].tgts[n] \in Targets /\ DocRead(a, n) \in Doc
             /\ job[a].tgts[1] # job[a].tgts[2]
             /\ \A k \in Covers, i \in Ids : <<k, i>> \in Targets /\ job[a].tgts[1] # <<k, i>>
  <2>1. draft[job[a].tgts[2]] # None
    BY <1>p DEF ReadyOf
  <2>2. \A n \in 1..2 : job[a].tgts[n] \in Targets /\ DocRead(a, n) \in Doc
    BY <1>p, WrittenPair DEF IInv
  <2>3. job[a].tgts[1] # job[a].tgts[2]
    BY <1>0, <1>p DEF ShapeOf
  <2>4. \E i \in Ids : job[a].tgts[1] = Interaction(i)
    BY <1>p, PairTargets
  <2> QED BY <2>1, <2>2, <2>3, <2>4, CoverTargets
<1>2. ASSUME NEW n \in 1..2, PairReplace(a, n) PROVE RecordsKept
  <2>1. /\ pc[a] \in PairSteps \ {"pair_read"} /\ draft' = draft
        /\ target' = [target EXCEPT ![job[a].tgts[n]] = DocRead(a, n)]
    BY <1>2 DEF PairReplace, PairSteps
  <2>2. \A t \in Targets : t # job[a].tgts[n] => target'[t] = target[t]
    BY <1>0, <2>1 DEF TypeOK
  <2>3. n = 1 \/ n = 2
    OBVIOUS
  <2> QED BY <1>p, <2>1, <2>2, <2>3 DEF RecordsKept
<1>3. CASE PairUnlinkFirst(a) /\ draft' # draft
  <2>1. /\ pc[a] \in PairSteps \ {"pair_read"} /\ target' = target
        /\ draft' = [draft EXCEPT ![job[a].tgts[1]] = None]
    BY <1>3 DEF PairUnlinkFirst, PairSteps
  <2>2. \A t \in Targets : t # job[a].tgts[1] => draft'[t] = draft[t]
    BY <1>0, <2>1 DEF TypeOK
  <2> QED BY <1>p, <2>1, <2>2 DEF RecordsKept
<1>4. CASE PairUnlinkSecond(a) /\ draft' # draft
  <2>1. /\ pc[a] = "unlink_2" /\ target' = target
        /\ draft' = [draft EXCEPT ![job[a].tgts[2]] = None]
    BY <1>4 DEF PairUnlinkSecond
  <2>2. \A t \in Targets : t # job[a].tgts[2] => draft'[t] = draft[t]
    BY <1>0, <2>1 DEF TypeOK
  <2>3. Good(target[job[a].tgts[2]])
    <3>1. job[a].done = 3
      BY <1>0, <2>1 DEF ShapeOf
    <3>2. target[job[a].tgts[2]] = DocRead(a, 2)
      BY <2>1, <3>1, TouchedLogged DEF Replacing
    <3>3. DocRead(a, 2) \in Doc
      BY <1>p, <2>1 DEF PairSteps
    <3>4. job[a].read[2] \in WellFormed
      BY <2>1 DEF ReadyOf, ValidatedPair, PairSteps
    <3> QED BY <3>2, <3>3, <3>4 DEF Good, DocRead
  <2>4. \A k \in Covers, i \in Ids : <<k, i>> \in Targets
    BY CoverTargets
  <2> QED BY <2>1, <2>2, <2>3, <2>4 DEF RecordsKept
<1>5. CASE PairRestore(a)
  <2>1. pc[a] \in PairSteps \ {"pair_read"}
    BY <1>5 DEF PairRestore, PairSteps
  <2>2. \A t \in Targets : t # job[a].tgts[1] => draft'[t] = draft[t]
    BY <1>0, <1>5 DEF PairRestore, TypeOK
  <2>3. \A t \in Targets : t # job[a].tgts[1] /\ t # job[a].tgts[2] => target'[t] = target[t]
    <3> SUFFICES ASSUME NEW t \in Targets, t # job[a].tgts[1], t # job[a].tgts[2] PROVE target'[t] = target[t]
      OBVIOUS
    <3>1. ~\E n \in {p \in 1..2 : p <= job[a].done} : t = job[a].tgts[n]
      OBVIOUS
    <3> QED BY <1>5, <3>1 DEF PairRestore
  <2> QED BY <1>p, <2>1, <2>2, <2>3 DEF RecordsKept
<1> QED BY <1>1, <1>2, <1>3, <1>4, <1>5 DEF ApprovePair, PairSelect, PairRead, PairValidate, PairMark,
      PairAppend, PairAppendFails, PairStage, PairUnlinkFirst, PairUnlinkSecond, PairFails, PairRefused,
      PairTruncate, files

\* No step loses a record.
LEMMA StepRecords ==
  ASSUME IInv, Pairs, CoverInv, [Next]_vars
  PROVE  RecordsKept
<1>1. ASSUME NEW t \in Targets, StageDraft(t) \/ CopyDraft(t) PROVE RecordsKept
  <2>0. TypeOK
    BY DEF IInv
  <2>1. target' = target /\ draft'[t] # None /\ \A s \in Targets : s # t => draft'[s] = draft[s]
    <3>1. CASE StageDraft(t)
      <4>1. PICK d \in (DraftBodies(t) \cap WellFormed) \cup {Torn} : draft' = [draft EXCEPT ![t] = d]
        BY <3>1 DEF StageDraft
      <4>2. d # None
        BY BodiesAssumption, ContentAssumption
      <4> QED BY <2>0, <3>1, <4>1, <4>2 DEF StageDraft, TypeOK
    <3>2. CASE CopyDraft(t)
      <4>1. PICK d \in DraftBodies(t) : draft' = [draft EXCEPT ![t] = d]
        BY <3>2 DEF CopyDraft
      <4>2. d # None
        BY BodiesAssumption, CheckpointAssumption DEF DraftBodies
      <4> QED BY <2>0, <3>2, <4>1, <4>2 DEF CopyDraft, TypeOK
    <3> QED BY <1>1, <3>1, <3>2
  <2>2. \A k \in Covers, i \in Ids : <<k, i>> \in Targets
    BY CoverTargets
  <2> QED BY <2>1, <2>2 DEF RecordsKept
<1>2. ASSUME target' = target, draft' = draft PROVE RecordsKept
  BY <1>2 DEF RecordsKept
<1>3. CASE UNCHANGED vars \/ \E g \in Grounds : Reground(g)
  BY <1>2, <1>3, CrateApart
<1>4. CASE \E a \in Actors : Crash(a)
  BY <1>2, <1>4 DEF Crash
<1> QED BY <1>1, <1>3, <1>4, ApproveRecords, PairRecords DEF Next, Commands, CoverInv, Pairs

\* A contract that goes is remembered.
LEMMA StepBounded ==
  ASSUME [Next]_vars
  PROVE  BoundedKept
<1>1. CASE UNCHANGED crate \/ UNCHANGED vars
  BY <1>1 DEF vars, crate, BoundedKept, Bounded
<1>2. ASSUME NEW g \in Grounds, Reground(g) PROVE BoundedKept
  BY <1>2 DEF Reground, BoundedKept, Bounded
<1> QED BY <1>1, <1>2 DEF Next

\* What may change at an interaction's target is ready when it does.
LEMMA ApproveStanding ==
  ASSUME IInv, NEW a \in Actors, ReadyOf(a), Approve(a), NEW i \in Ids
  PROVE  \/ target'[Interaction(i)] = target[Interaction(i)]
         \/ Good(target'[Interaction(i)]) => Ready(i, target'[Interaction(i)].body)
<1>0. TypeOK /\ Interaction(i) \in Targets /\ Interaction(i)[1] = "interaction" /\ Interaction(i)[2] = i
  BY CoverTargets DEF IInv
<1>1. CASE ApproveTruncate(a)
  <2>1. target' = [target EXCEPT ![job[a].tgts[1]] = Torn]
    BY <1>1 DEF ApproveTruncate
  <2>2. ~Good(Torn)
    BY ContentAssumption DEF Good
  <2>3. target'[Interaction(i)] \in {target[Interaction(i)], Torn}
    BY <1>0, <2>1 DEF TypeOK
  <2> QED BY <2>2, <2>3
<1>2. CASE ApproveWrite(a)
  <2>1. target' = [target EXCEPT ![job[a].tgts[1]] = DocRead(a, 1)] /\ pc[a] = "torn"
    BY <1>2 DEF ApproveWrite
  <2>2. CASE Interaction(i) = job[a].tgts[1]
    <3>1. Ready(i, job[a].read[1])
      BY <1>0, <2>1, <2>2 DEF ReadyOf
    <3>2. target'[Interaction(i)] = DocRead(a, 1)
      BY <1>0, <2>1, <2>2 DEF TypeOK
    <3>3. target'[Interaction(i)].body = job[a].read[1]
      BY <3>2 DEF DocRead
    <3> QED BY <3>1, <3>3
  <2>3. CASE Interaction(i) # job[a].tgts[1]
    BY <1>0, <2>1, <2>3 DEF TypeOK
  <2> QED BY <2>2, <2>3
<1>3. CASE target' = target
  BY <1>3
<1> QED BY <1>1, <1>2, <1>3 DEF Approve, ApproveSelect, ApproveRead, ApproveUnlink, ApproveLog, ApproveFails, files

\* What a pair approval puts at an interaction's target is ready.
LEMMA PairStanding ==
  ASSUME IInv, NEW a \in Actors, PairOf(a), ReadyOf(a), ApprovePair(a), NEW i \in Ids
  PROVE  \/ target'[Interaction(i)] = target[Interaction(i)]
         \/ Good(target'[Interaction(i)]) => Ready(i, target'[Interaction(i)].body)
<1>0. TypeOK /\ ShapeOf(a) /\ Interaction(i) \in Targets /\ Interaction(i)[2] = i
  BY CoverTargets DEF IInv, Shape
<1>p. ASSUME pc[a] \in PairSteps, Interaction(i) = job[a].tgts[1] \/ Interaction(i) = job[a].tgts[2]
      PROVE  Interaction(i) = job[a].tgts[1] /\ job[a].tgts[1][2] = i /\ Interaction(i) # job[a].tgts[2]
  <2>1. PICK j \in Ids, k \in Covers : job[a].tgts[1] = Interaction(j) /\ job[a].tgts[2] = <<k, j>>
    BY <1>p, PairTargets
  <2>2. Interaction(i) # job[a].tgts[2]
    BY <2>1, CoverTargets
  <2> QED BY <1>0, <1>p, <2>2
<1>1. ASSUME NEW n \in 1..2, PairReplace(a, n)
      PROVE \/ target'[Interaction(i)] = target[Interaction(i)]
            \/ Good(target'[Interaction(i)]) => Ready(i, target'[Interaction(i)].body)
  <2>1. target' = [target EXCEPT ![job[a].tgts[n]] = DocRead(a, n)] /\ pc[a] \in {"replace_1", "replace_2"}
    BY <1>1 DEF PairReplace
  <2>2. CASE Interaction(i) = job[a].tgts[n]
    <3>1. Interaction(i) = job[a].tgts[1] /\ job[a].tgts[1][2] = i /\ Interaction(i) # job[a].tgts[2]
      <4>1. pc[a] \in PairSteps
        BY <2>1 DEF PairSteps
      <4>2. n = 1 \/ n = 2
        OBVIOUS
      <4> QED BY <1>p, <2>2, <4>1, <4>2
    <3>2. n = 1
      <4>1. n = 1 \/ n = 2
        OBVIOUS
      <4>2. n # 2
        BY <2>2, <3>1
      <4> QED BY <4>1, <4>2
    <3>3. Ready(i, job[a].read[1])
      BY <2>1, <3>1 DEF ReadyOf, ValidatedPair, PairSteps
    <3>4. target'[Interaction(i)].body = job[a].read[1]
      BY <1>0, <2>1, <2>2, <3>2 DEF TypeOK, DocRead
    <3> QED BY <3>3, <3>4
  <2>3. CASE Interaction(i) # job[a].tgts[n]
    BY <1>0, <2>1, <2>3 DEF TypeOK
  <2> QED BY <2>2, <2>3
<1>2. CASE PairRestore(a)
  <2>1. pc[a] = "restore"
    BY <1>2 DEF PairRestore
  <2> DEFINE restored == {p \in 1..2 : p <= job[a].done}
  <2>2. CASE \E n \in restored : Interaction(i) = job[a].tgts[n]
    <3>1. PICK n \in restored : Interaction(i) = job[a].tgts[n]
      BY <2>2
    <3>2. n \in 1..2 /\ n <= job[a].done
      BY <3>1
    <3>3. Interaction(i) = job[a].tgts[1] /\ job[a].tgts[1][2] = i /\ Interaction(i) # job[a].tgts[2]
      <4>1. pc[a] \in PairSteps
        BY <2>1 DEF PairSteps
      <4>2. n = 1 \/ n = 2
        BY <3>2
      <4> QED BY <1>p, <3>1, <4>1, <4>2
    <3>4. job[a].orig # <<>>
      BY <2>1, <3>2, TouchedLogged DEF Replacing
    <3>5. (CHOOSE p \in restored : Interaction(i) = job[a].tgts[p]) = 1
      <4>1. \A p \in restored : Interaction(i) = job[a].tgts[p] => p = 1
        BY <3>3
      <4> QED BY <2>2, <4>1
    <3>6. target'[Interaction(i)] = job[a].orig[1]
      BY <1>0, <1>2, <2>2, <3>5 DEF PairRestore
    <3>7. Good(job[a].orig[1]) => Ready(i, job[a].orig[1].body)
      BY <2>1, <3>3, <3>4 DEF ReadyOf, Replacing, Good
    <3> QED BY <3>6, <3>7
  <2>3. CASE ~\E n \in restored : Interaction(i) = job[a].tgts[n]
    BY <1>0, <1>2, <2>3 DEF PairRestore
  <2> QED BY <2>2, <2>3
<1>3. CASE target' = target
  BY <1>3
<1> QED BY <1>1, <1>2, <1>3 DEF ApprovePair, PairSelect, PairRead, PairValidate, PairMark,
      PairAppend, PairAppendFails, PairStage, PairUnlinkFirst, PairUnlinkSecond, PairFails, PairRefused,
      PairTruncate, files

\* These steps write nothing more.
LEMMA IdleReady ==
  ASSUME NEW a \in Actors, pc'[a] \in {"idle", "log", "pair_read"}
  PROVE  ReadyOf(a)'
  BY DEF ReadyOf, PairSteps, ValidatedPair, Replacing

\* A single approval holds what its validator found ready.
LEMMA ApproveReady ==
  ASSUME IInv, NEW a \in Actors, ReadyOf(a), RecordsKept, BoundedKept, Approve(a)
  PROVE  ReadyOf(a)'
<1>0. TypeOK /\ ShapeOf(a) /\ job[a] \in Jobs
  BY DEF IInv, Shape, TypeOK
<1>k. \A i \in Ids : \A b : Ready(i, b) => Ready(i, b)'
  BY ReadyKept
<1>1. ASSUME NEW t \in Targets, NEW r \in Reviewers, ApproveSelect(a, t, r) PROVE ReadyOf(a)'
  <2> DEFINE ctx == ContextOf(target, ground)
  <2>1. /\ pc'[a] = "selected" /\ job'[a].ctx = ctx /\ target' = target
    BY <1>0, <1>1 DEF ApproveSelect, Goto, TypeOK, NoJob, files
  <2>2. Sound(ctx)
    BY ContextSound
  <2> HIDE DEF ctx
  <2>3. \A c : Sound(c) => Sound(c)'
    BY <2>1, SoundKept
  <2>4. Sound(job[a].ctx)'
    BY <2>1, <2>2, <2>3 DEF Sound
  <2> QED BY <2>1, <2>4 DEF ReadyOf, PairSteps, ValidatedPair, Replacing
<1>2. CASE ApproveRead(a)
  <2>1. CASE End(a)
    BY <1>0, <2>1, IdleReady DEF End, TypeOK
  <2>2. CASE ~End(a)
    <3> DEFINE t == job[a].tgts[1]
               d == draft[t]
    <3>1. /\ pc[a] = "selected" /\ pc'[a] = "write" /\ job'[a].tgts = job[a].tgts /\ job'[a].read = <<d>>
          /\ target' = target /\ draft' = draft /\ d \in Bodies /\ Valid(t, d, job[a].ctx)
      BY <1>0, <1>2, <2>2 DEF ApproveRead, Goto, TypeOK, Jobs, files
    <3>c. job[a].ctx \in Contexts /\ Sound(job[a].ctx)
      BY <1>0, <3>1 DEF Jobs, ReadyOf
    <3>2. t \in Targets
      BY <1>0, <3>1 DEF ShapeOf, SingleSteps, Jobs
    <3>3. d # None
      BY <3>1, BodiesAssumption
    <3>4. CASE t[1] = "interaction"
      <4>1. Ready(t[2], d)
        <5>1. InteractionValid(t[2], d, job[a].ctx) /\ t[2] \in Ids
          BY <3>1, <3>2, <3>4, CoverTargets DEF Valid
        <5> QED BY <3>c, <5>1, GatesMeanReady
      <4>2. \A b : Ready(t[2], b) => Ready(t[2], b)'
        <5>1. t[2] \in Ids
          BY <3>2, <3>4, CoverTargets
        <5> QED BY <1>k, <3>1, <5>1
      <4>3. Ready(job[a].tgts[1][2], job[a].read[1])' 
        BY <3>1, <4>1, <4>2
      <4> QED BY <3>1, <3>4, <4>3 DEF ReadyOf, PairSteps, ValidatedPair, Replacing
    <3>5. CASE t[1] # "interaction"
      <4>1. d \in WellFormed
        BY <3>1, <3>5 DEF Valid, CoverValid
      <4> QED BY <3>1, <3>3, <3>5, <4>1 DEF ReadyOf, PairSteps, ValidatedPair, Replacing
    <3> QED BY <3>4, <3>5
  <2> QED BY <2>1, <2>2
<1>3. CASE ApproveTruncate(a) \/ ApproveWrite(a)
  <2>1. /\ pc[a] \in {"write", "torn"} /\ draft' = draft /\ job' = job
        /\ \/ pc[a] = "write" /\ pc'[a] = "torn"
           \/ pc[a] = "torn" /\ pc'[a] = "unlink" /\ target' = [target EXCEPT ![job[a].tgts[1]] = DocRead(a, 1)]
    BY <1>0, <1>3 DEF ApproveTruncate, ApproveWrite, Goto, TypeOK
  <2>2. job[a].tgts[1] \in Targets
    BY <2>1, WrittenSingle DEF ValidatedSingle, IInv
  <2>3. pc'[a] = "torn" /\ job[a].tgts[1][1] = "interaction" => Ready(job[a].tgts[1][2], job[a].read[1])'
    <3> SUFFICES ASSUME pc'[a] = "torn", job[a].tgts[1][1] = "interaction"
                 PROVE  Ready(job[a].tgts[1][2], job[a].read[1])'
      OBVIOUS
    <3>1. job[a].tgts[1][2] \in Ids
      BY <2>2, CoverTargets
    <3>2. Ready(job[a].tgts[1][2], job[a].read[1])
      BY <2>1 DEF ReadyOf
    <3> QED BY <1>k, <2>1, <3>1, <3>2
  <2>4. job[a].tgts[1][1] # "interaction" => draft[job[a].tgts[1]] # None /\ job[a].read[1] \in WellFormed
    BY <2>1 DEF ReadyOf
  <2>5. pc'[a] = "unlink" => target'[job'[a].tgts[1]] = DocRead(a, 1)'
    BY <1>0, <2>1, <2>2 DEF TypeOK, DocRead
  <2> QED BY <2>1, <2>3, <2>4, <2>5 DEF ReadyOf, PairSteps, ValidatedPair, Replacing
<1>4. CASE ApproveUnlink(a) \/ ApproveLog(a) \/ ApproveFails(a)
  BY <1>0, <1>4, IdleReady DEF ApproveUnlink, ApproveLog, ApproveFails, Goto, End, TypeOK
<1> QED BY <1>1, <1>2, <1>3, <1>4 DEF Approve

\* A pair approval past its validator that leaves its drafts alone.
LEMMA PairReadyStays ==
  ASSUME IInv, NEW a \in Actors, PairOf(a), ReadyOf(a), RecordsKept, BoundedKept,
         pc[a] \in ValidatedPair, pc'[a] \in ValidatedPair,
         job'[a].tgts = job[a].tgts, job'[a].read = job[a].read,
         draft'[job[a].tgts[2]] = draft[job[a].tgts[2]],
         \/ pc[a] \in Replacing /\ job'[a].orig = job[a].orig
         \/ job'[a].orig = <<>>
         \/ pc'[a] \notin Replacing
         \/ Good(job'[a].orig[1]) => Ready(job[a].tgts[1][2], job'[a].orig[1].body)
  PROVE  ReadyOf(a)'
<1>1. PICK i \in Ids : job[a].tgts[1] = Interaction(i)
  BY PairTargets DEF ValidatedPair
<1>2. job[a].tgts[1][2] = i
  BY <1>1, CoverTargets
<1>k. \A b : Ready(i, b) => Ready(i, b)'
  BY ReadyKept
<1>3. draft'[job'[a].tgts[2]] # None
  BY DEF ReadyOf, ValidatedPair
<1>4. Ready(i, job[a].read[1]) /\ job[a].read[2] \in WellFormed
  BY <1>2 DEF ReadyOf
<1>5. Ready(job[a].tgts[1][2], job[a].read[1])' /\ job'[a].read[2] \in WellFormed
  BY <1>2, <1>4, <1>k
<1>6. pc'[a] \in Replacing /\ job'[a].orig # <<>> =>
       (job'[a].orig[1] \in Doc /\ job'[a].orig[1].body \in WellFormed => Ready(job[a].tgts[1][2], job[a].orig[1].body)')
  <2> SUFFICES ASSUME pc'[a] \in Replacing, job'[a].orig # <<>>, Good(job'[a].orig[1])
               PROVE  Ready(job[a].tgts[1][2], job[a].orig[1].body)'
    BY DEF Good
  <2> DEFINE body == job'[a].orig[1].body
  <2>1. Ready(i, body)
    BY <1>2 DEF ReadyOf, Good
  <2>2. Ready(i, body) => \A k \in Covers : Resolves(k, body) => Provided(k, i, job[a].orig[1].body)'
    BY <1>k DEF Ready
  <2>3. job'[a].tgts[1][2] = i
    BY <1>2
  <2> QED BY <2>1, <2>2, <2>3 DEF Ready
<1>7. pc'[a] \in PairSteps \ {"pair_read"}
  BY DEF ValidatedPair
<1> QED BY <1>3, <1>5, <1>6, <1>7 DEF ReadyOf, ValidatedPair, PairSteps

\* A pair approval holds what its validator found ready, and what stood.
LEMMA PairReady ==
  ASSUME IInv, NEW a \in Actors, PairOf(a), ReadyOf(a), RecordsKept, BoundedKept, CoverInv, ApprovePair(a)
  PROVE  ReadyOf(a)'
<1>0. TypeOK /\ ShapeOf(a) /\ job[a] \in Jobs
  BY DEF IInv, Shape, TypeOK
<1>1. ASSUME NEW i \in Ids, NEW k \in {"debt", "exemption"}, NEW r \in Reviewers, PairSelect(a, i, k, r)
      PROVE ReadyOf(a)'
  BY <1>0, <1>1, IdleReady DEF PairSelect, Goto, TypeOK
<1>2. ASSUME End(a) PROVE ReadyOf(a)'
  BY <1>0, <1>2, IdleReady DEF End, TypeOK
<1>3. CASE PairRead(a) /\ ~End(a)
  <2>1. /\ pc'[a] = "pair_validate" /\ job'[a].tgts = job[a].tgts
        /\ draft[job[a].tgts[2]] \in Bodies /\ draft' = draft
    BY <1>0, <1>3 DEF PairRead, Goto, TypeOK, Jobs, files
  <2>2. draft'[job'[a].tgts[2]] # None
    BY <2>1, BodiesAssumption
  <2> QED BY <2>1, <2>2 DEF ReadyOf, ValidatedPair, PairSteps, Replacing
<1>4. CASE PairValidate(a) /\ ~End(a)
  <2>1. /\ pc[a] = "pair_validate" /\ pc'[a] = "pair_mark" /\ job' = job /\ draft' = draft /\ target' = target
        /\ PairValid(job[a].tgts[2][1], job[a].tgts[1][2], job[a].read[1], job[a].read[2], ContextOf(target, ground))
    BY <1>0, <1>4 DEF PairValidate, Goto, TypeOK, files
  <2>2. PICK i \in Ids, k \in Covers : job[a].tgts[1] = Interaction(i) /\ job[a].tgts[2] = <<k, i>>
    BY <2>1, PairTargets DEF PairSteps
  <2>3. job[a].tgts[2][1] = k /\ job[a].tgts[1][2] = i
    BY <2>2, CoverTargets
  <2>4. draft[<<k, i>>] # None
    BY <2>1, <2>2 DEF ReadyOf, PairSteps
  <2> DEFINE body == job[a].read[1]
             ctx == ContextOf(target, ground)
  <2>p. PairValid(k, i, body, job[a].read[2], ctx)
    BY <2>1, <2>3
  <2>c. Sound(ctx) /\ ctx \in Contexts
    BY <1>0, ContextSound
  <2> HIDE DEF body, ctx
  <2>g. \A cover : PairValid(k, i, body, cover, ctx) =>
              cover \in WellFormed /\ \A c \in Covers \ {k} : Resolves(c, body) => Provided(c, i, body)
    BY <2>c, GatesMeanReady
  <2>5. job[a].read[2] \in WellFormed /\ \A c \in Covers \ {k} : Resolves(c, body) => Provided(c, i, body)
    BY <2>p, <2>g
  <2>6. Ready(i, body)
    BY <2>4, <2>5 DEF Ready, Provided
  <2>7. \A b : Ready(i, b) => Ready(i, b)'
    BY ReadyKept
  <2>8. Ready(job[a].tgts[1][2], job[a].read[1])'
    BY <2>1, <2>3, <2>6, <2>7 DEF body
  <2>9. draft'[job'[a].tgts[2]] # None
    BY <2>1, <2>2, <2>4
  <2> QED BY <2>1, <2>5, <2>8, <2>9 DEF ReadyOf, ValidatedPair, PairSteps, Replacing
<1>5. CASE PairMark(a) \/ PairAppend(a)
  <2>1. /\ pc[a] \in {"pair_mark", "pair_append"} /\ pc'[a] \in {"pair_append", "pair_stage"}
        /\ job'[a].tgts = job[a].tgts /\ job'[a].read = job[a].read /\ draft' = draft
    BY <1>0, <1>5 DEF PairMark, PairAppend, Goto, TypeOK, Jobs, files
  <2> QED BY <2>1, PairReadyStays DEF ValidatedPair, PairSteps, Replacing
<1>6. CASE PairStage(a)
  <2>1. /\ pc[a] = "pair_stage" /\ pc'[a] = "replace_1"
        /\ job'[a].tgts = job[a].tgts /\ job'[a].read = job[a].read /\ draft' = draft
        /\ job'[a].orig = <<target[job[a].tgts[1]], target[job[a].tgts[2]]>>
    BY <1>0, <1>6 DEF PairStage, Goto, TypeOK, Jobs, files
  <2>2. PICK i \in Ids : job[a].tgts[1] = Interaction(i)
    BY <2>1, PairTargets DEF PairSteps
  <2>3. job[a].tgts[1][2] = i
    BY <2>2, CoverTargets
  <2>4. job'[a].orig[1] = target[Interaction(i)]
    BY <2>1, <2>2
  <2>5. StandsReady(i)
    BY DEF CoverInv
  <2>6. Good(job'[a].orig[1]) => Ready(job[a].tgts[1][2], job'[a].orig[1].body)
    BY <2>3, <2>4, <2>5 DEF StandsReady
  <2>7. pc[a] \in ValidatedPair /\ pc'[a] \in ValidatedPair
    BY <2>1 DEF ValidatedPair, PairSteps
  <2> QED BY <2>1, <2>6, <2>7, PairReadyStays
<1>7. ASSUME NEW n \in 1..2, PairReplace(a, n) PROVE ReadyOf(a)'
  <2>1. /\ pc[a] \in {"replace_1", "replace_2"} /\ pc'[a] \in {"replace_2", "unlink_1"}
    BY <1>0, <1>7 DEF PairReplace, Goto, TypeOK
  <2>2. /\ job'[a].tgts = job[a].tgts /\ job'[a].read = job[a].read /\ draft' = draft
        /\ job'[a].orig = job[a].orig
    BY <1>0, <1>7 DEF PairReplace, TypeOK, Jobs
  <2>3. pc[a] \in ValidatedPair /\ pc'[a] \in ValidatedPair /\ pc[a] \in Replacing
    BY <2>1 DEF ValidatedPair, PairSteps, Replacing
  <2> QED BY <2>2, <2>3, PairReadyStays
<1>8. CASE PairUnlinkFirst(a)
  <2>1. /\ pc[a] \in ValidatedPair /\ pc'[a] \in ValidatedPair /\ pc[a] \in Replacing
    BY <1>0, <1>8 DEF PairUnlinkFirst, Goto, TypeOK, ValidatedPair, PairSteps, Replacing
  <2>2. /\ job'[a].tgts = job[a].tgts /\ job'[a].read = job[a].read
        /\ job'[a].orig = job[a].orig
    BY <1>0, <1>8 DEF PairUnlinkFirst, TypeOK, Jobs
  <2>3. draft'[job[a].tgts[2]] = draft[job[a].tgts[2]]
    <3>1. job[a].tgts[1] # job[a].tgts[2] /\ job[a].tgts[2] \in Targets
      BY <1>0, <2>1, WrittenPair DEF ShapeOf, ValidatedPair, IInv
    <3> QED BY <1>0, <1>8, <3>1 DEF PairUnlinkFirst, TypeOK
  <2> QED BY <2>1, <2>2, <2>3, PairReadyStays
<1>9. CASE PairUnlinkSecond(a) /\ ~End(a)
  <2>1. /\ pc[a] \in ValidatedPair /\ pc'[a] \in ValidatedPair /\ pc[a] \in Replacing
        /\ job' = job /\ draft' = draft
    BY <1>0, <1>9 DEF PairUnlinkSecond, Goto, TypeOK, ValidatedPair, PairSteps, Replacing
  <2> QED BY <2>1, PairReadyStays
<1>10. CASE PairFails(a)
  <2>1. /\ pc[a] \in ValidatedPair /\ pc'[a] \in ValidatedPair /\ pc[a] \in Replacing \cup {"pair_stage"}
        /\ job' = job /\ draft' = draft
    BY <1>0, <1>10 DEF PairFails, Goto, TypeOK, ValidatedPair, PairSteps, Replacing, files
  <2>2. pc[a] = "pair_stage" => job[a].orig = <<>>
    BY DEF PairOf, PairSteps, Replacing
  <2> QED BY <2>1, <2>2, PairReadyStays
<1>11. CASE PairRestore(a)
  <2>1. /\ pc[a] \in ValidatedPair /\ pc'[a] \in ValidatedPair /\ pc'[a] \notin Replacing /\ job' = job
    BY <1>0, <1>11 DEF PairRestore, Goto, TypeOK, ValidatedPair, PairSteps, Replacing
  <2>2. draft'[job[a].tgts[2]] = draft[job[a].tgts[2]]
    <3>1. job[a].tgts[1] # job[a].tgts[2] /\ job[a].tgts[2] \in Targets
      BY <1>0, <2>1, WrittenPair DEF ShapeOf, ValidatedPair, IInv
    <3> QED BY <1>0, <1>11, <3>1 DEF PairRestore, TypeOK
  <2> QED BY <2>1, <2>2, PairReadyStays
<1>12. PairAppendFails(a) \/ PairRefused(a) \/ PairTruncate(a) => End(a)
  BY DEF PairAppendFails, PairRefused, PairTruncate
<1> QED BY <1>1, <1>2, <1>3, <1>4, <1>5, <1>6, <1>7, <1>8, <1>9, <1>10, <1>11, <1>12 DEF ApprovePair

\* Every step of a command that runs alone keeps the coverage within reach.
LEMMA StepReady == IInv /\ OneCommand /\ Pairs /\ CoverInv /\ [Next]_vars => CoverInv'
<1> SUFFICES ASSUME IInv, OneCommand, Pairs, CoverInv, [Next]_vars PROVE CoverInv'
  OBVIOUS
<1>0. RecordsKept /\ BoundedKept /\ TypeOK
  BY StepRecords, StepBounded DEF IInv
<1>1. ASSUME NEW a \in Actors, Approve(a) PROVE CoverInv'
  <2>1. ReadyOf(a)' /\ \A b \in Actors : b = a
    BY <1>0, <1>1, ApproveReady, OthersAlone DEF CoverInv
  <2>2. \A i \in Ids : StandsReady(i)'
    BY <1>0, <1>1, ApproveStanding, StandingReady DEF CoverInv
  <2> QED BY <2>1, <2>2 DEF CoverInv
<1>2. ASSUME NEW a \in Actors, ApprovePair(a) PROVE CoverInv'
  <2>1. ReadyOf(a)' /\ \A b \in Actors : b = a
    BY <1>0, <1>2, PairReady, OthersAlone DEF CoverInv, Pairs
  <2>2. \A i \in Ids : StandsReady(i)'
    BY <1>0, <1>2, PairStanding, StandingReady DEF CoverInv, Pairs
  <2> QED BY <2>1, <2>2 DEF CoverInv
<1>3. ASSUME NEW a \in Actors, Crash(a) PROVE CoverInv'
  <2>1. pc'[a] = "idle" /\ target' = target
    BY <1>0, <1>3 DEF Crash, End, TypeOK
  <2>2. ReadyOf(a)' /\ \A b \in Actors : b = a
    BY <2>1, IdleReady, OthersAlone
  <2>3. \A i \in Ids : StandsReady(i)'
    BY <1>0, <2>1, StandingReady
  <2> QED BY <2>2, <2>3 DEF CoverInv
<1>4. CASE \/ UNCHANGED vars
           \/ \E g \in Grounds : Reground(g)
           \/ \E t \in Targets : StageDraft(t) \/ CopyDraft(t)
  <2>1. pc' = pc /\ job' = job /\ target' = target
    BY <1>4, CrateApart DEF StageDraft, CopyDraft
  <2>2. \A i \in Ids : StandsReady(i)'
    BY <1>0, <2>1, StandingReady
  <2>3. ASSUME NEW a \in Actors PROVE ReadyOf(a)'
    <3>0. ReadyOf(a)
      BY DEF CoverInv
    <3>1. \A i \in Ids : \A b : Ready(i, b) => Ready(i, b)'
      BY <1>0, ReadyKept
    <3>2. \A t \in Targets : draft[t] # None => draft'[t] # None
      <4>1. CASE UNCHANGED vars \/ \E g \in Grounds : Reground(g)
        BY <4>1, CrateApart
      <4>2. ASSUME NEW t \in Targets, StageDraft(t) PROVE \A s \in Targets : draft[s] # None => draft'[s] # None
        <5>1. PICK d \in (DraftBodies(t) \cap WellFormed) \cup {Torn} : draft' = [draft EXCEPT ![t] = d]
          BY <4>2 DEF StageDraft
        <5>2. d # None
          BY BodiesAssumption, ContentAssumption
        <5> QED BY <1>0, <5>1, <5>2 DEF TypeOK
      <4>3. ASSUME NEW t \in Targets, CopyDraft(t) PROVE \A s \in Targets : draft[s] # None => draft'[s] # None
        <5>1. PICK d \in DraftBodies(t) : draft' = [draft EXCEPT ![t] = d]
          BY <4>3 DEF CopyDraft
        <5>2. d # None
          BY BodiesAssumption, CheckpointAssumption DEF DraftBodies
        <5> QED BY <1>0, <5>1, <5>2 DEF TypeOK
      <4> QED BY <1>4, <4>1, <4>2, <4>3
    <3>3. DocRead(a, 1)' = DocRead(a, 1)
      BY <2>1 DEF DocRead
    <3>4. pc[a] \in {"write", "torn", "unlink"} => job[a].tgts[1] \in Targets
      BY WrittenSingle DEF ValidatedSingle, IInv
    <3>5. pc[a] \in PairSteps \ {"pair_read"} =>
             job[a].tgts[2] \in Targets /\ job[a].tgts[1] \in Targets /\ job[a].tgts[1][2] \in Ids
      <4>1. pc[a] \in PairSteps => \E i \in Ids : job[a].tgts[1] = Interaction(i)
        BY PairTargets DEF Pairs
      <4>2. pc[a] \in PairSteps \ {"pair_read"} => \A n \in 1..2 : job[a].tgts[n] \in Targets
        BY WrittenPair DEF IInv
      <4> QED BY <4>1, <4>2, CoverTargets
    <3>6. pc[a] \in {"write", "torn"} /\ job[a].tgts[1][1] = "interaction" => job[a].tgts[1][2] \in Ids
      BY <3>4, CoverTargets
    <3>a. pc'[a] = "selected" => Sound(job[a].ctx)'
      <4>1. \A c : Sound(c) => Sound(c)'
        BY <1>0, <2>1, SoundKept
      <4>2. pc[a] = "selected" => Sound(job[a].ctx)
        BY <3>0 DEF ReadyOf
      <4> QED BY <2>1, <4>1, <4>2 DEF Sound
    <3>b. pc'[a] \in {"write", "torn"} /\ job'[a].tgts[1][1] = "interaction" => Ready(job[a].tgts[1][2], job[a].read[1])'
      <4> SUFFICES ASSUME pc[a] \in {"write", "torn"}, job[a].tgts[1][1] = "interaction"
                   PROVE  Ready(job[a].tgts[1][2], job[a].read[1])'
        BY <2>1
      <4>1. Ready(job[a].tgts[1][2], job[a].read[1])
        BY <3>0 DEF ReadyOf
      <4> QED BY <2>1, <3>1, <3>6, <4>1
    <3>c. pc'[a] \in {"write", "torn", "unlink"} /\ job'[a].tgts[1][1] # "interaction" =>
            draft'[job'[a].tgts[1]] # None /\ job'[a].read[1] \in WellFormed
      BY <2>1, <3>0, <3>2, <3>4 DEF ReadyOf
    <3>d. pc'[a] = "unlink" => target'[job'[a].tgts[1]] = DocRead(a, 1)'
      BY <2>1, <3>0, <3>3 DEF ReadyOf
    <3>e. pc'[a] \in PairSteps \ {"pair_read"} => draft'[job'[a].tgts[2]] # None
      BY <2>1, <3>0, <3>2, <3>5 DEF ReadyOf
    <3>f. pc'[a] \in ValidatedPair => Ready(job[a].tgts[1][2], job[a].read[1])' /\ job'[a].read[2] \in WellFormed
      <4> SUFFICES ASSUME pc[a] \in ValidatedPair
                   PROVE  Ready(job[a].tgts[1][2], job[a].read[1])' /\ job[a].read[2] \in WellFormed
        BY <2>1
      <4>1. Ready(job[a].tgts[1][2], job[a].read[1]) /\ job[a].read[2] \in WellFormed
        BY <3>0 DEF ReadyOf
      <4>2. job[a].tgts[1][2] \in Ids
        BY <3>5 DEF ValidatedPair
      <4> QED BY <2>1, <3>1, <4>1, <4>2
    <3>g. pc'[a] \in Replacing /\ job'[a].orig # <<>> =>
       (job'[a].orig[1] \in Doc /\ job'[a].orig[1].body \in WellFormed => Ready(job[a].tgts[1][2], job[a].orig[1].body)')
      <4> SUFFICES ASSUME pc[a] \in Replacing, job[a].orig # <<>>, job[a].orig[1] \in Doc, job[a].orig[1].body \in WellFormed
                   PROVE  Ready(job[a].tgts[1][2], job[a].orig[1].body)'
        BY <2>1
      <4>1. Ready(job[a].tgts[1][2], job[a].orig[1].body)
        BY <3>0 DEF ReadyOf
      <4>2. job[a].tgts[1][2] \in Ids
        BY <3>5 DEF Replacing, PairSteps
      <4> QED BY <2>1, <3>1, <4>1, <4>2
    <3> QED BY <3>a, <3>b, <3>c, <3>d, <3>e, <3>f, <3>g DEF ReadyOf
  <2> QED BY <2>2, <2>3 DEF CoverInv
<1> QED BY <1>1, <1>2, <1>3, <1>4, StepIs

\* Nothing stands and nothing is owed at first.
LEMMA InitReady == Init => CoverInv
<1> SUFFICES ASSUME Init PROVE CoverInv
  OBVIOUS
<1>1. ASSUME NEW i \in Ids PROVE StandsReady(i)
  BY CoverTargets, ContentAssumption DEF Init, Good, StandsReady
<1>2. ASSUME NEW a \in Actors PROVE ReadyOf(a)
  BY DEF Init, ReadyOf, PairSteps, ValidatedPair, Replacing
<1> QED BY <1>1, <1>2 DEF CoverInv

\* An approved interaction that G15 or R2 now finds uncovered still has a draft
\* of the missing record staged, whichever command failed or died and wherever,
\* or its boundary contract was taken away behind its approval.  Evidence and
\* contracts come and go at every step, under a running command too.
THEOREM UncoveredStaged ==
  ASSUME OneCommand
  PROVE  Spec => []UncoveredMeansUnfinished
<1>1. CoverInv => UncoveredMeansUnfinished
  <2> DEFINE ctx == ContextOf(target, ground)
  <2> SUFFICES ASSUME CoverInv, NEW i \in Ids
               PROVE  LET body == Lookup(target, ground)[i] IN
                      /\ ~G15(i, body, ctx) => draft[<<"debt", i>>] # None
                      /\ ~R2(i, body, ctx) =>
                           draft[<<"exemption", i>>] # None \/ EdgeOf[body] \in retracted
    BY DEF UncoveredMeansUnfinished
  <2> DEFINE body == Lookup(target, ground)[i]
  <2>1. body # None => Ready(i, body)
    <3>1. body # None => Good(target[Interaction(i)]) /\ body = target[Interaction(i)].body
      BY DEF Lookup, Good
    <3> QED BY <3>1 DEF CoverInv, StandsReady
  <2>2. \A k \in Covers : RecordAt(k, i) /\ Resolves(k, body) => i \in CoveredBy(k, target, ground)
    BY DEF RecordAt, Good, CoveredBy
  <2>3. /\ ctx.debts = CoveredBy("debt", target, ground)
        /\ ctx.exempt = CoveredBy("exemption", target, ground)
        /\ ctx.edges = ground.edges
    BY DEF ContextOf
  <2> HIDE DEF body, ctx
  <2>4. body \in NonPairwise \cup BoundaryRequired => body # None
    BY BodiesAssumption
  <2>5. ~G15(i, body, ctx) => draft[<<"debt", i>>] # None
    BY <2>1, <2>2, <2>3, <2>4 DEF G15, Ready, Covers, Resolves, Provided
  <2>6. ~R2(i, body, ctx) =>
          draft[<<"exemption", i>>] # None \/ EdgeOf[body] \in retracted
    BY <2>1, <2>2, <2>3, <2>4 DEF R2, Ready, Covers, Resolves, Provided, Bounded
  <2> QED BY <2>5, <2>6 DEF body, ctx
<1>2. IInv /\ Pairs /\ CoverInv /\ [Next]_vars => CoverInv'
  BY StepReady
<1>3. IInv /\ Pairs /\ [Next]_vars => Pairs'
  BY StepPairs
<1> QED BY <1>1, <1>2, <1>3, InitIInv, StepIInv, InitPairs, InitReady, PTL DEF Spec
=============================================================================

-------------------------- MODULE ReviewCheckpoint --------------------------
(***************************************************************************)
(* The human review checkpoint: `draft`, `approve`, `approve-pair` and     *)
(* `approve-exemption-pair` on the files of one workspace.                 *)
(*                                                                         *)
(* Every CLI invocation is a process of its own and the workspace files    *)
(* are all they share: the drafts, the targets and review_log.jsonl, with  *)
(* no lock.  An invocation is modelled one file operation at a time, so    *)
(* invocations interleave, an operation can fail (the exception path of    *)
(* the code is then taken) and an invocation can die between two of them.  *)
(***************************************************************************)
EXTENDS InteractionGates, AuditLog, FiniteSets

CONSTANTS
  Actors,             \* CLI processes
  InteractionBodies,  \* bodies an interaction draft is staged with
  CoverBodies,        \* bodies a debt or exemption draft is staged with
  Grounds,            \* evidence and boundary contracts the crate may have
  FailPoints,         \* steps at which a file operation may raise OSError
  CrashPoints,        \* steps at which the process may die; in both, "partial"
                      \* says that an append may be cut short
  MaxLog,             \* bound: no approval starts past this many log lines
  MaxStaged           \* bound: stagings of one draft

ASSUME CheckpointAssumption ==
  /\ IsFiniteSet(Actors)
  /\ InteractionBodies \subseteq Bodies
  /\ CoverBodies \subseteq Bodies
  /\ Grounds \subseteq Ground
  /\ MaxLog \in Nat
  /\ MaxStaged \in Nat

VARIABLES
  target,     \* [Targets -> file]: the approved artifacts
  draft,      \* [Targets -> body]: the staged drafts
  log,        \* review_log.jsonl, one element per line
  ground,     \* the evidence records and boundary contracts of the crate
  pc,         \* next file operation of each process
  job,        \* local variables of each process
  passed,     \* history: the documents a validator let through
  staged,     \* history: how often each draft was staged
  unlogged,   \* history: what single approvals have written and not logged
  completed,  \* history: how often a command promoting it returned success
  retracted   \* history: edges that lost their boundary contract

files == <<target, draft, log>>
history == <<passed, staged, unlogged, completed>>
crate == <<ground, retracted>>
vars == <<target, draft, log, pc, job, passed, staged, unlogged, completed, crate>>

Content == Doc \cup {None, Torn}
DraftContent == Bodies \cup {None, Torn}

\* One audit line.
Entry == [target : Targets, reviewer : Reviewers]
LogLine == Entry \cup {Fragment, Damaged}

\* What is not a whole line is no entry.
ASSUME LineAssumption == {Fragment, Damaged} \cap Entry = {}

SingleSteps == {"selected", "write", "torn", "unlink", "log"}
PairSteps == {"pair_read", "pair_validate", "pair_mark", "pair_append",
              "pair_stage", "replace_1", "replace_2", "unlink_1", "unlink_2",
              "restore", "truncate"}
Steps == SingleSteps \cup PairSteps

NoContext == [lookup |-> [i \in Ids |-> None], debts |-> {}, exempt |-> {},
              evidence |-> {}, edges |-> {}]

\* tgts: the targets in promotion order; read: the draft bodies read;
\* orig: the target files before the first replace; mark: the log size
\* recorded before the append; done: replacements and unlinks completed.
NoJob == [tgts |-> <<>>, by |-> None, ctx |-> NoContext, read |-> <<>>,
          orig |-> <<>>, mark |-> 0, done |-> 0]

DocRead(a, n) == [body |-> job[a].read[n], reviewer |-> job[a].by]
EntryFor(a, n) == [target |-> job[a].tgts[n], reviewer |-> job[a].by]

Init ==
  /\ target = [t \in Targets |-> None]
  /\ draft = [t \in Targets |-> None]
  /\ log = <<>>
  /\ pc = [a \in Actors |-> "idle"]
  /\ job = [a \in Actors |-> NoJob]
  /\ passed = {}
  /\ staged = [t \in Targets |-> 0]
  /\ unlogged = {}
  /\ completed = [t \in Targets |-> 0]
  /\ ground \in Grounds
  /\ retracted = {}

Goto(a, step) == pc' = [pc EXCEPT ![a] = step]

\* The command returns or raises: its local variables are gone.
End(a) ==
  /\ pc' = [pc EXCEPT ![a] = "idle"]
  /\ job' = [job EXCEPT ![a] = NoJob]

Fails(a) == pc[a] \in FailPoints

\* The log after an append that may have been cut short.
CutShort(a, appending, points) ==
  {log} \cup (IF pc[a] \in appending /\ "partial" \in points
                THEN {Append(log, Fragment)} ELSE {})

-----------------------------------------------------------------------------
(* Staging a draft.                                                        *)

DraftBodies(t) == IF t[1] = "interaction" THEN InteractionBodies ELSE CoverBodies

\* cmd_draft: the draft validators reject a malformed body and check no
\* cross reference; stage_draft then overwrites whatever draft is there.  Its
\* write_text truncates first, so a process that dies leaves an empty draft.
StageDraft(t) ==
  /\ staged[t] < MaxStaged
  /\ \E d \in (DraftBodies(t) \cap WellFormed)
              \cup (IF "stage" \in CrashPoints THEN {Torn} ELSE {}) :
       draft' = [draft EXCEPT ![t] = d]
  /\ staged' = [staged EXCEPT ![t] = @ + 1]
  /\ UNCHANGED <<target, log, pc, job, passed, unlogged, completed>>

\* A draft put there by hand ("or copy the target itself to <draft>"): no
\* validator has seen it.
CopyDraft(t) ==
  /\ staged[t] < MaxStaged
  /\ \E d \in DraftBodies(t) : draft' = [draft EXCEPT ![t] = d]
  /\ staged' = [staged EXCEPT ![t] = @ + 1]
  /\ UNCHANGED <<target, log, pc, job, passed, unlogged, completed>>

-----------------------------------------------------------------------------
(* approve: one draft.  Write the target, unlink the draft, log.           *)

\* cmd_approve selects the validator first, and with it the coverage of the
\* crate as it is now; the draft is read later.
ApproveSelect(a, t, r) ==
  /\ pc[a] = "idle"
  /\ Len(log) < MaxLog
  /\ Goto(a, "selected")
  /\ job' = [job EXCEPT ![a] =
               [NoJob EXCEPT !.tgts = <<t>>, !.by = r, !.ctx = ContextOf(target, ground)]]
  /\ UNCHANGED <<files, history>>

\* No draft, or a draft or target that does not parse: an exception.  A draft
\* that fails its validator: ApprovalRefused.  Nothing is written.
ApproveRead(a) ==
  /\ pc[a] = "selected"
  /\ LET t == job[a].tgts[1]
         d == draft[t]
     IN IF d \in Bodies /\ target[t] # Torn /\ Valid(t, d, job[a].ctx)
          THEN /\ Goto(a, "write")
               /\ job' = [job EXCEPT ![a].read = <<d>>]
               /\ passed' = passed \cup
                    {<<t, [body |-> d, reviewer |-> job[a].by]>>}
          ELSE End(a) /\ UNCHANGED passed
  /\ UNCHANGED <<files, staged, unlogged, completed>>

\* write_text opens the target with "w", which empties it.
ApproveTruncate(a) ==
  /\ pc[a] = "write"
  /\ Goto(a, "torn")
  /\ target' = [target EXCEPT ![job[a].tgts[1]] = Torn]
  /\ UNCHANGED <<draft, log, job, history>>

\* Mutant: the draft is read again instead of promoting the bytes validated.
ApproveWriteReread(a) ==
  /\ pc[a] = "torn"
  /\ LET t == job[a].tgts[1] IN
       IF draft[t] \in Bodies
         THEN /\ target' = [target EXCEPT ![t] = [body |-> draft[t], reviewer |-> job[a].by]]
              /\ Goto(a, "unlink")
              /\ UNCHANGED job
         ELSE End(a) /\ UNCHANGED target
  /\ UNCHANGED <<draft, log, history>>

ApproveWrite(a) ==
  /\ pc[a] = "torn"
  /\ Goto(a, "unlink")
  /\ target' = [target EXCEPT ![job[a].tgts[1]] = DocRead(a, 1)]
  /\ unlogged' = unlogged \cup {<<job[a].tgts[1], DocRead(a, 1)>>}
  /\ UNCHANGED <<draft, log, job, passed, staged, completed>>

\* Mutant: unlink(missing_ok=True).
ApproveUnlinkMissingOk(a) ==
  /\ pc[a] = "unlink"
  /\ draft' = [draft EXCEPT ![job[a].tgts[1]] = None]
  /\ Goto(a, "log")
  /\ UNCHANGED <<target, log, job, history>>

\* unlink() without missing_ok: raises when another command took the draft,
\* and the approval is then never logged.
ApproveUnlink(a) ==
  /\ pc[a] = "unlink"
  /\ LET t == job[a].tgts[1] IN
       IF draft[t] # None
         THEN /\ draft' = [draft EXCEPT ![t] = None]
              /\ Goto(a, "log")
              /\ UNCHANGED job
         ELSE End(a) /\ UNCHANGED draft
  /\ UNCHANGED <<target, log, history>>

ApproveLog(a) ==
  /\ pc[a] = "log"
  /\ log' = Appended(log, <<EntryFor(a, 1)>>)
  /\ unlogged' = unlogged \ {<<job[a].tgts[1], DocRead(a, 1)>>}
  /\ completed' = [completed EXCEPT ![job[a].tgts[1]] = @ + 1]
  /\ End(a)
  /\ UNCHANGED <<target, draft, passed, staged>>

\* approve() has no handler: a failed operation leaves what is done, done, and
\* an append cut short leaves its fragment.
ApproveFails(a) ==
  /\ pc[a] \in SingleSteps /\ Fails(a)
  /\ log' \in CutShort(a, {"log"}, FailPoints)
  /\ End(a)
  /\ UNCHANGED <<target, draft, history>>

-----------------------------------------------------------------------------
(* approve-pair and approve-exemption-pair: an interaction and the record   *)
(* of kind k that covers it, as one transaction.                           *)

PairSelect(a, i, k, r) ==
  /\ pc[a] = "idle"
  /\ Len(log) < MaxLog
  /\ Goto(a, "pair_read")
  /\ job' = [job EXCEPT ![a] =
               [NoJob EXCEPT !.tgts = <<Interaction(i), <<k, i>>>>, !.by = r]]
  /\ UNCHANGED <<files, history>>

\* require_staged_drafts on both, then both drafts and both targets are read.
PairRead(a) ==
  /\ pc[a] = "pair_read"
  /\ LET ts == job[a].tgts IN
       IF \A n \in 1..2 : draft[ts[n]] \in Bodies /\ target[ts[n]] # Torn
         THEN /\ Goto(a, "pair_validate")
              /\ job' = [job EXCEPT ![a].read = <<draft[ts[1]], draft[ts[2]]>>]
         ELSE End(a)
  /\ UNCHANGED <<files, history>>

\* The pair validator reads the crate when it runs, after the drafts.
PairValidate(a) ==
  /\ pc[a] = "pair_validate"
  /\ LET j == job[a]
         i == j.tgts[1][2]
         k == j.tgts[2][1]
     IN IF PairValid(k, i, j.read[1], j.read[2], ContextOf(target, ground))
          THEN /\ Goto(a, "pair_mark")
               /\ passed' = passed \cup {<<j.tgts[n], DocRead(a, n)>> : n \in 1..2}
               /\ UNCHANGED job
          ELSE End(a) /\ UNCHANGED passed
  /\ UNCHANGED <<files, staged, unlogged, completed>>

\* The size of the log, taken before the append for a rollback.
PairMark(a) ==
  /\ pc[a] = "pair_mark"
  /\ Goto(a, "pair_append")
  /\ job' = [job EXCEPT ![a].mark = Len(log)]
  /\ UNCHANGED <<files, history>>

PairAppend(a) ==
  /\ pc[a] = "pair_append"
  /\ Goto(a, "pair_stage")
  /\ log' = Appended(log, <<EntryFor(a, 1), EntryFor(a, 2)>>)
  /\ UNCHANGED <<target, draft, job, history>>

\* The append raises: before anything is written the command just ends; after
\* a partial write it truncates the log to the recorded size first.
PairAppendFails(a) ==
  /\ pc[a] = "pair_append" /\ Fails(a)
  /\ log' \in {log, TruncatedTo(log, job[a].mark)}
  /\ End(a)
  /\ UNCHANGED <<target, draft, history>>

\* Both targets' bytes are kept and both temporary files written.
PairStage(a) ==
  /\ pc[a] = "pair_stage"
  /\ Goto(a, "replace_1")
  /\ job' = [job EXCEPT ![a].orig =
               <<target[job[a].tgts[1]], target[job[a].tgts[2]]>>]
  /\ UNCHANGED <<files, history>>

\* os.replace of the n-th temporary file over its target.
PairReplace(a, n) ==
  /\ pc[a] = <<"replace_1", "replace_2">>[n]
  /\ Goto(a, <<"replace_2", "unlink_1">>[n])
  /\ target' = [target EXCEPT ![job[a].tgts[n]] = DocRead(a, n)]
  /\ job' = [job EXCEPT ![a].done = n]
  /\ UNCHANGED <<draft, log, history>>

PairUnlinkFirst(a) ==
  /\ pc[a] = "unlink_1"
  /\ LET t == job[a].tgts[1] IN
       IF draft[t] # None
         THEN /\ draft' = [draft EXCEPT ![t] = None]
              /\ job' = [job EXCEPT ![a].done = 3]
              /\ Goto(a, "unlink_2")
         ELSE Goto(a, "restore") /\ UNCHANGED <<draft, job>>
  /\ UNCHANGED <<target, log, history>>

PairUnlinkSecond(a) ==
  /\ pc[a] = "unlink_2"
  /\ LET t == job[a].tgts[2] IN
       IF draft[t] # None
         THEN /\ draft' = [draft EXCEPT ![t] = None]
              /\ completed' = [s \in Targets |->
                   IF s \in {job[a].tgts[1], t} THEN completed[s] + 1 ELSE completed[s]]
              /\ End(a)
         ELSE Goto(a, "restore") /\ UNCHANGED <<draft, completed, job>>
  /\ UNCHANGED <<target, log, passed, staged, unlogged>>

\* Mutant: the handler takes the log back and leaves the targets replaced.
PairFailsUnrestored(a) ==
  /\ pc[a] \in {"pair_stage", "replace_1", "replace_2", "unlink_1", "unlink_2"}
  /\ Fails(a)
  /\ Goto(a, "truncate")
  /\ UNCHANGED <<files, job, history>>

\* Any exception after the append: the rollback handler runs.
PairFails(a) ==
  /\ pc[a] \in {"pair_stage", "replace_1", "replace_2", "unlink_1", "unlink_2"}
  /\ Fails(a)
  /\ Goto(a, "restore")
  /\ UNCHANGED <<files, job, history>>

\* A validator, a read or a stat that raises before the append.
PairRefused(a) ==
  /\ pc[a] \in {"pair_read", "pair_validate", "pair_mark"} /\ Fails(a)
  /\ End(a)
  /\ UNCHANGED <<files, history>>

\* The replaced targets get their earlier bytes back (or are unlinked), the
\* deleted drafts are written again.
PairRestore(a) ==
  /\ pc[a] = "restore"
  /\ LET j == job[a]
         restored == {n \in 1..2 : n <= j.done}
     IN /\ target' = [t \in Targets |->
             IF \E n \in restored : t = j.tgts[n]
               THEN j.orig[CHOOSE n \in restored : t = j.tgts[n]]
               ELSE target[t]]
        /\ draft' = IF j.done = 3 THEN [draft EXCEPT ![j.tgts[1]] = j.read[1]]
                                  ELSE draft
  /\ Goto(a, "truncate")
  /\ UNCHANGED <<log, job, history>>

\* _rollback_audit_log: back to the recorded size, whatever came after it.
PairTruncate(a) ==
  /\ pc[a] = "truncate"
  /\ log' = TruncatedTo(log, job[a].mark)
  /\ End(a)
  /\ UNCHANGED <<target, draft, history>>

-----------------------------------------------------------------------------
\* The process dies; the files stay as they are, an append may be cut short.
Crash(a) ==
  /\ pc[a] \in CrashPoints
  /\ log' \in CutShort(a, {"log", "pair_append"}, CrashPoints)
  /\ End(a)
  /\ UNCHANGED <<target, draft, history>>

Approve(a) ==
  \/ \E t \in Targets, r \in Reviewers : ApproveSelect(a, t, r)
  \/ ApproveRead(a)
  \/ ApproveTruncate(a)
  \/ ApproveWrite(a)
  \/ ApproveUnlink(a)
  \/ ApproveLog(a)
  \/ ApproveFails(a)

ApprovePair(a) ==
  \/ \E i \in Ids, k \in {"debt", "exemption"}, r \in Reviewers : PairSelect(a, i, k, r)
  \/ PairRead(a)
  \/ PairValidate(a)
  \/ PairMark(a)
  \/ PairAppend(a)
  \/ PairAppendFails(a)
  \/ PairStage(a)
  \/ \E n \in 1..2 : PairReplace(a, n)
  \/ PairUnlinkFirst(a)
  \/ PairUnlinkSecond(a)
  \/ PairFails(a)
  \/ PairRefused(a)
  \/ PairRestore(a)
  \/ PairTruncate(a)

\* An evidence record or a boundary contract promoted, edited or deleted.
Reground(g) ==
  /\ ground' = g
  /\ retracted' = retracted \cup (ground.edges \ g.edges)
  /\ UNCHANGED <<files, pc, job, history>>

Commands ==
  \/ \E t \in Targets : StageDraft(t) \/ CopyDraft(t)
  \/ \E a \in Actors : Approve(a) \/ ApprovePair(a) \/ Crash(a)

\* No command modelled here writes an evidence record or a boundary contract.
Next ==
  \/ Commands /\ UNCHANGED crate
  \/ \E g \in Grounds : Reground(g)

Spec == Init /\ [][Next]_vars

-----------------------------------------------------------------------------
(* Properties.                                                             *)

Jobs == [tgts : Seq(Targets), by : Reviewers \cup {None}, ctx : Contexts,
         read : Seq(Bodies), orig : Seq(Content), mark : Nat, done : 0..3]

\* The workspace holds files of the modelled shapes and a process at a step
\* has the local variables that step reads.
TypeOK ==
  /\ target \in [Targets -> Content]
  /\ draft \in [Targets -> DraftContent]
  /\ log \in Seq(LogLine)
  /\ pc \in [Actors -> Steps \cup {"idle"}]
  /\ job \in [Actors -> Jobs]
  /\ passed \in SUBSET (Targets \X Doc)
  /\ staged \in [Targets -> Nat]
  /\ unlogged \in SUBSET (Targets \X Doc)
  /\ completed \in [Targets -> Nat]
  /\ ground \in Ground
  /\ retracted \in SUBSET Edges

\* Whatever the interleaving, the failures and the crashes, a document that
\* stands at a target was let through by a validator, for that target and
\* under the reviewer it names: promotion and rollback install nothing else.
OnlyValidated ==
  \A t \in Targets : target[t] \in Doc => <<t, target[t]>> \in passed

\* A staged draft is consumed by at most one successful promotion, although
\* nothing locks it: the unlink of the draft decides between the commands.
EachDraftPromotedOnce == \A t \in Targets : completed[t] <= staged[t]

AtRest == \A a \in Actors : pc[a] = "idle"

\* A pair approval past its append returns, or its rollback comes to an end:
\* it did not die on the way.
PairEnds(a) ==
  /\ pc[a] \in PairSteps /\ pc'[a] = "idle" /\ job[a].orig # <<>>
  /\ PairTruncate(a) \/ ~Crash(a)

\* A pair approval that ends has promoted both targets and logged both, or
\* it has left both targets and the log as they were when it began to write.
PairAllOrNone ==
  [][\A a \in Actors : PairEnds(a) =>
         \/ \A n \in 1..2 :
              /\ target'[job[a].tgts[n]] = DocRead(a, n)
              /\ job[a].mark + n \in DOMAIN log'
              /\ log'[job[a].mark + n] = EntryFor(a, n) \/ ~Readable(log)
         \/ /\ \A n \in 1..2 : target'[job[a].tgts[n]] = job[a].orig[n]
            /\ Len(log') = job[a].mark]_vars

\* An approved interaction that no record covers has a draft of the missing
\* record still staged, whatever was interrupted, unless its boundary contract
\* was taken away behind its approval: no gate looks at an interaction again
\* when it loses that.  (What the draft holds may still fail its validator, and
\* may be what a process that died in `draft` left of it.)
UncoveredMeansUnfinished ==
  AtRest => \A i \in Ids :
    LET body == Lookup(target, ground)[i] ctx == ContextOf(target, ground) IN
    /\ ~G15(i, body, ctx) => draft[<<"debt", i>>] # None
    /\ ~R2(i, body, ctx) =>
         draft[<<"exemption", i>>] # None \/ EdgeOf[body] \in retracted

\* An approved target has its audit line, unless a single approval was cut
\* short behind its write: a pair logs before it replaces, and un-replaces
\* before it takes the lines back, so that one may fail or die at any point.
\* (Behind a line cut short the next one cannot be read, and nothing is proven.)
PromotedIsLogged ==
  (AtRest /\ Readable(log)) => \A t \in Targets :
    (target[t] \in Doc /\ <<t, target[t]>> \notin unlogged) => \E k \in DOMAIN log : log[k] = [target |-> t, reviewer |-> target[t].reviewer]
=============================================================================

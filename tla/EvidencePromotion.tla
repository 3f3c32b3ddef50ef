-------------------------- MODULE EvidencePromotion --------------------------
(***************************************************************************)
(* `promote-evidence`: the mechanical promotion of a staged evidence draft. *)
(* The draft file itself is renamed to the target, so what is promoted is    *)
(* what the file holds at the rename, not what was read and validated.      *)
(***************************************************************************)
EXTENDS Absent, AuditLog, FiniteSets

CONSTANTS
  Actors,       \* CLI processes
  Ids,          \* evidence records
  Texts,        \* contents of a draft
  ValidTexts,   \* those that pass G1a and G1b at their target
  FailPoints,   \* steps at which a file operation may raise OSError
  CrashPoints,  \* steps at which the process may die; "partial" says that an
                \* append may be cut short
  MaxStaged,    \* bound: stagings of one draft
  MaxLines      \* bound: no promotion starts past this many lines of the trail

ASSUME EvidenceAssumption ==
  /\ ValidTexts \subseteq Texts
  /\ None \notin Texts
  /\ {Fragment, Damaged} \cap Ids = {}
  /\ MaxStaged \in Nat /\ MaxLines \in Nat

VARIABLES
  draft,     \* [Ids -> text]: evidence/<id>.json.draft
  record,    \* [Ids -> text]: evidence/<id>.json
  trail,     \* evidence_promotions.jsonl: the id each line names
  pc,        \* next step of each process
  job,       \* local variables of each process
  stagings,  \* history: how often each draft was staged
  promoted,  \* history: how often each record was promoted
  restaged,  \* history: the ids staged while a promotion of theirs ran
  died       \* history: how many promotions of each id died behind the append

evidenceVars == <<draft, record, trail, pc, job, stagings, promoted, restaged, died>>

Steps == {"mark", "append", "replace", "truncate"}

NoJob == [id |-> None, mark |-> 0]

EvidenceInit ==
  /\ draft = [i \in Ids |-> None]
  /\ record = [i \in Ids |-> None]
  /\ trail = <<>>
  /\ pc = [a \in Actors |-> "idle"]
  /\ job = [a \in Actors |-> NoJob]
  /\ stagings = [i \in Ids |-> 0]
  /\ promoted = [i \in Ids |-> 0]
  /\ restaged = {}
  /\ died = [i \in Ids |-> 0]

Goto(a, step) == pc' = [pc EXCEPT ![a] = step]

End(a) ==
  /\ pc' = [pc EXCEPT ![a] = "idle"]
  /\ job' = [job EXCEPT ![a] = NoJob]

\* A draft staged by `draft`, or copied there by hand.
Stage(i, text) ==
  /\ stagings[i] < MaxStaged
  /\ draft' = [draft EXCEPT ![i] = text]
  /\ stagings' = [stagings EXCEPT ![i] = @ + 1]
  /\ restaged' = IF \E a \in Actors : job[a].id = i THEN restaged \cup {i} ELSE restaged
  /\ UNCHANGED <<record, trail, pc, job, promoted, died>>

\* Mutant: the findings are computed and not looked at.
PromoteReadUnchecked(a, i) ==
  /\ pc[a] = "idle" /\ Len(trail) < MaxLines
  /\ draft[i] # None
  /\ Goto(a, "mark")
  /\ job' = [job EXCEPT ![a].id = i]
  /\ UNCHANGED <<draft, record, trail, stagings, promoted, restaged, died>>

\* A draft that is missing or fails its validator refuses the command.
PromoteRead(a, i) ==
  /\ pc[a] = "idle" /\ Len(trail) < MaxLines
  /\ draft[i] \in ValidTexts
  /\ Goto(a, "mark")
  /\ job' = [job EXCEPT ![a].id = i]
  /\ UNCHANGED <<draft, record, trail, stagings, promoted, restaged, died>>

PromoteMark(a) ==
  /\ pc[a] = "mark"
  /\ Goto(a, "append")
  /\ job' = [job EXCEPT ![a].mark = Len(trail)]
  /\ UNCHANGED <<draft, record, trail, stagings, promoted, restaged, died>>

PromoteAppend(a) ==
  /\ pc[a] = "append"
  /\ Goto(a, "replace")
  /\ trail' = Appended(trail, <<job[a].id>>)
  /\ UNCHANGED <<draft, record, job, stagings, promoted, restaged, died>>

\* Before anything is written, or with the partial line truncated away.
PromoteAppendFails(a) ==
  /\ pc[a] = "append" /\ "append" \in FailPoints
  /\ trail' \in {trail, TruncatedTo(trail, job[a].mark)}
  /\ End(a)
  /\ UNCHANGED <<draft, record, stagings, promoted, restaged, died>>

\* os.replace of the draft by name; it raises when another promotion took it.
PromoteReplace(a) ==
  /\ pc[a] = "replace"
  /\ LET i == job[a].id IN
       IF draft[i] # None
         THEN /\ record' = [record EXCEPT ![i] = draft[i]]
              /\ draft' = [draft EXCEPT ![i] = None]
              /\ promoted' = [promoted EXCEPT ![i] = @ + 1]
              /\ End(a)
         ELSE Goto(a, "truncate") /\ UNCHANGED <<record, draft, promoted, job>>
  /\ UNCHANGED <<trail, stagings, restaged, died>>

\* Mutant: the exception leaves the line behind.
PromoteReplaceFailsLogged(a) ==
  /\ pc[a] = "replace" /\ "replace" \in FailPoints
  /\ End(a)
  /\ UNCHANGED <<draft, record, trail, stagings, promoted, restaged, died>>

PromoteReplaceFails(a) ==
  /\ pc[a] = "replace" /\ "replace" \in FailPoints
  /\ Goto(a, "truncate")
  /\ UNCHANGED <<draft, record, trail, job, stagings, promoted, restaged, died>>

PromoteTruncate(a) ==
  /\ pc[a] = "truncate"
  /\ trail' = TruncatedTo(trail, job[a].mark)
  /\ End(a)
  /\ UNCHANGED <<draft, record, stagings, promoted, restaged, died>>

Crash(a) ==
  /\ pc[a] \in CrashPoints
  /\ \/ UNCHANGED trail
     \/ pc[a] = "append" /\ "partial" \in CrashPoints /\ trail' = Append(trail, Fragment)
  /\ died' = IF pc[a] \in {"replace", "truncate"}
               THEN [died EXCEPT ![job[a].id] = @ + 1] ELSE died
  /\ End(a)
  /\ UNCHANGED <<draft, record, stagings, promoted, restaged>>

Promote(a) ==
  \/ \E i \in Ids : PromoteRead(a, i)
  \/ PromoteMark(a)
  \/ PromoteAppend(a)
  \/ PromoteAppendFails(a)
  \/ PromoteReplace(a)
  \/ PromoteReplaceFails(a)
  \/ PromoteTruncate(a)
  \/ Crash(a)

EvidenceNext ==
  \/ \E i \in Ids, text \in Texts : Stage(i, text)
  \/ \E a \in Actors : Promote(a)

EvidenceSpec == EvidenceInit /\ [][EvidenceNext]_evidenceVars

-----------------------------------------------------------------------------
(* Properties.                                                             *)

LinesOf(i) == {k \in DOMAIN trail : trail[k] = i}

AtRest == \A a \in Actors : pc[a] = "idle"

\* Between commands the lines of a record number its promotions, but for at
\* most one line more for each command that died behind its append: a line is
\* durable before the rename, and a rename that fails takes its own line back.
LinesMatchPromotions ==
  \A i \in Ids :
    /\ Readable(trail) => promoted[i] <= Cardinality(LinesOf(i))
    /\ AtRest => Cardinality(LinesOf(i)) <= promoted[i] + died[i]

\* A promoted record passes its validator, unless its draft was staged again
\* while a promotion of it ran: nothing holds the draft to what was validated.
RecordsValid ==
  \A i \in Ids : record[i] \in ValidTexts \cup {None} \/ i \in restaged
=============================================================================

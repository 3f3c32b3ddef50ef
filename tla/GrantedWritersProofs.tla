------------------------ MODULE GrantedWritersProofs ------------------------
(***************************************************************************)
(* For any number of processes, grants, texts and whitelists, with failures  *)
(* and crashes at any step and files changing under a running command: a     *)
(* protected file changes only under a recorded grant that was live, every   *)
(* event stands behind its grant, a one-shot grant is spent once, and a      *)
(* writer replaces what it read.                                             *)
(*                                                                          *)
(* The first needs what a process knows from judge on, Knows; the second,    *)
(* that the process that holds the lock rolls back to a size behind every    *)
(* event, Marked; the third, that a change that stands has its event, or its *)
(* writer still holds the lock, or the ledger does not parse, Logged; the    *)
(* fourth, that the target of a process at its write is as it was read.      *)
(*                                                                          *)
(* With one command at a time, as authorize-write takes no lock: the ledger  *)
(* keeps every grant, KeptInv; Cargo.lock is put back, LockInv; and every    *)
(* change and pin has its event, PinInv.                                     *)
(***************************************************************************)
EXTENDS GrantedWriters, AuditLogProofs

\* a's grant licenses a write of p at the moment a looked.
Licensed(a, p) ==
  LET g == job[a].grant IN
  /\ g \in Grant /\ g \in issued /\ Covers(g, p)
  /\ g.request.issue = job[a].issue
  /\ g.issuedAt <= job[a].at /\ job[a].at < g.issuedAt + g.request.ttl

\* What a process knows at its step.
Knows(a) ==
  /\ pc[a] \in HeldSteps \cup {"acquire"} => job[a].cmd \in Locked
  /\ pc[a] \in HeldSteps \ {"judge"} => Licensed(a, Path(a))
  /\ pc[a] \in {"look", "put", "skeleton"} => Licensed(a, "crate")
  /\ pc[a] = "verify" => job[a].cmd = "generate"
  /\ pc[a] = "record" => job[a].grant \in Grant

\* The grants of the ledger were issued.
Traced == \A k \in DOMAIN ledger : ledger[k] \in Grant => ledger[k] \in issued

KnownInv == TypeOK /\ Traced /\ \A a \in Actors : Knows(a)

\* The process under the lock rolls back behind every event, and the grant it
\* goes by is in the ledger.
Marked(a) ==
  /\ pc[a] \in HeldSteps <=> holder = a
  /\ pc[a] \in HeldSteps \ {"restore"} =>
       /\ job[a].mark <= Len(ledger)
       /\ \A k \in DOMAIN ledger : ledger[k] \in Event => k <= job[a].mark
  /\ pc[a] \in HeldSteps \ {"judge", "restore"} =>
       \E l \in DOMAIN ledger : ledger[l] = job[a].grant

MarkInv == EventsGrounded /\ \A a \in Actors : Marked(a)

\* A grant that changes its file once.
Single(a) == job[a].cmd = "generate" \/ job[a].grant.request.oneShot

\* Up to its write, a process has changed nothing, and if it found its grant
\* unspent, the grant has changed nothing.
Unspent(a) ==
  /\ pc[a] \in HeldSteps \cup {"acquire"} => job[a].text \in TextsOf(job[a].cmd)
  /\ pc[a] \in {"acquire", "judge", "inspect", "recheck", "write"} => ~job[a].wrote
  /\ pc[a] = "write" => ~job[a].spent
  /\ pc[a] \in HeldSteps /\ (job[a].wrote \/ pc[a] = "write") => job[a].text # job[a].source
  /\ pc[a] \in {"inspect", "recheck", "write"} /\ ~job[a].spent /\ Single(a) =>
       Use(a) \notin used \ lost

HasEvent(use) ==
  \E k \in DOMAIN ledger :
    /\ ledger[k] \in Event
    /\ ledger[k].grant = use[1] /\ Target[ledger[k].event] = use[2]
    /\ ledger[k].result = "changed"

InProgress(use) == \E a \in Actors : pc[a] \in HeldSteps /\ job[a].wrote /\ Use(a) = use

\* A line that does not parse, which no rollback takes back.
Broken ==
  \E k \in DOMAIN ledger :
    /\ ledger[k] \in {Fragment, Damaged}
    /\ \A a \in Actors : pc[a] \in HeldSteps \ {"restore"} => k <= job[a].mark

\* A change that stands is accounted for.
Logged == \A use \in used \ lost : HasEvent(use) \/ InProgress(use) \/ Broken

SpendInv == Logged /\ \A a \in Actors : Unspent(a)
-----------------------------------------------------------------------------
(* What a step leaves behind, whatever step it is.                         *)

\* A line behind a ledger, whole or glued to a fragment, leaves the others.
LEMMA LedgerGrows ==
  ASSUME TypeOK, NEW x \in Line
  PROVE  LET longer == Appended(ledger, <<x>>) IN
         /\ longer \in Seq(Line)
         /\ Len(longer) = Len(ledger) + 1
         /\ \A k \in DOMAIN ledger : longer[k] = ledger[k]
         /\ longer[Len(ledger) + 1] \in {x, Damaged}
<1> DEFINE longer == Appended(ledger, <<x>>)
<1>1. /\ ledger \in Seq(Line) /\ Damaged \in Line
      /\ <<x>> \in Seq(Line) /\ <<x>> # <<>> /\ Len(<<x>>) = 1
  BY DEF TypeOK, Line
<1>2. /\ longer \in Seq(Line)
      /\ Len(longer) = Len(ledger) + Len(<<x>>)
      /\ \A k \in DOMAIN ledger : longer[k] = ledger[k]
  BY <1>1, AppendedKeeps
<1>3. longer[Len(ledger) + 1] \in {x, Damaged}
  BY <1>1 DEF Appended
<1> QED BY <1>1, <1>2, <1>3

\* A rollback leaves lines that were there, or fragments.
LEMMA LedgerShrinks ==
  ASSUME TypeOK, NEW n \in Nat
  PROVE  LET shorter == TruncatedTo(ledger, n) IN
         /\ shorter \in Seq(Line)
         /\ \A k \in DOMAIN shorter :
              \/ k \in DOMAIN ledger /\ shorter[k] = ledger[k]
              \/ shorter[k] = Fragment
<1>1. ledger \in Seq(Line) /\ Fragment \in Line
  BY DEF TypeOK, Line
<1>2. TruncatedTo(ledger, n) \in Seq(Line)
  BY <1>1, TruncatedType
<1>3. CASE n <= Len(ledger)
  BY <1>1, <1>2, <1>3 DEF TruncatedTo
<1>4. CASE n > Len(ledger) /\ ledger = <<>>
  BY <1>1, <1>2, <1>4 DEF TruncatedTo
<1>5. CASE n > Len(ledger) /\ ledger # <<>>
  <2> DEFINE tail == [k \in 1..(n - Len(ledger)) |-> Fragment]
  <2>1. tail \in Seq(Line) /\ \A k \in DOMAIN tail : tail[k] = Fragment
    BY <1>1, <1>5
  <2>2. TruncatedTo(ledger, n) = ledger \o tail
    BY <1>5 DEF TruncatedTo
  <2> HIDE DEF tail
  <2>3. \A k \in DOMAIN (ledger \o tail) :
          \/ k \in DOMAIN ledger /\ (ledger \o tail)[k] = ledger[k]
          \/ (ledger \o tail)[k] = Fragment
    BY <1>1, <2>1
  <2> QED BY <1>2, <2>2, <2>3
<1> QED BY <1>1, <1>2, <1>3, <1>4, <1>5

\* Which lines are grants and which are events shows in the line.
LEMMA LineKinds ==
  /\ Fragment \notin Grant \cup Event /\ Damaged \notin Grant \cup Event
  /\ \A x \in Grant : x \notin Event /\ x \in Line
  /\ \A x \in Event : x \notin Grant /\ x \in Line
  /\ \A x \in Line \ {Fragment, Damaged} :
       /\ x.event = "grant" => x \in Grant
       /\ x.event \in Locked => x \in Event
  /\ Fragment \in Line /\ Damaged \in Line
  BY WritersAssumption DEF Grant, Event, Line, Locked

\* The ledger after a line of any kind: grants in it are those issued.
LEMMA TracedGrows ==
  ASSUME TypeOK, Traced, NEW x \in Line, issued \subseteq issued',
         x \in Grant => x \in issued',
         ledger' \in {ledger, Appended(ledger, <<x>>), Append(ledger, Fragment)}
  PROVE  ledger' \in Seq(Line) /\ Traced'
<1>1. CASE ledger' = ledger
  BY <1>1 DEF TypeOK, Traced
<1>2. CASE ledger' = Appended(ledger, <<x>>)
  BY <1>2, LedgerGrows, LineKinds DEF TypeOK, Traced
<1>3. CASE ledger' = Append(ledger, Fragment)
  BY <1>3, LineKinds DEF TypeOK, Traced
<1> QED BY <1>1, <1>2, <1>3

\* Nothing another process does undoes what a process knows.
LEMMA OthersKnow ==
  ASSUME \A b \in Actors : Knows(b), issued \subseteq issued', NEW a \in Actors,
         \A b \in Actors \ {a} : pc'[b] = pc[b] /\ job'[b] = job[b],
         Knows(a)'
  PROVE  \A b \in Actors : Knows(b)'
<1>1. ASSUME NEW b \in Actors \ {a} PROVE Knows(b)'
  BY <1>1 DEF Knows, Licensed, Path
<1> QED BY <1>1

LEMMA NoJobType == NoJob \in Job
  BY DEF NoJob, Job, Texts

\* A command that ends knows nothing more.
LEMMA EndKnows ==
  ASSUME KnownInv, issued \subseteq issued', NEW a \in Actors, End(a)
  PROVE  /\ pc' \in [Actors -> Steps \cup {"idle"}]
         /\ job' \in [Actors -> Job]
         /\ holder' \in Actors \cup {None}
         /\ \A b \in Actors : Knows(b)'
<1>1. /\ pc'[a] = "idle"
      /\ \A b \in Actors \ {a} : pc'[b] = pc[b] /\ job'[b] = job[b]
  BY DEF End, KnownInv, TypeOK
<1>2. Knows(a)'
  BY <1>1 DEF Knows, HeldSteps
<1>3. \A b \in Actors : Knows(b)'
  BY <1>1, <1>2, OthersKnow DEF KnownInv
<1> QED BY <1>3, NoJobType DEF End, KnownInv, TypeOK

\* One that moves on, with local variables of their types.
LEMMA MoveKnows ==
  ASSUME KnownInv, issued \subseteq issued', NEW a \in Actors, NEW s \in Steps, NEW j \in Job,
         Goto(a, s), job' = [job EXCEPT ![a] = j], Knows(a)'
  PROVE  /\ pc' \in [Actors -> Steps \cup {"idle"}]
         /\ job' \in [Actors -> Job]
         /\ \A b \in Actors : Knows(b)'
<1>1. \A b \in Actors \ {a} : pc'[b] = pc[b] /\ job'[b] = job[b]
  BY DEF Goto, KnownInv, TypeOK
<1> QED BY <1>1, OthersKnow DEF Goto, KnownInv, TypeOK

\* Past judge a locked writer keeps its grant.
LEMMA HeldKnows ==
  ASSUME KnownInv, issued' = issued, NEW a \in Actors, pc[a] \in HeldSteps \ {"judge"},
         NEW s \in HeldSteps \ {"judge"}, s = "verify" => job[a].cmd = "generate",
         NEW j \in Job, j.cmd = job[a].cmd, j.issue = job[a].issue,
         j.grant = job[a].grant, j.at = job[a].at,
         Goto(a, s), job' = [job EXCEPT ![a] = j]
  PROVE  /\ pc' \in [Actors -> Steps \cup {"idle"}]
         /\ job' \in [Actors -> Job]
         /\ \A b \in Actors : Knows(b)'
<1>1. pc'[a] = s /\ job'[a] = j /\ s \in Steps
  BY DEF Goto, KnownInv, TypeOK, Steps
<1>2. Knows(a)
  BY DEF KnownInv
<1>3. Knows(a)'
  BY <1>1, <1>2 DEF Knows, Licensed, Path, HeldSteps
<1> QED BY <1>1, <1>3, MoveKnows

LEMMA StayKnows ==
  ASSUME KnownInv, issued' = issued, NEW a \in Actors, pc[a] \in HeldSteps \ {"judge"},
         NEW s \in HeldSteps \ {"judge"}, s = "verify" => job[a].cmd = "generate",
         Goto(a, s), job' = job
  PROVE  /\ pc' \in [Actors -> Steps \cup {"idle"}]
         /\ job' \in [Actors -> Job]
         /\ \A b \in Actors : Knows(b)'
<1>1. job[a] \in Job /\ job' = [job EXCEPT ![a] = job[a]]
  BY DEF KnownInv, TypeOK
<1> QED BY <1>1, HeldKnows

\* The files a writer leaves hold texts.
LEMMA FileTypes ==
  ASSUME TypeOK, NEW a \in Actors
  PROVE  /\ job[a] \in Job
         /\ Unlocked(a) \in [Files -> Texts]
         /\ Restored(a) \in [Files -> Texts]
         /\ [file EXCEPT ![Path(a)] = job[a].text] \in [Files -> Texts]
         /\ [Unlocked(a) EXCEPT ![Path(a)] = job[a].text] \in [Files -> Texts]
         /\ \A f : \A text \in Texts : [file EXCEPT ![f] = text] \in [Files -> Texts]
<1>1. job[a] \in Job /\ file \in [Files -> Texts]
  BY DEF TypeOK
<1>2. job[a].text \in Texts /\ job[a].source \in Texts /\ job[a].kept \in Texts
  BY <1>1 DEF Job
<1>3. \A g \in [Files -> Texts] : \A f : \A text \in Texts : [g EXCEPT ![f] = text] \in [Files -> Texts]
  OBVIOUS
<1>4. Unlocked(a) \in [Files -> Texts]
  BY <1>1, <1>2, <1>3 DEF Unlocked
<1> QED BY <1>1, <1>2, <1>3, <1>4 DEF Restored

\* A refusal preserves the invariant.
LEMMA RefuseKnows ==
  ASSUME KnownInv, NEW a \in Actors, End(a), UNCHANGED <<ledger, clock, declared, issued>>,
         file' \in [Files -> Texts]
  PROVE  KnownInv'
<1>1. /\ pc' \in [Actors -> Steps \cup {"idle"}]
      /\ job' \in [Actors -> Job]
      /\ holder' \in Actors \cup {None}
      /\ \A b \in Actors : Knows(b)'
  BY EndKnows
<1> QED BY <1>1 DEF KnownInv, TypeOK, Traced

-----------------------------------------------------------------------------
(* Every action preserves KnownInv.                                        *)

LEMMA SurroundingsKnow ==
  ASSUME KnownInv,
         \/ Tick
         \/ \E edit \in Editable : HandEdit(edit[1], edit[2])
         \/ \E whitelist \in Declarable : EditDescriptor(whitelist)
  PROVE  KnownInv'
<1>1. UNCHANGED <<ledger, holder, pc, job, issued>>
  BY DEF Tick, HandEdit, EditDescriptor, history
<1>2. Traced' /\ \A a \in Actors : Knows(a)'
  BY <1>1 DEF KnownInv, Traced, Knows, Licensed, Path
<1>3. file' \in [Files -> Texts] /\ clock' \in Nat /\ declared' \in SUBSET Supervisors
  <2>1. CASE Tick
    BY <2>1 DEF Tick, KnownInv, TypeOK
  <2>2. CASE \E edit \in Editable : HandEdit(edit[1], edit[2])
    BY <2>2, WritersAssumption DEF HandEdit, KnownInv, TypeOK
  <2>3. CASE \E whitelist \in Declarable : EditDescriptor(whitelist)
    BY <2>3, WritersAssumption DEF EditDescriptor, KnownInv, TypeOK
  <2> QED BY <2>1, <2>2, <2>3
<1> QED BY <1>1, <1>2, <1>3 DEF KnownInv, TypeOK

\* A request becomes a grant whose line is written, in full or not.
LEMMA AuthorizeKnows ==
  ASSUME KnownInv, NEW a \in Actors, Authorize(a)
  PROVE  KnownInv'
<1>0. job[a] \in Job /\ Knows(a)
  BY DEF KnownInv, TypeOK
<1>1. ASSUME NEW request \in Requests, NEW moment \in 0..MaxClock,
             AuthorizeRead(a, request, moment)
      PROVE  KnownInv'
  <2> DEFINE g == GrantOf(request, moment)
             j == [NoJob EXCEPT !.grant = g]
  <2>1. g \in Grant
    BY <1>1, WritersAssumption DEF GrantOf, Grant
  <2> HIDE DEF g
  <2>2. j \in Job /\ j.grant = g
    BY <2>1, NoJobType DEF Job, NoJob
  <2>3. job' = [job EXCEPT ![a] = j] /\ Goto(a, "record") /\ issued' = issued
    BY <1>1 DEF AuthorizeRead, g, history
  <2> HIDE DEF j
  <2>4. pc'[a] = "record" /\ job'[a] = j
    BY <2>3 DEF Goto, KnownInv, TypeOK
  <2>5. Knows(a)'
    BY <2>1, <2>2, <2>4 DEF Knows, HeldSteps
  <2>6. /\ pc' \in [Actors -> Steps \cup {"idle"}] /\ job' \in [Actors -> Job]
        /\ \A b \in Actors : Knows(b)'
    BY <2>2, <2>3, <2>5, MoveKnows DEF Steps
  <2> QED BY <1>1, <2>6 DEF AuthorizeRead, KnownInv, TypeOK, Traced, shared, history
<1>2. CASE AuthorizeAppend(a) \/ AuthorizeFails(a)
  <2> DEFINE g == job[a].grant
  <2>1. g \in Grant
    BY <1>0, <1>2 DEF AuthorizeAppend, AuthorizeFails, Knows
  <2>2. /\ End(a) /\ UNCHANGED <<file, clock, declared>>
        /\ \/ ledger' = Appended(ledger, <<g>>) /\ issued' = issued \cup {g}
           \/ ledger' \in {ledger, Append(ledger, Fragment)} /\ issued' = issued
    BY <1>2 DEF AuthorizeAppend, AuthorizeFails
  <2>3. /\ pc' \in [Actors -> Steps \cup {"idle"}] /\ job' \in [Actors -> Job]
        /\ holder' \in Actors \cup {None} /\ \A b \in Actors : Knows(b)'
    BY <2>2, EndKnows
  <2>4. CASE ledger' = Appended(ledger, <<g>>) /\ issued' = issued \cup {g}
    <3>1. ledger' \in Seq(Line) /\ Traced'
      BY <2>1, <2>2, <2>4, LineKinds, TracedGrows DEF KnownInv
    <3> QED BY <2>1, <2>2, <2>3, <3>1 DEF KnownInv, TypeOK
  <2>5. CASE ledger' \in {ledger, Append(ledger, Fragment)} /\ issued' = issued
    <3>1. ledger' \in Seq(Line) /\ Traced'
      BY <2>2, <2>5, LineKinds, TracedGrows DEF KnownInv
    <3> QED BY <2>1, <2>2, <2>3, <3>1 DEF KnownInv, TypeOK
  <2> QED BY <2>2, <2>4, <2>5
<1> QED BY <1>1, <1>2 DEF Authorize

LEMMA BeginKnows ==
  ASSUME KnownInv, NEW a \in Actors, NEW cmd \in Commands, NEW issue \in Issues,
         NEW text \in Texts, Begin(a, cmd, issue, text)
  PROVE  KnownInv'
<1> DEFINE j == [NoJob EXCEPT !.cmd = cmd, !.issue = issue, !.declared = declared, !.text = text,
                     !.source = IF cmd = "crate" THEN file["crate"] ELSE None]
<1>1. (IF cmd = "crate" THEN file["crate"] ELSE None) \in Texts
  BY DEF KnownInv, TypeOK, Files, Texts
<1>2. cmd \in Locked /\ declared \in SUBSET Supervisors
  BY DEF Begin, KnownInv, TypeOK
<1>3. j \in Job /\ j.cmd = cmd
  BY <1>1, <1>2, NoJobType DEF Job, NoJob
<1>4. job' = [job EXCEPT ![a] = j] /\ Goto(a, "acquire") /\ issued' = issued
  BY DEF Begin, history
<1> HIDE DEF j
<1>5. pc'[a] = "acquire" /\ job'[a] = j
  BY <1>4 DEF Goto, KnownInv, TypeOK
<1>6. Knows(a)'
  BY <1>2, <1>3, <1>5 DEF Knows, HeldSteps
<1>7. /\ pc' \in [Actors -> Steps \cup {"idle"}] /\ job' \in [Actors -> Job]
      /\ \A b \in Actors : Knows(b)'
  BY <1>3, <1>4, <1>6, MoveKnows DEF Steps
<1> QED BY <1>7 DEF Begin, KnownInv, TypeOK, Traced, shared, history

\* A line by which a's target may be written is a grant that licenses it.
LEMMA AuthorityLicenses ==
  ASSUME KnownInv, NEW a \in Actors, NEW asked, NEW g \in Authority(a, asked)
  PROVE  /\ g \in Grant /\ g \in issued /\ Covers(g, Path(a))
         /\ g.request.issue = job[a].issue
         /\ g.issuedAt <= clock /\ clock < g.issuedAt + g.request.ttl
         /\ \E l \in DOMAIN ledger : ledger[l] = g
         /\ Readable(ledger)
<1>1. PICK l \in AuthorityLines(a, asked) : ledger[l] = g /\ Readable(ledger)
  BY DEF Authority
<1>2. l \in ExactLines(ledger, Path(a), job[a].issue, job[a].declared, clock)
  BY <1>1 DEF AuthorityLines
<1>3. /\ l \in GrantLines(ledger) /\ Covers(g, Path(a))
      /\ g.request.issue = job[a].issue
      /\ g.issuedAt <= clock /\ clock < g.issuedAt + g.request.ttl
  BY <1>1, <1>2 DEF ExactLines, Live
<1>4. l \in DOMAIN ledger /\ g \in Line \ {Fragment, Damaged} /\ g.event = "grant"
  BY <1>1, <1>3 DEF GrantLines, KnownInv, TypeOK
<1>5. g \in Grant
  BY <1>4, LineKinds
<1> QED BY <1>1, <1>3, <1>4, <1>5 DEF KnownInv, Traced

\* The last event's pin, if there is one, is a text.
LEMMA PinType ==
  ASSUME TypeOK
  PROVE  LastPin \in Texts
<1> DEFINE last == {k \in EventLines("crate") : \A l \in EventLines("crate") : l <= k}
<1>1. ASSUME NEW k \in last PROVE ledger[k].text \in Texts
  <2>1. ledger[k] \in Line \ {Fragment, Damaged} /\ ledger[k].event = "crate"
    BY <1>1 DEF EventLines, TypeOK
  <2>2. ledger[k] \in Event
    BY <2>1, LineKinds DEF Locked
  <2> QED BY <2>2 DEF Event
<1>2. CASE last = {}
  BY <1>2 DEF LastPin, Texts
<1>3. CASE last # {}
  <2>1. (CHOOSE k \in last : TRUE) \in last
    BY <1>3
  <2> QED BY <1>1, <1>3, <2>1 DEF LastPin
<1> QED BY <1>2, <1>3

\* Taking the lock, and the decision under it.
LEMMA DecisionKnows ==
  ASSUME KnownInv, NEW a \in Actors, Acquire(a) \/ JudgeGrants(a) \/ JudgeRefuses(a)
  PROVE  KnownInv'
<1>0. job[a] \in Job /\ Knows(a)
  BY DEF KnownInv, TypeOK
<1>1. CASE Acquire(a)
  <2> DEFINE j == [job[a] EXCEPT !.mark = Len(ledger)]
  <2>1. Len(ledger) \in Nat
    BY DEF KnownInv, TypeOK
  <2>2. j \in Job /\ j.cmd = job[a].cmd
    BY <1>0, <2>1 DEF Job
  <2>3. job' = [job EXCEPT ![a] = j] /\ Goto(a, "judge") /\ issued' = issued
    BY <1>1 DEF Acquire, history
  <2> HIDE DEF j
  <2>4. pc'[a] = "judge" /\ job'[a] = j
    BY <2>3 DEF Goto, KnownInv, TypeOK
  <2>5. Knows(a)'
    BY <1>0, <1>1, <2>2, <2>4 DEF Acquire, Knows, HeldSteps
  <2>6. /\ pc' \in [Actors -> Steps \cup {"idle"}] /\ job' \in [Actors -> Job]
        /\ \A b \in Actors : Knows(b)'
    BY <2>2, <2>3, <2>5, MoveKnows DEF Steps, HeldSteps
  <2> QED BY <1>1, <2>6 DEF Acquire, KnownInv, TypeOK, Traced, shared, history
<1>2. CASE JudgeGrants(a)
  <2>0. PICK asked \in Asked : \E g \in Authority(a, asked) :
          job' = [job EXCEPT ![a] =
            [@ EXCEPT !.grant = g, !.at = clock, !.spent = SpentOn(job[a].cmd, g),
                      !.prior = LastPin]]
    BY <1>2 DEF JudgeGrants
  <2>1. PICK g \in Authority(a, asked) :
          job' = [job EXCEPT ![a] =
            [@ EXCEPT !.grant = g, !.at = clock, !.spent = SpentOn(job[a].cmd, g),
                      !.prior = LastPin]]
    BY <2>0
  <2> DEFINE j == [job[a] EXCEPT !.grant = g, !.at = clock, !.spent = SpentOn(job[a].cmd, g),
                                 !.prior = LastPin]
  <2>2. /\ g \in Grant /\ g \in issued /\ Covers(g, Path(a))
        /\ g.request.issue = job[a].issue
        /\ g.issuedAt <= clock /\ clock < g.issuedAt + g.request.ttl
    BY AuthorityLicenses
  <2>3. SpentOn(job[a].cmd, g) \in BOOLEAN
    BY DEF SpentOn
  <2>4. LastPin \in Texts /\ clock \in Nat
    BY PinType DEF KnownInv, TypeOK
  <2>5. /\ j \in Job /\ j.cmd = job[a].cmd /\ j.issue = job[a].issue
        /\ j.grant = g /\ j.at = clock
    BY <1>0, <2>2, <2>3, <2>4 DEF Job
  <2>6. job' = [job EXCEPT ![a] = j] /\ Goto(a, "inspect") /\ issued' = issued
    BY <1>2, <2>1 DEF JudgeGrants, history
  <2> HIDE DEF j
  <2>7. pc'[a] = "inspect" /\ job'[a] = j
    BY <2>6 DEF Goto, KnownInv, TypeOK
  <2>8. Knows(a)'
    <3>1. job[a].cmd \in Locked
      BY <1>0, <1>2 DEF JudgeGrants, Knows, HeldSteps
    <3>2. Licensed(a, Path(a))'
      BY <2>2, <2>5, <2>6, <2>7 DEF Licensed, Path
    <3> QED BY <2>5, <2>7, <3>1, <3>2 DEF Knows, HeldSteps
  <2>9. /\ pc' \in [Actors -> Steps \cup {"idle"}] /\ job' \in [Actors -> Job]
        /\ \A b \in Actors : Knows(b)'
    BY <2>5, <2>6, <2>8, MoveKnows DEF Steps, HeldSteps
  <2> QED BY <1>2, <2>9 DEF JudgeGrants, KnownInv, TypeOK, Traced, shared, history
<1>3. CASE JudgeRefuses(a)
  BY <1>3, RefuseKnows DEF JudgeRefuses, KnownInv, TypeOK, shared, history
<1> QED BY <1>1, <1>2, <1>3

\* A step under the lock past the decision that leaves the ledger alone.
LEMMA StepKnows ==
  ASSUME KnownInv, NEW a \in Actors, pc[a] \in HeldSteps \ {"judge"},
         NEW s \in HeldSteps \ {"judge"}, s = "verify" => job[a].cmd = "generate",
         NEW j \in Job, j.cmd = job[a].cmd, j.issue = job[a].issue,
         j.grant = job[a].grant, j.at = job[a].at,
         Goto(a, s), job' = [job EXCEPT ![a] = j],
         UNCHANGED <<ledger, clock, declared, holder, issued>>, file' \in [Files -> Texts]
  PROVE  KnownInv'
<1>1. /\ pc' \in [Actors -> Steps \cup {"idle"}]
      /\ job' \in [Actors -> Job]
      /\ \A b \in Actors : Knows(b)'
  BY HeldKnows
<1> QED BY <1>1 DEF KnownInv, TypeOK, Traced

LEMMA SameKnows ==
  ASSUME KnownInv, NEW a \in Actors, pc[a] \in HeldSteps \ {"judge"},
         NEW s \in HeldSteps \ {"judge"}, s = "verify" => job[a].cmd = "generate",
         Goto(a, s), UNCHANGED <<ledger, clock, declared, holder, job, issued>>,
         file' \in [Files -> Texts]
  PROVE  KnownInv'
<1>1. job[a] \in Job /\ job' = [job EXCEPT ![a] = job[a]]
  BY DEF KnownInv, TypeOK
<1> QED BY <1>1, StepKnows

\* The inspection of the target.
LEMMA InspectKnows ==
  ASSUME KnownInv, NEW a \in Actors,
         InspectManifest(a) \/ InspectRoot(a) \/ InspectCrate(a) \/ Recheck(a)
  PROVE  KnownInv'
<1>0. /\ job[a] \in Job /\ pc[a] \in HeldSteps \ {"judge"}
      /\ file \in [Files -> Texts] /\ Unlocked(a) \in [Files -> Texts]
  BY FileTypes DEF KnownInv, TypeOK, InspectManifest, InspectRoot, InspectCrate, Recheck, HeldSteps
<1>1. CASE Refuse(a)
  BY <1>0, <1>1, RefuseKnows DEF Refuse, Abandon
<1>2. CASE InspectManifest(a) /\ ~Refuse(a)
  <2> DEFINE j == [job[a] EXCEPT !.source = file["manifest"]]
             s == IF file["manifest"] = None THEN "write" ELSE "verify"
  <2>1. file["manifest"] \in Texts
    BY <1>0 DEF Files
  <2>2. /\ j \in Job /\ j.cmd = job[a].cmd /\ j.issue = job[a].issue
        /\ j.grant = job[a].grant /\ j.at = job[a].at
    BY <1>0, <2>1 DEF Job
  <2>3. /\ Goto(a, s) /\ job' = [job EXCEPT ![a] = j] /\ job[a].cmd = "generate"
        /\ UNCHANGED <<ledger, file, clock, declared, holder, issued>>
    BY <1>2 DEF InspectManifest, shared, history
  <2>4. s \in HeldSteps \ {"judge"}
    BY DEF HeldSteps
  <2> HIDE DEF j, s
  <2> QED BY <1>0, <2>2, <2>3, <2>4, StepKnows
<1>3. CASE InspectRoot(a) /\ ~Refuse(a)
  <2> DEFINE j == [job[a] EXCEPT !.source = file["root"]]
  <2>1. file["root"] \in Texts
    BY <1>0 DEF Files
  <2>2. /\ j \in Job /\ j.cmd = job[a].cmd /\ j.issue = job[a].issue
        /\ j.grant = job[a].grant /\ j.at = job[a].at
    BY <1>0, <2>1 DEF Job
  <2>3. /\ Goto(a, "recheck") /\ job' = [job EXCEPT ![a] = j]
        /\ UNCHANGED <<ledger, file, clock, declared, holder, issued>>
    BY <1>3 DEF InspectRoot, shared, history
  <2> HIDE DEF j
  <2>4. "recheck" \in HeldSteps \ {"judge"}
    BY DEF HeldSteps
  <2> QED BY <1>0, <2>2, <2>3, <2>4, StepKnows
<1>4. CASE InspectCrate(a) /\ ~End(a)
  <2> DEFINE j == [job[a] EXCEPT !.root = file["root"], !.kept = file["lock"]]
  <2>1. file["root"] \in Texts /\ file["lock"] \in Texts
    BY <1>0 DEF Files
  <2>2. /\ j \in Job /\ j.cmd = job[a].cmd /\ j.issue = job[a].issue
        /\ j.grant = job[a].grant /\ j.at = job[a].at
    BY <1>0, <2>1 DEF Job
  <2>3. /\ Goto(a, "recheck") /\ job' = [job EXCEPT ![a] = j]
        /\ \E text \in LockTexts : file' = [file EXCEPT !["lock"] = text]
        /\ UNCHANGED <<ledger, clock, declared, holder, issued>>
    BY <1>4 DEF InspectCrate, history
  <2> HIDE DEF j
  <2>4. file' \in [Files -> Texts] /\ "recheck" \in HeldSteps \ {"judge"}
    BY <1>0, <2>3 DEF HeldSteps, Texts
  <2> QED BY <1>0, <2>2, <2>3, <2>4, StepKnows
<1>5. CASE InspectCrate(a) /\ End(a)
  <2>1. UNCHANGED <<ledger, file, clock, declared, issued>>
    <3>1. pc'[a] = "idle"
      BY <1>5 DEF End, KnownInv, TypeOK
    <3>2. ~Goto(a, "recheck")
      BY <3>1 DEF Goto, KnownInv, TypeOK
    <3> QED BY <1>5, <3>2 DEF InspectCrate, shared, history
  <2> QED BY <1>0, <1>5, <2>1, RefuseKnows
<1>6. CASE Recheck(a) /\ ~Refuse(a)
  <2> DEFINE s == IF job[a].text = job[a].source THEN "validate" ELSE "write"
  <2>1. /\ Goto(a, s)
        /\ UNCHANGED <<ledger, file, clock, declared, holder, job, issued>>
    BY <1>6 DEF Recheck, shared, history
  <2>2. s \in HeldSteps \ {"judge"} /\ s # "verify"
    BY DEF HeldSteps
  <2> HIDE DEF s
  <2> QED BY <1>0, <2>1, <2>2, SameKnows
<1> QED BY <1>1, <1>2, <1>3, <1>4, <1>5, <1>6

\* The write and the checks behind it.
LEMMA WriteKnows ==
  ASSUME KnownInv, NEW a \in Actors,
         \/ Write(a) \/ WriteFails(a) \/ Verify(a) \/ ReadFails(a)
         \/ ValidateRoot(a) \/ ValidateCrate(a) \/ Final(a)
  PROVE  KnownInv'
<1>0. /\ job[a] \in Job /\ pc[a] \in HeldSteps \ {"judge"}
      /\ file \in [Files -> Texts] /\ Unlocked(a) \in [Files -> Texts]
      /\ [file EXCEPT ![Path(a)] = job[a].text] \in [Files -> Texts]
      /\ [Unlocked(a) EXCEPT ![Path(a)] = job[a].text] \in [Files -> Texts]
      /\ [file EXCEPT !["manifest"] = IF job[a].wrote THEN None ELSE @] \in [Files -> Texts]
  <2>1. pc[a] \in HeldSteps \ {"judge"}
    BY DEF Write, WriteFails, Verify, ReadFails, ValidateRoot, ValidateCrate, Final, HeldSteps
  <2>2. (IF job[a].wrote THEN None ELSE file["manifest"]) \in Texts
    BY DEF KnownInv, TypeOK, Files, Texts
  <2> QED BY <2>1, <2>2, FileTypes DEF KnownInv, TypeOK
<1>1. CASE Refuse(a)
  BY <1>0, <1>1, RefuseKnows DEF Refuse, Abandon
<1>2. CASE Write(a)
  <2> DEFINE j == [job[a] EXCEPT !.wrote = TRUE]
             s == IF job[a].cmd = "generate" THEN "verify" ELSE "validate"
  <2>1. /\ j \in Job /\ j.cmd = job[a].cmd /\ j.issue = job[a].issue
        /\ j.grant = job[a].grant /\ j.at = job[a].at
    BY <1>0 DEF Job
  <2>2. /\ Goto(a, s) /\ job' = [job EXCEPT ![a] = j]
        /\ file' = [file EXCEPT ![Path(a)] = job[a].text]
        /\ UNCHANGED <<ledger, clock, declared, holder, issued>>
    BY <1>2 DEF Write
  <2>3. s \in HeldSteps \ {"judge"} /\ (s = "verify" => job[a].cmd = "generate")
    BY DEF HeldSteps
  <2> HIDE DEF j, s
  <2> QED BY <1>0, <2>1, <2>2, <2>3, StepKnows
<1>3. CASE WriteFails(a) /\ ~Refuse(a)
  BY <1>0, <1>3, RefuseKnows DEF WriteFails
<1>4. CASE Verify(a) \/ ReadFails(a)
  <2>1. \/ Refuse(a)
        \/ /\ file' = [file EXCEPT !["manifest"] = IF job[a].wrote THEN None ELSE @]
           /\ End(a) /\ UNCHANGED <<ledger, clock, declared, issued>>
        \/ /\ Goto(a, "audit") \/ Goto(a, "restore")
           /\ UNCHANGED <<ledger, file, clock, declared, holder, job, issued>>
    BY <1>4 DEF Verify, ReadFails, Abandon, shared, history
  <2>2. "audit" \in HeldSteps \ {"judge"} /\ "restore" \in HeldSteps \ {"judge"}
    BY DEF HeldSteps
  <2> QED BY <1>0, <1>1, <2>1, <2>2, RefuseKnows, SameKnows
<1>5. CASE (ValidateRoot(a) \/ Final(a)) /\ ~Refuse(a)
  <2>1. /\ Goto(a, "final") \/ Goto(a, "restore") \/ Goto(a, "audit")
        /\ UNCHANGED <<ledger, file, clock, declared, holder, job, issued>>
    BY <1>5 DEF ValidateRoot, Final, shared, history
  <2>2. {"final", "restore", "audit"} \subseteq HeldSteps \ {"judge"}
    BY DEF HeldSteps
  <2> QED BY <1>0, <2>1, <2>2, SameKnows
<1>6. CASE ValidateCrate(a)
  <2>1. PICK text \in LockTexts, failed \in BOOLEAN :
          /\ file' = [file EXCEPT !["lock"] = text]
          /\ job' = [job EXCEPT ![a].failed = failed]
    BY <1>6 DEF ValidateCrate
  <2> DEFINE j == [job[a] EXCEPT !.failed = failed]
  <2>2. /\ j \in Job /\ j.cmd = job[a].cmd /\ j.issue = job[a].issue
        /\ j.grant = job[a].grant /\ j.at = job[a].at
    BY <1>0 DEF Job
  <2>3. /\ Goto(a, "relock") /\ job' = [job EXCEPT ![a] = j]
        /\ UNCHANGED <<ledger, clock, declared, holder, issued>>
    BY <1>6, <2>1 DEF ValidateCrate, history
  <2> HIDE DEF j
  <2>4. file' \in [Files -> Texts] /\ "relock" \in HeldSteps \ {"judge"}
    BY <1>0, <2>1 DEF HeldSteps, Texts
  <2> QED BY <1>0, <2>2, <2>3, <2>4, StepKnows
<1> QED BY <1>1, <1>2, <1>3, <1>4, <1>5, <1>6

\* The event, and the exception paths.
LEMMA AuditKnows ==
  ASSUME KnownInv, NEW a \in Actors,
         \/ Relock(a) \/ RelockFails(a) \/ Audit(a) \/ AuditFails(a)
         \/ Restore(a) \/ RestoreFails(a)
  PROVE  KnownInv'
<1>0. /\ job[a] \in Job /\ pc[a] \in HeldSteps \ {"judge"} /\ Knows(a)
      /\ file \in [Files -> Texts] /\ Unlocked(a) \in [Files -> Texts]
      /\ Restored(a) \in [Files -> Texts]
  BY FileTypes DEF KnownInv, TypeOK, Relock, RelockFails, Audit, AuditFails, Restore, RestoreFails, HeldSteps
<1>1. "audit" \in HeldSteps \ {"judge"} /\ "restore" \in HeldSteps \ {"judge"}
  BY DEF HeldSteps
<1>2. EventOf(a) \in Event
  <2>1. job[a].cmd \in Locked /\ job[a].grant \in Grant /\ job[a].text \in Texts
    BY <1>0 DEF Knows, Licensed, Job
  <2> QED BY <2>1 DEF EventOf, Event
<1>3. CASE Relock(a)
  <2> DEFINE s == IF ~job[a].failed /\ file["crate"] = job[a].text /\ file["root"] = job[a].root
                    THEN "audit" ELSE "restore"
  <2>1. /\ Goto(a, s) /\ file' = Unlocked(a)
        /\ UNCHANGED <<ledger, clock, declared, holder, job, issued>>
    BY <1>3 DEF Relock, history
  <2>2. s \in HeldSteps \ {"judge"} /\ s # "verify"
    BY DEF HeldSteps
  <2> HIDE DEF s
  <2> QED BY <1>0, <2>1, <2>2, SameKnows
<1>4. CASE RelockFails(a)
  BY <1>0, <1>1, <1>4, RefuseKnows, SameKnows DEF RelockFails, shared, history
<1>5. CASE Restore(a) \/ RestoreFails(a)
  BY <1>0, <1>5, RefuseKnows DEF Restore, RestoreFails, Abandon, shared
<1>6. CASE Audit(a)
  <2>1. ledger' \in Seq(Line) /\ Traced'
    BY <1>2, <1>6, LineKinds, TracedGrows DEF Audit, KnownInv, history
  <2>2. /\ pc' \in [Actors -> Steps \cup {"idle"}] /\ job' \in [Actors -> Job]
        /\ holder' \in Actors \cup {None} /\ \A b \in Actors : Knows(b)'
    BY <1>6, EndKnows DEF Audit, history
  <2> QED BY <1>6, <2>1, <2>2 DEF Audit, KnownInv, TypeOK, history
<1>7. CASE AuditFails(a)
  <2>1. ledger' \in Seq(Line) /\ Traced'
    <3>1. CASE ledger' \in {ledger, Appended(ledger, <<EventOf(a)>>), Append(ledger, Fragment)}
      BY <1>2, <1>7, <3>1, LineKinds, TracedGrows DEF AuditFails, KnownInv, history
    <3>2. CASE ledger' = TruncatedTo(ledger, job[a].mark)
      <4>1. job[a].mark \in Nat
        BY <1>0 DEF Job
      <4> QED BY <1>7, <3>2, <4>1, LedgerShrinks, LineKinds DEF AuditFails, KnownInv, Traced, history
    <3> QED BY <1>7, <3>1, <3>2 DEF AuditFails
  <2>2. issued' = issued /\ Goto(a, "restore") /\ job' = job
    BY <1>7 DEF AuditFails, history
  <2>3. /\ pc' \in [Actors -> Steps \cup {"idle"}] /\ job' \in [Actors -> Job]
        /\ \A b \in Actors : Knows(b)'
    BY <1>0, <1>1, <2>2, StayKnows
  <2> QED BY <1>7, <2>1, <2>3 DEF AuditFails, KnownInv, TypeOK, history
<1> QED BY <1>3, <1>4, <1>5, <1>6, <1>7

LEMMA ScaffoldKnows ==
  ASSUME KnownInv, NEW a \in Actors, Scaffold(a)
  PROVE  KnownInv'
<1>0. job[a] \in Job /\ Knows(a) /\ file \in [Files -> Texts]
  BY DEF KnownInv, TypeOK
<1>1. ASSUME NEW issue \in Issues, ScaffoldStart(a, issue)
      PROVE  KnownInv'
  <2> DEFINE j == [NoJob EXCEPT !.issue = issue, !.declared = declared]
  <2>1. j \in Job
    BY NoJobType DEF Job, KnownInv, TypeOK
  <2>2. job' = [job EXCEPT ![a] = j] /\ Goto(a, "grant") /\ issued' = issued
    BY <1>1 DEF ScaffoldStart, history
  <2> HIDE DEF j
  <2>3. pc'[a] = "grant"
    BY <2>2 DEF Goto, KnownInv, TypeOK
  <2>4. Knows(a)'
    BY <2>3 DEF Knows, HeldSteps
  <2>5. /\ pc' \in [Actors -> Steps \cup {"idle"}] /\ job' \in [Actors -> Job]
        /\ \A b \in Actors : Knows(b)'
    BY <2>1, <2>2, <2>4, MoveKnows DEF Steps
  <2> QED BY <1>1, <2>5 DEF ScaffoldStart, KnownInv, TypeOK, Traced, shared, history
<1>2. CASE End(a) /\ UNCHANGED <<shared, history>>
  BY <1>0, <1>2, RefuseKnows DEF shared, history
<1>3. CASE ScaffoldGrant(a) /\ ~End(a)
  <2> DEFINE lines == CoveringLines(ledger, "crate", job[a].issue, job[a].declared, clock)
  <2>1. PICK k \in lines : job' = [job EXCEPT ![a] = [@ EXCEPT !.grant = ledger[k], !.at = clock]]
    BY <1>3 DEF ScaffoldGrant
  <2> DEFINE g == ledger[k]
             j == [job[a] EXCEPT !.grant = g, !.at = clock]
  <2>2. /\ k \in GrantLines(ledger) /\ Covers(g, "crate")
        /\ g.request.issue = job[a].issue
        /\ g.issuedAt <= clock /\ clock < g.issuedAt + g.request.ttl
    BY DEF CoveringLines, Live
  <2>3. k \in DOMAIN ledger /\ g \in Line \ {Fragment, Damaged} /\ g.event = "grant"
    BY <2>2 DEF GrantLines, KnownInv, TypeOK
  <2>4. g \in Grant /\ g \in issued
    BY <2>3, LineKinds DEF KnownInv, Traced
  <2> HIDE DEF g
  <2>5. j \in Job /\ j.issue = job[a].issue /\ j.grant = g /\ j.at = clock
    BY <1>0, <2>4 DEF Job, KnownInv, TypeOK
  <2>6. job' = [job EXCEPT ![a] = j] /\ Goto(a, "look") /\ UNCHANGED <<shared, holder, history>>
    BY <1>3, <2>1 DEF ScaffoldGrant, g
  <2> HIDE DEF j
  <2>7. pc'[a] = "look" /\ job'[a] = j
    BY <2>6 DEF Goto, KnownInv, TypeOK
  <2>8. Licensed(a, "crate")'
    BY <2>2, <2>4, <2>5, <2>6, <2>7 DEF Licensed, history
  <2>9. Knows(a)'
    BY <2>7, <2>8 DEF Knows, HeldSteps
  <2>10. /\ pc' \in [Actors -> Steps \cup {"idle"}] /\ job' \in [Actors -> Job]
         /\ \A b \in Actors : Knows(b)'
    BY <2>5, <2>6, <2>9, MoveKnows DEF Steps, history
  <2> QED BY <2>6, <2>10 DEF KnownInv, TypeOK, Traced, shared, history
<1>4. CASE ScaffoldLook(a) /\ ~End(a)
  <2> DEFINE j == [job[a] EXCEPT !.kept = file["source"]]
             s == IF file["crate"] = None THEN "put" ELSE "skeleton"
  <2>1. file["source"] \in Texts
    BY <1>0 DEF Files
  <2>2. j \in Job /\ j.issue = job[a].issue /\ j.grant = job[a].grant /\ j.at = job[a].at
    BY <1>0, <2>1 DEF Job
  <2>3. job' = [job EXCEPT ![a] = j] /\ Goto(a, s) /\ UNCHANGED <<shared, holder, history>>
    BY <1>4 DEF ScaffoldLook
  <2>4. s \in {"put", "skeleton"} /\ Licensed(a, "crate")
    BY <1>0, <1>4 DEF ScaffoldLook, Knows
  <2> HIDE DEF j, s
  <2>5. pc'[a] = s /\ job'[a] = j
    BY <2>3 DEF Goto, KnownInv, TypeOK
  <2>6. Knows(a)'
    BY <2>2, <2>3, <2>4, <2>5 DEF Knows, Licensed, HeldSteps, history
  <2>7. /\ pc' \in [Actors -> Steps \cup {"idle"}] /\ job' \in [Actors -> Job]
        /\ \A b \in Actors : Knows(b)'
    BY <2>2, <2>3, <2>4, <2>6, MoveKnows DEF Steps, history
  <2> QED BY <2>3, <2>7 DEF KnownInv, TypeOK, Traced, shared, history
<1>5. CASE ScaffoldPut(a)
  <2>1. job' = [job EXCEPT ![a] = job[a]] /\ Goto(a, "skeleton") /\ issued' = issued /\ job' = job
    BY <1>5 DEF ScaffoldPut, KnownInv, TypeOK, history
  <2>2. pc'[a] = "skeleton" /\ Licensed(a, "crate")
    BY <1>0, <1>5, <2>1 DEF ScaffoldPut, Knows, Goto, KnownInv, TypeOK
  <2>3. Knows(a)'
    BY <2>1, <2>2 DEF Knows, Licensed, HeldSteps
  <2>4. /\ pc' \in [Actors -> Steps \cup {"idle"}] /\ job' \in [Actors -> Job]
        /\ \A b \in Actors : Knows(b)'
    BY <1>0, <2>1, <2>3, MoveKnows DEF Steps
  <2>5. file' \in [Files -> Texts]
    BY <1>0, <1>5 DEF ScaffoldPut, Texts
  <2> QED BY <1>5, <2>4, <2>5 DEF ScaffoldPut, KnownInv, TypeOK, Traced, history
<1>6. CASE ScaffoldSkeleton(a)
  <2>1. file' \in [Files -> Texts]
    BY <1>0, <1>6 DEF ScaffoldSkeleton, Texts
  <2> QED BY <1>6, <2>1, RefuseKnows DEF ScaffoldSkeleton, history
<1> QED BY <1>1, <1>2, <1>3, <1>4, <1>5, <1>6
        DEF Scaffold, ScaffoldGrant, ScaffoldLook, ScaffoldFails

LEMMA CrashKnows ==
  ASSUME KnownInv, NEW a \in Actors, Crash(a)
  PROVE  KnownInv'
<1>1. /\ End(a) /\ UNCHANGED <<file, clock, declared, issued>>
      /\ ledger' \in {ledger, Append(ledger, Fragment)}
  BY DEF Crash
<1>2. ledger' \in Seq(Line) /\ Traced'
  BY <1>1, LineKinds, TracedGrows DEF KnownInv
<1>3. /\ pc' \in [Actors -> Steps \cup {"idle"}] /\ job' \in [Actors -> Job]
      /\ holder' \in Actors \cup {None} /\ \A b \in Actors : Knows(b)'
  BY <1>1, EndKnows
<1> QED BY <1>1, <1>2, <1>3 DEF KnownInv, TypeOK

LEMMA InitKnows == Init => KnownInv
<1> SUFFICES ASSUME Init PROVE KnownInv
  OBVIOUS
<1>1. ledger \in Seq(Line) /\ file \in [Files -> Texts] /\ declared \in SUBSET Supervisors
  BY WritersAssumption DEF Init
<1>2. \A a \in Actors : Knows(a)
  BY DEF Init, Knows, HeldSteps
<1> QED BY <1>1, <1>2, NoJobType DEF Init, KnownInv, TypeOK, Traced

LEMMA NextKnows == KnownInv /\ [Next]_vars => KnownInv'
<1> SUFFICES ASSUME KnownInv, [Next]_vars PROVE KnownInv'
  OBVIOUS
<1>1. ASSUME NEW a \in Actors, LockedStep(a) PROVE KnownInv'
  BY <1>1, DecisionKnows, InspectKnows, WriteKnows, AuditKnows DEF LockedStep
<1>2. CASE UNCHANGED vars
  BY <1>2 DEF vars, KnownInv, TypeOK, Traced, Knows, Licensed, Path
<1> QED BY <1>1, <1>2, SurroundingsKnow, AuthorizeKnows, BeginKnows, ScaffoldKnows, CrashKnows
        DEF Next

\* Every reachable state of the grant ledger, its lock and the files around it
\* has the declared types.
THEOREM GrantsTyped == Spec => []TypeOK
<1>1. KnownInv => TypeOK
  BY DEF KnownInv
<1> QED BY <1>1, InitKnows, NextKnows, PTL DEF Spec

-----------------------------------------------------------------------------
(* Who changes a protected file, and by what right.                        *)

\* Putting Cargo.lock back changes no protected file.
LEMMA UnlockedProtects ==
  ASSUME TypeOK, NEW a \in Actors, NEW f \in Protected
  PROVE  Unlocked(a)[f] = file[f]
  BY DEF Unlocked, TypeOK, Protected, Files

LEMMA StepLicensed ==
  ASSUME KnownInv, NEW a \in Actors, LockedStep(a) \/ Scaffold(a),
         NEW f \in Protected, file'[f] # file[f]
  PROVE  pc'[a] # pc[a] /\ Licensed(a, f)
<1>0. /\ file \in [Files -> Texts] /\ pc \in [Actors -> Steps \cup {"idle"}]
      /\ Knows(a) /\ f \in Files
  BY DEF KnownInv, TypeOK, Protected, Files
<1>1. Unlocked(a)[f] = file[f]
  BY UnlockedProtects DEF KnownInv
<1>2. ~Refuse(a)
  BY <1>1 DEF Refuse
<1>3. CASE \/ pc[a] \in HeldSteps \ {"judge"} /\ f = Path(a)
           \/ pc[a] \in {"look", "put", "skeleton"} /\ f = "crate"
  <2>1. Licensed(a, f)
    BY <1>0, <1>3 DEF Knows
  <2>2. pc'[a] # pc[a]
    BY <1>0, <1>2, <1>3
       DEF LockedStep, Scaffold, Acquire, JudgeGrants, JudgeRefuses, InspectManifest, InspectRoot,
           InspectCrate, Recheck, Write, WriteFails, Verify, ReadFails, ValidateRoot,
           ValidateCrate, Final, Relock, RelockFails, Audit, AuditFails, Restore, RestoreFails,
           ScaffoldStart, ScaffoldGrant, ScaffoldLook, ScaffoldPut, ScaffoldSkeleton,
           ScaffoldFails, Goto, End, Abandon
  <2> QED BY <2>1, <2>2
<1>4. f # "lock" /\ f # "source" /\ Unlocked(a) \in [Files -> Texts]
  BY FileTypes DEF KnownInv, Protected
<1>5. CASE Write(a) \/ WriteFails(a)
  <2>1. f = Path(a)
    BY <1>0, <1>1, <1>2, <1>4, <1>5 DEF Write, WriteFails
  <2> QED BY <1>3, <1>5, <2>1 DEF Write, WriteFails, HeldSteps
<1>6. CASE Verify(a) \/ ReadFails(a)
  <2>1. pc[a] = "verify" /\ f = "manifest"
    BY <1>0, <1>2, <1>6 DEF Verify, ReadFails, shared
  <2>2. f = Path(a)
    BY <1>0, <2>1 DEF Knows, Path, Target
  <2> QED BY <1>3, <2>1, <2>2 DEF HeldSteps
<1>7. CASE Restore(a)
  <2>1. f = Path(a)
    BY <1>0, <1>1, <1>4, <1>7 DEF Restore, Restored
  <2> QED BY <1>3, <1>7, <2>1 DEF Restore, HeldSteps
<1>8. CASE ScaffoldPut(a)
  <2>1. f = "crate"
    BY <1>0, <1>8 DEF ScaffoldPut
  <2> QED BY <1>3, <1>8, <2>1 DEF ScaffoldPut
<1>9. CASE InspectCrate(a) \/ ValidateCrate(a) \/ Relock(a) \/ RelockFails(a) \/ ScaffoldSkeleton(a)
  BY <1>0, <1>1, <1>4, <1>9
     DEF InspectCrate, ValidateCrate, Relock, RelockFails, ScaffoldSkeleton, shared
<1>10. CASE \/ Acquire(a) \/ JudgeGrants(a) \/ JudgeRefuses(a) \/ InspectManifest(a)
            \/ InspectRoot(a) \/ Recheck(a) \/ ValidateRoot(a) \/ Final(a)
            \/ Audit(a) \/ AuditFails(a) \/ RestoreFails(a)
  BY <1>2, <1>10
     DEF Acquire, JudgeGrants, JudgeRefuses, InspectManifest, InspectRoot, Recheck, ValidateRoot,
         Final, Audit, AuditFails, RestoreFails, shared
<1>11. CASE \/ \E issue \in Issues : ScaffoldStart(a, issue)
            \/ ScaffoldGrant(a) \/ ScaffoldLook(a) \/ ScaffoldFails(a)
  BY <1>11 DEF ScaffoldStart, ScaffoldGrant, ScaffoldLook, ScaffoldFails, shared
<1> QED BY <1>5, <1>6, <1>7, <1>8, <1>9, <1>10, <1>11 DEF LockedStep, Scaffold

\* Whatever the other commands, issuers and editors do meanwhile, a command
\* changes a protected file only under a recorded write grant over it, of the
\* command's issue, that was live when the command looked.
THEOREM ProtectedWritesLicensed == Spec => ChangedUnderGrant
<1> DEFINE A == \A f \in Protected : file'[f] # file[f] /\ pc' # pc =>
       \E a \in Actors :
         LET g == job[a].grant IN
         /\ pc'[a] # pc[a]
         /\ g \in issued /\ Covers(g, f)
         /\ g.request.issue = job[a].issue
         /\ g.issuedAt <= job[a].at /\ job[a].at < g.issuedAt + g.request.ttl
<1>1. ASSUME KnownInv, Next PROVE A
  <2> SUFFICES ASSUME NEW f \in Protected, file'[f] # file[f], pc' # pc
               PROVE  \E a \in Actors : pc'[a] # pc[a] /\ Licensed(a, f)
    BY DEF Licensed
  <2>1. PICK a \in Actors : LockedStep(a) \/ Scaffold(a)
    BY <1>1 DEF Next, Tick, HandEdit, EditDescriptor, Authorize, AuthorizeRead, AuthorizeAppend,
                AuthorizeFails, Begin, Crash, shared
  <2> QED BY <1>1, <2>1, StepLicensed
<1>2. KnownInv /\ [Next]_vars => [A]_vars
  BY <1>1
<1> QED BY <1>2, InitKnows, NextKnows, PTL DEF Spec, ChangedUnderGrant

-----------------------------------------------------------------------------
(* The strengthening for the events: who holds the lock, where it rolls back *)
(* to, and what was done under its grant.  A step is one of a process without *)
(* the lock, of the one that holds it, or of one that gives it back.         *)

Strong == KnownInv /\ MarkInv /\ SpendInv

\* The ledger grows by lines that are no events, if at all.
Grows ==
  /\ Len(ledger) <= Len(ledger')
  /\ \A k \in DOMAIN ledger : ledger'[k] = ledger[k]
  /\ \A k \in DOMAIN ledger' \ DOMAIN ledger : ledger'[k] \notin Event

LEMMA GrowsBy ==
  ASSUME KnownInv, NEW x \in Line \ Event,
         ledger' \in {ledger, Appended(ledger, <<x>>), Append(ledger, Fragment)}
  PROVE  Grows
<1>0. ledger \in Seq(Line)
  BY DEF KnownInv, TypeOK
<1>1. CASE ledger' = ledger
  BY <1>0, <1>1 DEF Grows
<1>2. CASE ledger' = Appended(ledger, <<x>>)
  <2>1. /\ ledger' \in Seq(Line)
        /\ Len(ledger') = Len(ledger) + 1
        /\ \A k \in DOMAIN ledger : ledger'[k] = ledger[k]
        /\ ledger'[Len(ledger) + 1] \in {x, Damaged}
    BY <1>2, LedgerGrows DEF KnownInv
  <2>2. \A k \in DOMAIN ledger' \ DOMAIN ledger : k = Len(ledger) + 1
    BY <1>0, <2>1
  <2> QED BY <1>0, <2>1, <2>2, LineKinds DEF Grows
<1>3. CASE ledger' = Append(ledger, Fragment)
  BY <1>0, <1>3, LineKinds DEF Grows
<1> QED BY <1>1, <1>2, <1>3

\* Events keep their grants when the ledger grows.
LEMMA GrowsGrounded ==
  ASSUME KnownInv, KnownInv', EventsGrounded, Grows
  PROVE  EventsGrounded'
<1>0. ledger \in Seq(Line) /\ ledger' \in Seq(Line)
  BY DEF KnownInv, TypeOK
<1>1. ASSUME NEW k \in DOMAIN ledger', ledger'[k] \in Event
      PROVE  \E l \in 1..(k - 1) : ledger'[l] = ledger'[k].grant
  <2>1. k \in DOMAIN ledger /\ ledger'[k] = ledger[k]
    BY <1>1 DEF Grows
  <2>2. PICK l \in 1..(k - 1) : ledger[l] = ledger[k].grant
    BY <1>1, <2>1 DEF EventsGrounded
  <2>3. l \in DOMAIN ledger
    BY <1>0, <2>1, <2>2
  <2> QED BY <2>1, <2>2, <2>3 DEF Grows
<1> QED BY <1>1 DEF EventsGrounded

\* Changes that are accounted for by an event stay so when the ledger grows.
LEMMA GrowsHasEvent ==
  ASSUME KnownInv, KnownInv', Grows, NEW use, HasEvent(use)
  PROVE  HasEvent(use)'
<1>1. DOMAIN ledger \subseteq DOMAIN ledger'
  BY DEF KnownInv, TypeOK, Grows
<1> QED BY <1>1 DEF HasEvent, Grows

\* Only one process is under the lock.
LEMMA OneHolds ==
  ASSUME MarkInv, NEW a \in Actors, holder \in {a, None}, NEW b \in Actors \ {a}
  PROVE  pc[b] \notin HeldSteps
  BY WritersAssumption DEF MarkInv, Marked

\* What the step of one process leaves of the others' marks.
LEMMA OthersMarked ==
  ASSUME KnownInv, KnownInv', MarkInv, NEW a \in Actors,
         \A b \in Actors \ {a} : pc'[b] = pc[b] /\ job'[b] = job[b] /\ (holder' = b <=> holder = b),
         Grows \/ holder = a, Marked(a)'
  PROVE  \A b \in Actors : Marked(b)'
<1>0. ledger \in Seq(Line) /\ ledger' \in Seq(Line)
  BY DEF KnownInv, TypeOK
<1>1. ASSUME NEW b \in Actors \ {a} PROVE Marked(b)'
  <2>1. Marked(b) /\ pc'[b] = pc[b] /\ job'[b] = job[b] /\ (holder' = b <=> holder = b)
    BY DEF MarkInv
  <2>2. CASE holder = a
    BY <2>1, <2>2, OneHolds DEF Marked
  <2>3. CASE Grows
    <3>1. job[b].mark \in Nat /\ DOMAIN ledger \subseteq DOMAIN ledger'
      BY <1>0, <2>3 DEF KnownInv, TypeOK, Job, Grows
    <3>2. \A k \in DOMAIN ledger' : ledger'[k] \in Event => k \in DOMAIN ledger /\ ledger[k] \in Event
      BY <2>3 DEF Grows
    <3> QED BY <1>0, <2>1, <2>3, <3>1, <3>2 DEF Marked, Grows
  <2> QED BY <2>2, <2>3
<1> QED BY <1>1

\* And of what they know to be unspent.
LEMMA OthersUnspent ==
  ASSUME SpendInv, NEW a \in Actors,
         \A b \in Actors \ {a} : pc'[b] = pc[b] /\ job'[b] = job[b],
         \/ used' \ lost' \subseteq used \ lost
         \/ \A b \in Actors \ {a} : pc[b] \notin HeldSteps,
         Unspent(a)'
  PROVE  \A b \in Actors : Unspent(b)'
<1>1. ASSUME NEW b \in Actors \ {a} PROVE Unspent(b)'
  <2>1. Unspent(b) /\ pc'[b] = pc[b] /\ job'[b] = job[b]
    BY DEF SpendInv
  <2>2. Use(b)' = Use(b) /\ (Single(b)' <=> Single(b))
    BY <2>1 DEF Use, Path, Single
  <2> QED BY <2>1, <2>2 DEF Unspent, HeldSteps
<1> QED BY <1>1

\* A step outside the lock.
LEMMA QuietKeeps ==
  ASSUME Strong, KnownInv', NEW a \in Actors,
         \A b \in Actors \ {a} : pc'[b] = pc[b] /\ job'[b] = job[b],
         pc[a] \notin HeldSteps, pc'[a] \notin HeldSteps, holder' = holder, Grows,
         used' \ lost' \subseteq used \ lost, Unspent(a)'
  PROVE  MarkInv' /\ SpendInv'
<1> USE DEF Strong
<1>1. Marked(a)'
  BY DEF MarkInv, Marked
<1>2. MarkInv'
  BY <1>1, OthersMarked, GrowsGrounded DEF MarkInv
<1>3. ASSUME NEW use \in used' \ lost' PROVE HasEvent(use)' \/ InProgress(use)' \/ Broken'
  <2>1. HasEvent(use) \/ InProgress(use) \/ Broken
    BY <1>3 DEF SpendInv, Logged
  <2>2. InProgress(use) => InProgress(use)'
    BY DEF InProgress, Use, Path
  <2>3. Broken => Broken'
    <3>1. DOMAIN ledger \subseteq DOMAIN ledger'
      BY DEF KnownInv, TypeOK, Grows
    <3> QED BY <3>1 DEF Broken, Grows
  <2> QED BY <2>1, <2>2, <2>3, GrowsHasEvent
<1> QED BY <1>2, <1>3, OthersUnspent DEF SpendInv, Logged

\* The process that holds the lock ends; what it changed has gone or is lost.
LEMMA EndKeeps ==
  ASSUME Strong, KnownInv', NEW a \in Actors, pc[a] \in HeldSteps, End(a), Grows,
         used' \ lost' \subseteq used \ lost,
         job[a].wrote => Use(a) \notin used' \ lost'
  PROVE  MarkInv' /\ SpendInv'
<1> USE DEF Strong
<1>1. /\ holder = a /\ holder' = None /\ pc'[a] = "idle"
      /\ \A b \in Actors \ {a} : pc'[b] = pc[b] /\ job'[b] = job[b] /\ pc[b] \notin HeldSteps
  BY OneHolds DEF MarkInv, Marked, End, KnownInv, TypeOK
<1>2. Marked(a)' /\ Unspent(a)' /\ a # None
  BY <1>1, WritersAssumption DEF Marked, Unspent, HeldSteps
<1>3. MarkInv'
  BY <1>1, <1>2, OthersMarked, GrowsGrounded, WritersAssumption DEF MarkInv
<1>4. ASSUME NEW use \in used' \ lost' PROVE HasEvent(use)' \/ Broken'
  <2>1. HasEvent(use) \/ InProgress(use) \/ Broken
    BY <1>4 DEF SpendInv, Logged
  <2>2. ~InProgress(use)
    BY <1>1, <1>4 DEF InProgress
  <2>3. Broken => Broken'
    <3>1. DOMAIN ledger \subseteq DOMAIN ledger'
      BY DEF KnownInv, TypeOK, Grows
    <3>2. \A b \in Actors : pc'[b] \notin HeldSteps
      BY <1>1 DEF HeldSteps
    <3> QED BY <3>1, <3>2 DEF Broken, Grows
  <2> QED BY <2>1, <2>2, <2>3, GrowsHasEvent
<1> QED BY <1>1, <1>2, <1>3, <1>4, OthersUnspent DEF SpendInv, Logged

\* The process that holds the lock goes on.
LEMMA HeldKeeps ==
  ASSUME Strong, KnownInv', NEW a \in Actors,
         pc[a] \in HeldSteps \ {"judge", "restore"}, NEW s \in HeldSteps \ {"judge"},
         Goto(a, s), NEW j \in Job, job' = [job EXCEPT ![a] = j],
         j.mark = job[a].mark, j.grant = job[a].grant, j.cmd = job[a].cmd,
         j.wrote = job[a].wrote, UNCHANGED <<ledger, holder, used, lost>>, Unspent(a)'
  PROVE  MarkInv' /\ SpendInv'
<1> USE DEF Strong
<1>1. /\ pc'[a] = s /\ job'[a] = j
      /\ \A b \in Actors \ {a} : pc'[b] = pc[b] /\ job'[b] = job[b]
  BY DEF Goto, KnownInv, TypeOK
<1>2. Grows
  BY DEF Grows, KnownInv, TypeOK
<1>3. Marked(a)'
  BY <1>1 DEF MarkInv, Marked
<1>4. MarkInv'
  BY <1>1, <1>2, <1>3, OthersMarked, GrowsGrounded DEF MarkInv
<1>5. ASSUME NEW use \in used' \ lost' PROVE HasEvent(use)' \/ InProgress(use)' \/ Broken'
  <2>1. HasEvent(use) \/ InProgress(use) \/ Broken
    BY <1>5 DEF SpendInv, Logged
  <2>2. InProgress(use) => InProgress(use)'
    <3>1. ASSUME NEW b \in Actors, pc[b] \in HeldSteps, job[b].wrote, Use(b) = use
          PROVE  pc'[b] \in HeldSteps /\ job'[b].wrote /\ Use(b)' = use
      BY <1>1, <3>1 DEF Use, Path
    <3> QED BY <3>1 DEF InProgress
  <2>3. Broken => Broken'
    BY <1>1 DEF Broken
  <2> QED BY <1>2, <2>1, <2>2, <2>3, GrowsHasEvent
<1> QED BY <1>1, <1>4, <1>5, OthersUnspent DEF SpendInv, Logged

\* Taking the lock: every event and every broken line is behind the mark.
LEMMA AcquireKeeps ==
  ASSUME Strong, KnownInv', NEW a \in Actors, Acquire(a)
  PROVE  MarkInv' /\ SpendInv'
<1> USE DEF Strong
<1>0. ledger \in Seq(Line) /\ job[a] \in Job /\ Len(ledger) \in Nat
  BY DEF KnownInv, TypeOK
<1>1. /\ pc[a] = "acquire" /\ holder = None /\ holder' = a /\ a # None
      /\ UNCHANGED <<ledger, used, lost>>
  BY WritersAssumption DEF Acquire, shared, history
<1>2. /\ pc'[a] = "judge"
      /\ \A b \in Actors \ {a} : pc'[b] = pc[b] /\ job'[b] = job[b] /\ pc[b] \notin HeldSteps
  BY <1>1, OneHolds DEF Acquire, Goto, KnownInv, TypeOK
<1>3. /\ job'[a].mark = Len(ledger) /\ job'[a].wrote = job[a].wrote
      /\ job'[a].text = job[a].text /\ job'[a].cmd = job[a].cmd
  BY <1>0 DEF Acquire, KnownInv, TypeOK, Job
<1>4. Grows
  BY <1>0, <1>1 DEF Grows
<1>5. Marked(a)'
  BY <1>0, <1>1, <1>2, <1>3 DEF Marked, HeldSteps
<1>6. MarkInv'
  BY <1>1, <1>2, <1>4, <1>5, OthersMarked, GrowsGrounded, WritersAssumption DEF MarkInv
<1>7. Unspent(a)'
  BY <1>1, <1>2, <1>3 DEF SpendInv, Unspent, HeldSteps
<1>8. ASSUME NEW use \in used' \ lost' PROVE HasEvent(use)' \/ Broken'
  <2>1. HasEvent(use) \/ InProgress(use) \/ Broken
    BY <1>1, <1>8 DEF SpendInv, Logged
  <2>2. ~InProgress(use)
    BY <1>1, <1>2 DEF InProgress, HeldSteps
  <2>3. Broken => Broken'
    BY <1>0, <1>1, <1>2, <1>3 DEF Broken
  <2> QED BY <1>4, <2>1, <2>2, <2>3, GrowsHasEvent
<1> QED BY <1>1, <1>2, <1>6, <1>7, <1>8, OthersUnspent DEF SpendInv, Logged

\* An unspent grant: what the events say is the truth, as the ledger parses and
\* nobody else is under the lock.
LEMMA UnspentIsUnspent ==
  ASSUME Strong, NEW a \in Actors, pc[a] = "judge", Readable(ledger),
         NEW g \in Grant, ~SpentOn(job[a].cmd, g),
         job[a].cmd = "generate" \/ g.request.oneShot
  PROVE  <<g, Path(a)>> \notin used \ lost
<1> DEFINE use == <<g, Path(a)>>
<1> USE DEF Strong
<1>1. job[a].cmd \in Locked /\ ~job[a].wrote /\ holder = a
  BY DEF KnownInv, Knows, SpendInv, Unspent, MarkInv, Marked, HeldSteps
<1>2. ~InProgress(use)
  BY <1>1, OneHolds DEF InProgress
<1>3. ~Broken
  BY DEF Broken, Readable
<1>4. ~HasEvent(use)
  <2> SUFFICES ASSUME NEW k \in DOMAIN ledger, ledger[k] \in Event, ledger[k].grant = g,
                      Target[ledger[k].event] = Path(a), ledger[k].result = "changed"
               PROVE  FALSE
    BY DEF HasEvent
  <2>1. ledger[k].event = job[a].cmd
    <3>1. ledger[k].event \in Locked
      BY DEF Event
    <3> QED BY <1>1, <3>1 DEF Locked, Target, Path
  <2>2. ledger[k] \notin {Fragment, Damaged}
    BY LineKinds
  <2>3. k \in EventLines(job[a].cmd)
    BY <2>1, <2>2 DEF EventLines
  <2> QED BY <2>3 DEF SpentOn
<1> QED BY <1>2, <1>3, <1>4 DEF SpendInv, Logged

LEMMA JudgeKeeps ==
  ASSUME Strong, KnownInv', NEW a \in Actors, JudgeGrants(a)
  PROVE  MarkInv' /\ SpendInv'
<1> USE DEF Strong
<1>0. /\ ledger \in Seq(Line) /\ job[a] \in Job /\ pc[a] = "judge"
      /\ Knows(a) /\ Marked(a) /\ Unspent(a)
  BY DEF KnownInv, TypeOK, MarkInv, SpendInv, JudgeGrants
<1>1. PICK asked \in Asked : \E g \in Authority(a, asked) :
        job' = [job EXCEPT ![a] =
          [@ EXCEPT !.grant = g, !.at = clock, !.spent = SpentOn(job[a].cmd, g),
                    !.prior = LastPin]]
  BY DEF JudgeGrants
<1>2. PICK g \in Authority(a, asked) :
        job' = [job EXCEPT ![a] =
          [@ EXCEPT !.grant = g, !.at = clock, !.spent = SpentOn(job[a].cmd, g),
                    !.prior = LastPin]]
  BY <1>1
<1>3. g \in Grant /\ Readable(ledger) /\ \E l \in DOMAIN ledger : ledger[l] = g
  BY AuthorityLicenses
<1>4. /\ job'[a].grant = g /\ (job'[a].spent <=> SpentOn(job[a].cmd, g))
      /\ job'[a].cmd = job[a].cmd /\ job'[a].mark = job[a].mark
      /\ job'[a].wrote = job[a].wrote /\ job'[a].text = job[a].text
  BY <1>0, <1>2 DEF KnownInv, TypeOK, Job
<1>5. /\ UNCHANGED <<ledger, holder, used, lost>> /\ pc'[a] = "inspect" /\ holder = a
      /\ \A b \in Actors \ {a} : pc'[b] = pc[b] /\ job'[b] = job[b] /\ pc[b] \notin HeldSteps
  <2>1. holder = a
    BY <1>0 DEF Marked, HeldSteps
  <2> QED BY <1>2, <2>1, OneHolds DEF JudgeGrants, Goto, KnownInv, TypeOK, shared, history
<1>6. Grows
  BY <1>0, <1>5 DEF Grows
<1>7. Marked(a)'
  BY <1>0, <1>3, <1>4, <1>5 DEF Marked, HeldSteps
<1>8. MarkInv'
  BY <1>5, <1>6, <1>7, OthersMarked, GrowsGrounded DEF MarkInv
<1>9. Unspent(a)'
  <2>1. ASSUME ~job'[a].spent, Single(a)' PROVE Use(a)' \notin used' \ lost'
    <3>1. <<g, Path(a)>> \notin used \ lost
      BY <1>0, <1>3, <1>4, <2>1, UnspentIsUnspent DEF Single
    <3> QED BY <1>4, <1>5, <3>1 DEF Use, Path
  <2>2. job[a].text \in TextsOf(job[a].cmd) /\ ~job[a].wrote
    BY <1>0 DEF Unspent, HeldSteps
  <2> QED BY <1>4, <1>5, <2>1, <2>2 DEF Unspent
<1>10. ASSUME NEW use \in used' \ lost' PROVE HasEvent(use)' \/ Broken'
  <2>1. HasEvent(use) \/ InProgress(use) \/ Broken
    BY <1>5, <1>10 DEF SpendInv, Logged
  <2>2. ~InProgress(use)
    BY <1>0, <1>5 DEF InProgress, Unspent
  <2>3. ~Broken
    BY <1>3 DEF Broken, Readable
  <2> QED BY <1>6, <2>1, <2>2, <2>3, GrowsHasEvent
<1> QED BY <1>5, <1>8, <1>9, <1>10, OthersUnspent DEF SpendInv, Logged

\* The write: the change is its writer's until its event is written.
LEMMA WriteKeeps ==
  ASSUME Strong, KnownInv', NEW a \in Actors, Write(a)
  PROVE  MarkInv' /\ SpendInv'
<1> USE DEF Strong
<1>0. /\ ledger \in Seq(Line) /\ job[a] \in Job /\ pc[a] = "write"
      /\ Marked(a) /\ Unspent(a)
  BY DEF KnownInv, TypeOK, MarkInv, SpendInv, Write
<1>1. /\ job'[a].wrote /\ job'[a].grant = job[a].grant /\ job'[a].cmd = job[a].cmd
      /\ job'[a].mark = job[a].mark /\ job'[a].text = job[a].text
      /\ job'[a].source = job[a].source
  BY <1>0 DEF Write, KnownInv, TypeOK, Job
<1>2. /\ UNCHANGED <<ledger, holder, lost>> /\ used' = used \cup {Use(a)}
      /\ pc'[a] \in {"verify", "validate"} /\ holder = a
      /\ \A b \in Actors \ {a} : pc'[b] = pc[b] /\ job'[b] = job[b] /\ pc[b] \notin HeldSteps
  <2>1. holder = a
    BY <1>0 DEF Marked, HeldSteps
  <2> QED BY <2>1, OneHolds DEF Write, Goto, KnownInv, TypeOK
<1>3. Grows
  BY <1>0, <1>2 DEF Grows
<1>4. Marked(a)'
  BY <1>0, <1>1, <1>2 DEF Marked, HeldSteps
<1>5. MarkInv'
  BY <1>2, <1>3, <1>4, OthersMarked, GrowsGrounded DEF MarkInv
<1>6. Unspent(a)'
  BY <1>0, <1>1, <1>2 DEF Unspent, HeldSteps
<1>7. ASSUME NEW use \in used' \ lost' PROVE HasEvent(use)' \/ InProgress(use)' \/ Broken'
  <2>1. CASE use = Use(a)
    BY <1>1, <1>2, <2>1 DEF InProgress, Use, Path, HeldSteps
  <2>2. CASE use # Use(a)
    <3>1. HasEvent(use) \/ InProgress(use) \/ Broken
      BY <1>2, <1>7, <2>2 DEF SpendInv, Logged
    <3>2. ~InProgress(use)
      BY <1>0, <1>2 DEF InProgress, Unspent
    <3>3. Broken => Broken'
      BY <1>0, <1>1, <1>2 DEF Broken, HeldSteps
    <3> QED BY <1>3, <3>1, <3>2, <3>3, GrowsHasEvent
  <2> QED BY <2>1, <2>2
<1> QED BY <1>2, <1>5, <1>6, <1>7, OthersUnspent DEF SpendInv, Logged

\* An event behind its grant leaves every event grounded.
LEMMA EventGrounded ==
  ASSUME KnownInv, EventsGrounded, NEW e \in Event, NEW l \in DOMAIN ledger,
         ledger[l] = e.grant, ledger' = Appended(ledger, <<e>>)
  PROVE  EventsGrounded'
<1>1. /\ ledger \in Seq(Line) /\ ledger' \in Seq(Line)
      /\ Len(ledger') = Len(ledger) + 1
      /\ \A k \in DOMAIN ledger : ledger'[k] = ledger[k]
      /\ ledger'[Len(ledger) + 1] \in {e, Damaged}
  BY LedgerGrows, LineKinds DEF KnownInv, TypeOK
<1>2. ASSUME NEW k \in DOMAIN ledger', ledger'[k] \in Event
      PROVE  \E m \in 1..(k - 1) : ledger'[m] = ledger'[k].grant
  <2>1. CASE k \in DOMAIN ledger
    <3>1. PICK m \in 1..(k - 1) : ledger[m] = ledger[k].grant
      BY <1>1, <1>2, <2>1 DEF EventsGrounded
    <3>2. m \in DOMAIN ledger
      BY <1>1, <2>1, <3>1
    <3> QED BY <1>1, <2>1, <3>1, <3>2
  <2>2. CASE k \notin DOMAIN ledger
    <3>1. k = Len(ledger) + 1 /\ ledger'[k] = e
      BY <1>1, <1>2, <2>2, LineKinds
    <3>2. l \in 1..(k - 1) /\ ledger'[l] = e.grant
      BY <1>1, <3>1
    <3> QED BY <3>1, <3>2
  <2> QED BY <2>1, <2>2
<1> QED BY <1>2 DEF EventsGrounded

\* A rollback to the mark takes back neither an event nor its grant.
LEMMA RollbackGrounded ==
  ASSUME KnownInv, EventsGrounded, NEW n \in Nat, n <= Len(ledger),
         ledger' = TruncatedTo(ledger, n)
  PROVE  /\ EventsGrounded'
         /\ DOMAIN ledger' = 1..n
         /\ \A k \in 1..n : k \in DOMAIN ledger /\ ledger'[k] = ledger[k]
<1>1. ledger \in Seq(Line)
  BY DEF KnownInv, TypeOK
<1>2. /\ DOMAIN ledger' = 1..n
      /\ \A k \in 1..n : k \in DOMAIN ledger /\ ledger'[k] = ledger[k]
  BY <1>1 DEF TruncatedTo
<1>3. ASSUME NEW k \in 1..n, ledger'[k] \in Event
      PROVE  \E l \in 1..(k - 1) : ledger'[l] = ledger'[k].grant
  <2>1. PICK l \in 1..(k - 1) : ledger[l] = ledger[k].grant
    BY <1>2, <1>3 DEF EventsGrounded
  <2>2. l \in 1..n
    BY <2>1
  <2> QED BY <1>2, <2>1, <2>2
<1> QED BY <1>2, <1>3 DEF EventsGrounded

\* The event is written, and its writer is done.
LEMMA AuditKeeps ==
  ASSUME Strong, KnownInv', NEW a \in Actors, Audit(a)
  PROVE  MarkInv' /\ SpendInv'
<1> USE DEF Strong
<1>0. /\ ledger \in Seq(Line) /\ job[a] \in Job /\ pc[a] = "audit"
      /\ Knows(a) /\ Marked(a) /\ Unspent(a)
  BY DEF KnownInv, TypeOK, MarkInv, SpendInv, Audit
<1>1. /\ UNCHANGED <<used, lost>> /\ pc'[a] = "idle" /\ holder = a /\ holder' = None /\ a # None
      /\ \A b \in Actors \ {a} : pc'[b] = pc[b] /\ job'[b] = job[b] /\ pc[b] \notin HeldSteps
  <2>1. holder = a
    BY <1>0 DEF Marked, HeldSteps
  <2> QED BY <2>1, OneHolds, WritersAssumption DEF Audit, End, KnownInv, TypeOK, history
<1>2. EventOf(a) \in Event /\ EventOf(a).grant = job[a].grant
  <2>1. job[a].cmd \in Locked /\ job[a].grant \in Grant /\ job[a].text \in Texts
    BY <1>0 DEF Knows, Licensed, Job, HeldSteps
  <2> QED BY <2>1 DEF EventOf, Event
<1>3. PICK l \in DOMAIN ledger : ledger[l] = job[a].grant
  BY <1>0 DEF Marked, HeldSteps
<1>4. /\ Len(ledger') = Len(ledger) + 1
      /\ DOMAIN ledger \subseteq DOMAIN ledger' /\ Len(ledger) + 1 \in DOMAIN ledger'
      /\ \A k \in DOMAIN ledger : ledger'[k] = ledger[k]
      /\ ledger'[Len(ledger) + 1] \in {EventOf(a), Damaged}
  <2>1. ledger' = Appended(ledger, <<EventOf(a)>>)
    BY DEF Audit
  <2>2. /\ ledger' \in Seq(Line) /\ Len(ledger') = Len(ledger) + 1
        /\ \A k \in DOMAIN ledger : ledger'[k] = ledger[k]
        /\ ledger'[Len(ledger) + 1] \in {EventOf(a), Damaged}
    BY <1>2, <2>1, LedgerGrows, LineKinds DEF KnownInv
  <2> QED BY <1>0, <2>2
<1>5. EventsGrounded'
  BY <1>2, <1>3, EventGrounded DEF Audit, MarkInv
<1>6. Marked(a)' /\ Unspent(a)'
  BY <1>1 DEF Marked, Unspent, HeldSteps
<1>7. MarkInv'
  BY <1>1, <1>5, <1>6, OthersMarked, WritersAssumption DEF MarkInv
<1>8. ASSUME NEW use \in used' \ lost' PROVE HasEvent(use)' \/ Broken'
  <2>0. \A b \in Actors : pc'[b] \notin HeldSteps
    BY <1>1 DEF HeldSteps
  <2>1. HasEvent(use) \/ InProgress(use) \/ Broken
    BY <1>1, <1>8 DEF SpendInv, Logged
  <2>2. CASE HasEvent(use)
    BY <1>4, <2>2 DEF HasEvent
  <2>3. CASE Broken
    BY <1>4, <2>0, <2>3 DEF Broken
  <2>4. CASE InProgress(use)
    <3>1. job[a].wrote /\ use = <<job[a].grant, Target[job[a].cmd]>>
      BY <1>1, <2>4 DEF InProgress, Use, Path
    <3>2. EventOf(a).result = "changed" /\ EventOf(a).event = job[a].cmd
      BY <1>0, <3>1 DEF Unspent, EventOf, HeldSteps
    <3>3. CASE ledger'[Len(ledger) + 1] = EventOf(a)
      BY <1>2, <1>4, <3>1, <3>2, <3>3 DEF HasEvent
    <3>4. CASE ledger'[Len(ledger) + 1] = Damaged
      BY <1>4, <2>0, <3>4 DEF Broken
    <3> QED BY <1>4, <3>3, <3>4
  <2> QED BY <2>1, <2>2, <2>3, <2>4
<1> QED BY <1>1, <1>6, <1>7, <1>8, OthersUnspent DEF SpendInv, Logged

\* The event is not written, and what there is of it may be taken back.
LEMMA AuditFailsKeeps ==
  ASSUME Strong, KnownInv', NEW a \in Actors, AuditFails(a)
  PROVE  MarkInv' /\ SpendInv'
<1> USE DEF Strong
<1>0. /\ ledger \in Seq(Line) /\ job[a] \in Job /\ pc[a] = "audit"
      /\ Knows(a) /\ Marked(a) /\ Unspent(a)
  BY DEF KnownInv, TypeOK, MarkInv, SpendInv, AuditFails
<1>1. /\ UNCHANGED <<used, lost, holder, job>> /\ pc'[a] = "restore" /\ holder = a
      /\ \A b \in Actors \ {a} : pc'[b] = pc[b] /\ pc[b] \notin HeldSteps
  <2>1. holder = a
    BY <1>0 DEF Marked, HeldSteps
  <2> QED BY <2>1, OneHolds DEF AuditFails, Goto, KnownInv, TypeOK, history
<1>2. EventOf(a) \in Event /\ EventOf(a).grant = job[a].grant
  <2>1. job[a].cmd \in Locked /\ job[a].grant \in Grant /\ job[a].text \in Texts
    BY <1>0 DEF Knows, Licensed, Job, HeldSteps
  <2> QED BY <2>1 DEF EventOf, Event
<1>3. PICK l \in DOMAIN ledger : ledger[l] = job[a].grant
  BY <1>0 DEF Marked, HeldSteps
<1>4. /\ job[a].mark \in Nat /\ job[a].mark <= Len(ledger)
      /\ \A k \in DOMAIN ledger : ledger[k] \in Event => k <= job[a].mark
  BY <1>0 DEF Marked, HeldSteps, Job
<1>5. /\ EventsGrounded'
      /\ \A k \in DOMAIN ledger :
           k <= job[a].mark => k \in DOMAIN ledger' /\ ledger'[k] = ledger[k]
  <2>1. CASE ledger' = Appended(ledger, <<EventOf(a)>>)
    <3>1. EventsGrounded'
      BY <1>2, <1>3, <2>1, EventGrounded DEF MarkInv
    <3>2. /\ ledger' \in Seq(Line) /\ Len(ledger') = Len(ledger) + 1
          /\ \A k \in DOMAIN ledger : ledger'[k] = ledger[k]
      BY <1>2, <2>1, LedgerGrows, LineKinds DEF KnownInv
    <3> QED BY <1>0, <3>1, <3>2
  <2>2. CASE ledger' \in {ledger, Append(ledger, Fragment)}
    <3>1. Grows
      BY <2>2, GrowsBy, LineKinds
    <3>2. EventsGrounded'
      BY <3>1, GrowsGrounded DEF MarkInv
    <3>3. ledger' \in Seq(Line)
      BY DEF KnownInv, TypeOK
    <3> QED BY <1>0, <3>1, <3>2, <3>3 DEF Grows
  <2>3. CASE ledger' = TruncatedTo(ledger, job[a].mark)
    <3>1. /\ EventsGrounded' /\ DOMAIN ledger' = 1..job[a].mark
          /\ \A k \in 1..job[a].mark : k \in DOMAIN ledger /\ ledger'[k] = ledger[k]
      BY <1>4, <2>3, RollbackGrounded DEF MarkInv
    <3> QED BY <1>0, <1>4, <3>1
  <2> QED BY <2>1, <2>2, <2>3 DEF AuditFails
<1>6. Marked(a)' /\ Unspent(a)'
  BY <1>0, <1>1 DEF Marked, Unspent, HeldSteps
<1>7. MarkInv'
  BY <1>1, <1>5, <1>6, OthersMarked DEF MarkInv
<1>8. ASSUME NEW use \in used' \ lost' PROVE HasEvent(use)' \/ InProgress(use)' \/ Broken'
  <2>1. HasEvent(use) \/ InProgress(use) \/ Broken
    BY <1>1, <1>8 DEF SpendInv, Logged
  <2>2. CASE HasEvent(use)
    BY <1>4, <1>5, <2>2 DEF HasEvent
  <2>3. CASE InProgress(use)
    BY <1>1, <2>3 DEF InProgress, Use, Path, HeldSteps
  <2>4. CASE Broken
    <3>1. PICK k \in DOMAIN ledger : ledger[k] \in {Fragment, Damaged} /\ k <= job[a].mark
      BY <1>0, <2>4 DEF Broken, HeldSteps
    <3>2. \A b \in Actors : pc'[b] \notin HeldSteps \ {"restore"}
      BY <1>1
    <3> QED BY <1>5, <3>1, <3>2 DEF Broken
  <2> QED BY <2>1, <2>2, <2>3, <2>4
<1> QED BY <1>1, <1>6, <1>7, <1>8, OthersUnspent DEF SpendInv, Logged

\* A command that is given up under the lock.
LEMMA AbandonKeeps ==
  ASSUME Strong, KnownInv', NEW a \in Actors, pc[a] \in HeldSteps, NEW f, Abandon(a, f),
         ledger' = ledger
  PROVE  MarkInv' /\ SpendInv'
<1>1. Grows
  BY DEF Grows, Strong, KnownInv, TypeOK
<1>2. used' \ lost' \subseteq used \ lost /\ (job[a].wrote => Use(a) \notin used' \ lost')
  BY DEF Abandon
<1> QED BY <1>1, <1>2, EndKeeps DEF Abandon

\* One that ends under the lock before it wrote anything.
LEMMA EarlyEndKeeps ==
  ASSUME Strong, KnownInv', NEW a \in Actors,
         pc[a] \in {"judge", "inspect", "recheck", "write"}, End(a),
         UNCHANGED <<ledger, used, lost>>
  PROVE  MarkInv' /\ SpendInv'
<1>1. Grows
  BY DEF Grows, Strong, KnownInv, TypeOK
<1>2. ~job[a].wrote /\ pc[a] \in HeldSteps
  BY DEF Strong, SpendInv, Unspent, HeldSteps
<1> QED BY <1>1, <1>2, EndKeeps

\* A held step with the local variables as they are.
LEMMA HeldStays ==
  ASSUME Strong, KnownInv', NEW a \in Actors,
         pc[a] \in HeldSteps \ {"judge", "restore"},
         NEW s \in HeldSteps \ {"judge", "inspect", "recheck", "write"},
         Goto(a, s), UNCHANGED <<ledger, holder, job, used, lost>>
  PROVE  MarkInv' /\ SpendInv'
<1>1. job[a] \in Job /\ job' = [job EXCEPT ![a] = job[a]] /\ pc'[a] = s
  BY DEF Strong, KnownInv, TypeOK, Goto
<1>2. Unspent(a)'
  BY <1>1 DEF Strong, SpendInv, Unspent, HeldSteps
<1> QED BY <1>1, <1>2, HeldKeeps DEF HeldSteps

LEMMA SurroundingsKeep ==
  ASSUME Strong, KnownInv',
         \/ Tick
         \/ \E edit \in Editable : HandEdit(edit[1], edit[2])
         \/ \E whitelist \in Declarable : EditDescriptor(whitelist)
         \/ UNCHANGED vars
  PROVE  MarkInv' /\ SpendInv'
<1>1. UNCHANGED <<ledger, holder, pc, job, used, lost>>
  BY DEF Tick, HandEdit, EditDescriptor, history, vars
<1>2. MarkInv'
  BY <1>1 DEF Strong, MarkInv, Marked, EventsGrounded
<1>3. SpendInv'
  BY <1>1 DEF Strong, SpendInv, Unspent, Single, Use, Path, Logged, HasEvent, InProgress, Broken
<1> QED BY <1>2, <1>3

\* authorize-write, scaffold-crate and the beginning of a locked writer.
LEMMA QuietSteps ==
  ASSUME Strong, KnownInv', NEW a \in Actors,
         \/ Authorize(a) \/ Scaffold(a)
         \/ \E cmd \in Commands, issue \in Issues, text \in Texts : Begin(a, cmd, issue, text)
         \/ Crash(a) /\ pc[a] \notin HeldSteps
  PROVE  MarkInv' /\ SpendInv'
<1> USE DEF Strong
<1>0. /\ pc \in [Actors -> Steps \cup {"idle"}] /\ job \in [Actors -> Job] /\ Knows(a)
      /\ Marked(a) /\ Unspent(a)
  BY DEF KnownInv, TypeOK, MarkInv, SpendInv
<1>1. pc[a] \notin HeldSteps /\ holder # a
  <2>1. pc[a] \notin HeldSteps
    BY DEF Authorize, AuthorizeRead, AuthorizeAppend, AuthorizeFails, Scaffold, ScaffoldStart,
           ScaffoldGrant, ScaffoldLook, ScaffoldPut, ScaffoldSkeleton, ScaffoldFails, Begin,
           HeldSteps
  <2> QED BY <1>0, <2>1 DEF Marked
<1>2. ASSUME End(a)
      PROVE  /\ holder' = holder /\ pc'[a] = "idle"
             /\ \A b \in Actors \ {a} : pc'[b] = pc[b] /\ job'[b] = job[b]
  BY <1>0, <1>1, <1>2 DEF End
<1>3. ASSUME NEW s, Goto(a, s), NEW j, job' = [job EXCEPT ![a] = j]
      PROVE  /\ pc'[a] = s /\ job'[a] = j
             /\ \A b \in Actors \ {a} : pc'[b] = pc[b] /\ job'[b] = job[b]
  BY <1>0, <1>3 DEF Goto
<1>4. ASSUME pc'[a] \in {"idle", "record", "grant", "look", "put", "skeleton"}
      PROVE  Unspent(a)' /\ pc'[a] \notin HeldSteps
  BY <1>4 DEF Unspent, HeldSteps
<1>5. ASSUME ledger' = ledger PROVE Grows
  BY <1>5 DEF Grows, KnownInv, TypeOK
<1>6. CASE Authorize(a)
  <2>1. ASSUME NEW request \in Requests, NEW moment \in 0..MaxClock,
               AuthorizeRead(a, request, moment)
        PROVE  MarkInv' /\ SpendInv'
    BY <1>1, <1>3, <1>4, <1>5, <2>1, QuietKeeps DEF AuthorizeRead, shared, history
  <2>2. CASE AuthorizeAppend(a) \/ AuthorizeFails(a)
    <3>1. job[a].grant \in Line \ Event
      BY <1>0, <2>2, LineKinds DEF AuthorizeAppend, AuthorizeFails, Knows
    <3>2. /\ End(a) /\ UNCHANGED <<used, lost>>
          /\ ledger' \in {ledger, Appended(ledger, <<job[a].grant>>), Append(ledger, Fragment)}
      BY <2>2 DEF AuthorizeAppend, AuthorizeFails
    <3>3. Grows
      BY <3>1, <3>2, GrowsBy
    <3> QED BY <1>1, <1>2, <1>4, <3>2, <3>3, QuietKeeps
  <2> QED BY <1>6, <2>1, <2>2 DEF Authorize
<1>7. CASE Scaffold(a)
  <2>1. UNCHANGED <<ledger, used, lost>>
    BY <1>7 DEF Scaffold, ScaffoldStart, ScaffoldGrant, ScaffoldLook, ScaffoldPut,
                ScaffoldSkeleton, ScaffoldFails, shared, history
  <2>2. \/ End(a)
        \/ /\ \E s \in {"grant", "look", "put", "skeleton"} : Goto(a, s)
           /\ \E j : job' = [job EXCEPT ![a] = j]
           /\ holder' = holder
    <3>1. ASSUME NEW issue \in Issues, ScaffoldStart(a, issue)
          PROVE  /\ Goto(a, "grant") /\ holder' = holder
                 /\ \E j : job' = [job EXCEPT ![a] = j]
      BY <3>1 DEF ScaffoldStart
    <3>2. CASE ScaffoldGrant(a) /\ ~End(a)
      <4>1. Goto(a, "look") /\ holder' = holder
        BY <3>2 DEF ScaffoldGrant
      <4>2. PICK k : job' = [job EXCEPT ![a] = [@ EXCEPT !.grant = ledger[k], !.at = clock]]
        BY <3>2 DEF ScaffoldGrant
      <4> QED BY <4>1, <4>2
    <3>3. CASE ScaffoldLook(a) /\ ~End(a)
      <4>1. Goto(a, "put") \/ Goto(a, "skeleton")
        BY <3>3 DEF ScaffoldLook
      <4>2. job' = [job EXCEPT ![a] = [job[a] EXCEPT !.kept = file["source"]]] /\ holder' = holder
        BY <3>3 DEF ScaffoldLook
      <4> QED BY <4>1, <4>2
    <3>4. CASE ScaffoldPut(a)
      <4>1. job' = [job EXCEPT ![a] = job[a]]
        BY <1>0, <3>4 DEF ScaffoldPut
      <4> QED BY <3>4, <4>1 DEF ScaffoldPut
    <3>5. CASE ScaffoldSkeleton(a) \/ ScaffoldFails(a)
      BY <3>5 DEF ScaffoldSkeleton, ScaffoldFails
    <3> QED BY <1>7, <3>1, <3>2, <3>3, <3>4, <3>5 DEF Scaffold
  <2>3. /\ pc'[a] \in {"idle", "grant", "look", "put", "skeleton"} /\ holder' = holder
        /\ \A b \in Actors \ {a} : pc'[b] = pc[b] /\ job'[b] = job[b]
    BY <1>2, <1>3, <2>2
  <2> QED BY <1>1, <1>4, <1>5, <2>1, <2>3, QuietKeeps
<1>8. ASSUME NEW cmd \in Commands, NEW issue \in Issues, NEW text \in Texts,
             Begin(a, cmd, issue, text)
      PROVE  MarkInv' /\ SpendInv'
  <2> DEFINE j == [NoJob EXCEPT !.cmd = cmd, !.issue = issue, !.declared = declared, !.text = text,
                       !.source = IF cmd = "crate" THEN file["crate"] ELSE None]
  <2>1. j.cmd = cmd /\ j.text = text /\ ~j.wrote
    BY DEF NoJob
  <2>2. /\ job' = [job EXCEPT ![a] = j] /\ Goto(a, "acquire") /\ text \in TextsOf(cmd)
        /\ UNCHANGED <<ledger, holder, used, lost>>
    BY <1>8 DEF Begin, shared, history
  <2> HIDE DEF j
  <2>3. /\ pc'[a] = "acquire" /\ job'[a] = j
        /\ \A b \in Actors \ {a} : pc'[b] = pc[b] /\ job'[b] = job[b]
    BY <1>3, <2>2
  <2>4. Unspent(a)' /\ pc'[a] \notin HeldSteps
    BY <2>1, <2>2, <2>3 DEF Unspent, HeldSteps
  <2> QED BY <1>1, <1>5, <2>2, <2>3, <2>4, QuietKeeps
<1>9. CASE Crash(a) /\ pc[a] \notin HeldSteps
  <2>1. /\ End(a) /\ ledger' \in {ledger, Append(ledger, Fragment)}
        /\ used' \ lost' \subseteq used \ lost
    BY <1>9 DEF Crash
  <2>2. Grows
    BY <2>1, GrowsBy, LineKinds
  <2> QED BY <1>1, <1>2, <1>4, <2>1, <2>2, QuietKeeps
<1> QED BY <1>6, <1>7, <1>8, <1>9

\* Up to the write: what was found unspent is unspent at the write.
LEMMA InspectKeeps ==
  ASSUME Strong, KnownInv', NEW a \in Actors,
         \/ JudgeRefuses(a) \/ InspectManifest(a) \/ InspectRoot(a) \/ InspectCrate(a)
         \/ Recheck(a)
  PROVE  MarkInv' /\ SpendInv'
<1> USE DEF Strong
<1>0. /\ pc[a] \in HeldSteps /\ pc[a] \in {"judge", "inspect", "recheck"}
      /\ job[a] \in Job /\ Unspent(a) /\ Knows(a)
  BY DEF JudgeRefuses, InspectManifest, InspectRoot, InspectCrate, Recheck, HeldSteps,
         KnownInv, TypeOK, SpendInv
<1>1. CASE Refuse(a)
  BY <1>0, <1>1, AbandonKeeps DEF Refuse
<1>2. CASE JudgeRefuses(a)
  BY <1>2, EarlyEndKeeps DEF JudgeRefuses, shared, history
<1>3. CASE InspectManifest(a) /\ ~Refuse(a)
  <2> DEFINE j == [job[a] EXCEPT !.source = file["manifest"]]
             s == IF file["manifest"] = None THEN "write" ELSE "verify"
  <2>1. file["manifest"] \in Texts
    BY DEF KnownInv, TypeOK, Files
  <2>2. /\ j \in Job /\ j.mark = job[a].mark /\ j.grant = job[a].grant /\ j.cmd = job[a].cmd
        /\ j.wrote = job[a].wrote /\ j.spent = job[a].spent /\ j.text = job[a].text
        /\ j.source = file["manifest"]
    BY <1>0, <2>1 DEF Job
  <2>3. /\ pc[a] = "inspect" /\ job[a].cmd = "generate"
        /\ Goto(a, s) /\ job' = [job EXCEPT ![a] = j] /\ UNCHANGED <<ledger, holder, used, lost>>
        /\ file["manifest"] = job[a].text \/ (file["manifest"] = None /\ ~job[a].spent)
    BY <1>3 DEF InspectManifest, shared, history
  <2>4. job[a].text \in Plans /\ job[a].text # None /\ ~job[a].wrote
    BY <1>0, <2>3, WritersAssumption DEF Unspent, TextsOf, HeldSteps
  <2> HIDE DEF j
  <2>5. pc'[a] = s /\ job'[a] = j
    BY <2>3 DEF Goto, KnownInv, TypeOK
  <2>6. Unspent(a)'
    <3>1. CASE file["manifest"] = None
      <4>1. pc'[a] = "write" /\ ~job'[a].spent
        BY <2>2, <2>3, <2>4, <2>5, <3>1
      <4>2. Use(a)' \notin used' \ lost'
        <5>1. Use(a)' = Use(a) /\ Single(a)
          BY <2>2, <2>3, <2>5 DEF Use, Path, Single
        <5> QED BY <1>0, <2>2, <2>3, <2>5, <4>1, <5>1 DEF Unspent
      <4>3. job'[a].text \in TextsOf(job'[a].cmd) /\ job'[a].text # job'[a].source
        BY <1>0, <2>2, <2>4, <2>5, <3>1 DEF Unspent
      <4> QED BY <2>2, <2>4, <2>5, <4>1, <4>2, <4>3 DEF Unspent
    <3>2. CASE file["manifest"] # None
      BY <1>0, <2>2, <2>4, <2>5, <3>2 DEF Unspent
    <3> QED BY <3>1, <3>2
  <2>7. s \in HeldSteps \ {"judge"} /\ pc[a] \in HeldSteps \ {"judge", "restore"}
    BY <2>3 DEF HeldSteps
  <2> HIDE DEF s
  <2> QED BY <2>2, <2>3, <2>6, <2>7, HeldKeeps
<1>4. CASE (InspectRoot(a) /\ ~Refuse(a)) \/ (InspectCrate(a) /\ ~End(a))
  <2>1. PICK j \in Job :
          /\ job' = [job EXCEPT ![a] = j] /\ j.mark = job[a].mark /\ j.grant = job[a].grant
          /\ j.cmd = job[a].cmd /\ j.wrote = job[a].wrote /\ j.spent = job[a].spent
          /\ j.text = job[a].text
    <3>1. file["root"] \in Texts /\ file["lock"] \in Texts
      BY DEF KnownInv, TypeOK, Files
    <3>2. CASE InspectRoot(a) /\ ~Refuse(a)
      <4>1. job' = [job EXCEPT ![a] = [job[a] EXCEPT !.source = file["root"]]]
        BY <3>2 DEF InspectRoot
      <4>2. [job[a] EXCEPT !.source = file["root"]] \in Job
        BY <1>0, <3>1 DEF Job
      <4> QED BY <1>0, <4>1, <4>2 DEF Job
    <3>3. CASE InspectCrate(a) /\ ~End(a)
      <4>1. job' = [job EXCEPT ![a] = [job[a] EXCEPT !.root = file["root"], !.kept = file["lock"]]]
        BY <3>3 DEF InspectCrate
      <4>2. [job[a] EXCEPT !.root = file["root"], !.kept = file["lock"]] \in Job
        BY <1>0, <3>1 DEF Job
      <4> QED BY <1>0, <4>1, <4>2 DEF Job
    <3> QED BY <1>4, <3>2, <3>3
  <2>2. /\ pc[a] = "inspect" /\ Goto(a, "recheck") /\ UNCHANGED <<ledger, holder, used, lost>>
    BY <1>4 DEF InspectRoot, InspectCrate, shared, history
  <2>3. pc'[a] = "recheck" /\ job'[a] = j
    BY <2>1, <2>2 DEF Goto, KnownInv, TypeOK
  <2>4. Unspent(a)'
    <3>1. Use(a)' = Use(a) /\ (Single(a)' <=> Single(a))
      BY <2>1, <2>3 DEF Use, Path, Single
    <3> QED BY <1>0, <2>1, <2>2, <2>3, <3>1 DEF Unspent, HeldSteps
  <2>5. "recheck" \in HeldSteps \ {"judge"} /\ pc[a] \in HeldSteps \ {"judge", "restore"}
    BY <2>2 DEF HeldSteps
  <2> QED BY <2>1, <2>2, <2>4, <2>5, HeldKeeps
<1>5. CASE InspectCrate(a) /\ End(a)
  <2>1. UNCHANGED <<ledger, used, lost>>
    BY <1>5 DEF InspectCrate, shared, history
  <2> QED BY <1>0, <1>5, <2>1, EarlyEndKeeps
<1>6. CASE Recheck(a) /\ ~Refuse(a)
  <2>1. /\ pc[a] = "recheck" /\ UNCHANGED <<ledger, holder, job, used, lost>>
        /\ \/ Goto(a, "validate")
           \/ Goto(a, "write") /\ job[a].text # job[a].source /\ ~job[a].spent
    BY <1>6 DEF Recheck, shared, history
  <2>2. CASE Goto(a, "validate")
    BY <2>1, <2>2, HeldStays DEF HeldSteps
  <2>3. CASE Goto(a, "write") /\ job[a].text # job[a].source /\ ~job[a].spent
    <3>1. pc'[a] = "write" /\ job' = [job EXCEPT ![a] = job[a]]
      BY <2>1, <2>3 DEF Goto, KnownInv, TypeOK
    <3>2. Unspent(a)'
      <4>1. Use(a)' = Use(a) /\ (Single(a)' <=> Single(a))
        BY <2>1 DEF Use, Path, Single
      <4> QED BY <1>0, <2>1, <2>3, <3>1, <4>1 DEF Unspent, HeldSteps
    <3> QED BY <1>0, <2>1, <2>3, <3>1, <3>2, HeldKeeps DEF HeldSteps
  <2> QED BY <2>1, <2>2, <2>3
<1> QED BY <1>1, <1>2, <1>3, <1>4, <1>5, <1>6

\* From a failing write on, where nothing is appended.
LEMMA OutcomeKeeps ==
  ASSUME Strong, KnownInv', NEW a \in Actors,
         \/ WriteFails(a) \/ Verify(a) \/ ReadFails(a) \/ ValidateRoot(a) \/ ValidateCrate(a)
         \/ Final(a) \/ Relock(a) \/ RelockFails(a) \/ Restore(a) \/ RestoreFails(a)
  PROVE  MarkInv' /\ SpendInv'
<1> USE DEF Strong
<1>0. pc[a] \in HeldSteps \ {"judge"} /\ job[a] \in Job /\ Unspent(a)
  BY DEF WriteFails, Verify, ReadFails, ValidateRoot, ValidateCrate, Final, Relock, RelockFails,
         Restore, RestoreFails, HeldSteps, KnownInv, TypeOK, SpendInv
<1>1. CASE ledger' = ledger /\ \E f : Abandon(a, f)
  BY <1>0, <1>1, AbandonKeeps
<1>2. ~Refuse(a) \/ (ledger' = ledger /\ \E f : Abandon(a, f))
  BY DEF Refuse
<1>3. CASE WriteFails(a) /\ ~Refuse(a)
  <2>1. End(a) /\ ledger' = ledger /\ used' = used \cup {Use(a)} /\ lost' = lost \cup {Use(a)}
    BY <1>3 DEF WriteFails
  <2>2. Grows
    BY <2>1 DEF Grows, KnownInv, TypeOK
  <2> QED BY <1>0, <2>1, <2>2, EndKeeps
<1>4. ASSUME NEW s \in {"audit", "restore", "final"}, Goto(a, s), pc[a] # "restore",
             UNCHANGED <<ledger, holder, job, used, lost>>
      PROVE  MarkInv' /\ SpendInv'
  BY <1>0, <1>4, HeldStays DEF HeldSteps
<1>5. CASE Verify(a)
  BY <1>1, <1>4, <1>5 DEF Verify, shared, history
<1>6. CASE ReadFails(a)
  BY <1>1, <1>2, <1>4, <1>6 DEF ReadFails, shared, history
<1>7. CASE ValidateRoot(a) \/ (Final(a) /\ ~Refuse(a)) \/ Relock(a)
  BY <1>4, <1>7 DEF ValidateRoot, Final, Relock, shared, history
<1>8. CASE ValidateCrate(a)
  <2>1. PICK failed \in BOOLEAN : job' = [job EXCEPT ![a].failed = failed]
    BY <1>8 DEF ValidateCrate
  <2> DEFINE j == [job[a] EXCEPT !.failed = failed]
  <2>2. /\ j \in Job /\ j.mark = job[a].mark /\ j.grant = job[a].grant /\ j.cmd = job[a].cmd
        /\ j.wrote = job[a].wrote /\ j.text = job[a].text /\ j.source = job[a].source
    BY <1>0 DEF Job
  <2>3. /\ pc[a] = "validate" /\ Goto(a, "relock") /\ job' = [job EXCEPT ![a] = j]
        /\ UNCHANGED <<ledger, holder, used, lost>>
    BY <1>8, <2>1 DEF ValidateCrate, history
  <2> HIDE DEF j
  <2>4. pc'[a] = "relock" /\ job'[a] = j
    BY <2>3 DEF Goto, KnownInv, TypeOK
  <2>5. Unspent(a)'
    BY <1>0, <2>2, <2>4 DEF Unspent, HeldSteps
  <2>6. "relock" \in HeldSteps \ {"judge"} /\ pc[a] \in HeldSteps \ {"judge", "restore"}
    BY <2>3 DEF HeldSteps
  <2> QED BY <2>2, <2>3, <2>5, <2>6, HeldKeeps
<1>9. CASE RelockFails(a)
  <2>1. CASE Goto(a, "restore") /\ UNCHANGED <<ledger, holder, job, used, lost>>
    BY <1>4, <1>9, <2>1 DEF RelockFails
  <2>2. CASE /\ End(a) /\ ledger' = ledger
             /\ used' = IF job[a].wrote /\ file["crate"] # job[a].text THEN used \ {Use(a)} ELSE used
             /\ lost' = lost \cup {<<None, "lock">>} \cup
                          (IF job[a].wrote /\ file["crate"] = job[a].text THEN {Use(a)} ELSE {})
    <3>1. Grows
      BY <2>2 DEF Grows, KnownInv, TypeOK
    <3>2. used' \ lost' \subseteq used \ lost /\ (job[a].wrote => Use(a) \notin used' \ lost')
      BY <2>2
    <3> QED BY <1>0, <2>2, <3>1, <3>2, EndKeeps
  <2> QED BY <1>9, <2>1, <2>2 DEF RelockFails, shared, history
<1>10. CASE Restore(a) \/ RestoreFails(a)
  BY <1>1, <1>10 DEF Restore, RestoreFails, shared
<1> QED BY <1>1, <1>2, <1>3, <1>5, <1>6, <1>7, <1>8, <1>9, <1>10

\* A death under the lock loses the event of a change that stands.
LEMMA CrashKeeps ==
  ASSUME Strong, KnownInv', NEW a \in Actors, Crash(a), pc[a] \in HeldSteps
  PROVE  MarkInv' /\ SpendInv'
<1>1. job[a].cmd \in Locked
  BY DEF Strong, KnownInv, Knows
<1>2. End(a) /\ ledger' \in {ledger, Append(ledger, Fragment)}
  BY DEF Crash
<1>3. used' \ lost' \subseteq used \ lost /\ (job[a].wrote => Use(a) \notin used' \ lost')
  BY <1>1 DEF Crash
<1>4. Grows
  BY <1>2, GrowsBy, LineKinds DEF Strong
<1> QED BY <1>2, <1>3, <1>4, EndKeeps

LEMMA InitStrong == Init => Strong
<1>1. Init => MarkInv
  BY WritersAssumption DEF Init, MarkInv, Marked, EventsGrounded, HeldSteps
<1>2. Init => SpendInv
  BY DEF Init, SpendInv, Unspent, Logged, HeldSteps
<1> QED BY <1>1, <1>2, InitKnows DEF Strong

LEMMA NextStrong == Strong /\ [Next]_vars => Strong'
<1> SUFFICES ASSUME Strong, [Next]_vars PROVE MarkInv' /\ SpendInv'
  BY NextKnows DEF Strong
<1>1. KnownInv'
  BY NextKnows DEF Strong
<1>2. ASSUME NEW a \in Actors, LockedStep(a) PROVE MarkInv' /\ SpendInv'
  BY <1>1, <1>2, AcquireKeeps, JudgeKeeps, InspectKeeps, WriteKeeps, OutcomeKeeps, AuditKeeps,
     AuditFailsKeeps DEF LockedStep
<1> QED BY <1>1, <1>2, SurroundingsKeep, QuietSteps, CrashKeeps DEF Next

-----------------------------------------------------------------------------

\* Although authorize-write appends outside the lock and a profile writer
\* truncates the ledger, every event of a writer stays behind the grant it
\* names.
THEOREM EventsStayGrounded == Spec => []EventsGrounded
<1>1. Strong => EventsGrounded
  BY DEF Strong, MarkInv
<1> QED BY <1>1, InitStrong, NextStrong, PTL DEF Spec

\* However many writers run, fail and die: a one-shot grant changes its file
\* once, and a grant generates its manifest once, unless the event of the first
\* change was lost.
THEOREM GrantSpentOnce == Spec => ChangedOnce
<1> DEFINE A == \A a \in Actors :
       /\ pc[a] = "write" /\ file' # file /\ file'[Path(a)] = job[a].text
       /\ job[a].cmd = "generate" \/ job[a].grant.request.oneShot
       => Use(a) \notin used \ lost
<1>1. Strong => A
  <2> SUFFICES ASSUME Strong, NEW a \in Actors, pc[a] = "write", Single(a)
               PROVE  Use(a) \notin used \ lost
    BY DEF Single
  <2> QED BY DEF Strong, SpendInv, Unspent
<1>2. Strong /\ [Next]_vars => [A]_vars
  BY <1>1
<1> QED BY <1>2, InitStrong, NextStrong, PTL DEF Spec, ChangedOnce
-----------------------------------------------------------------------------
(* What a write replaces.                                                  *)

\* Nobody writes a file by hand between the last look of a writer and its write.
HandsOff == "write" \notin EditSteps

\* The target of a process about to write is as it was read.
AsRead(a) ==
  pc[a] = "write" =>
    \/ file[Path(a)] = job[a].source
    \/ job[a].cmd = "crate" /\ file["crate"] = Bare

ReadInv == \A a \in Actors : AsRead(a)

\* A step that leaves a process at its write, and its target alone.
LEMMA AsReadStays ==
  ASSUME NEW a \in Actors, AsRead(a), pc'[a] = pc[a], job'[a] = job[a],
         file'[Path(a)] = file[Path(a)] \/ (job[a].cmd = "crate" /\ file'["crate"] = Bare)
  PROVE  AsRead(a)'
<1>1. job[a].cmd = "crate" => Path(a) = "crate"
  BY DEF Path, Target
<1>2. Path(a)' = Path(a)
  BY DEF Path
<1> QED BY <1>1, <1>2 DEF AsRead

\* The process that comes to its write.
LEMMA ComesToWrite ==
  ASSUME KnownInv, NEW a \in Actors, LockedStep(a) \/ Authorize(a) \/ Scaffold(a) \/ Crash(a)
  PROVE  AsRead(a)'
<1>0. /\ job[a] \in Job /\ pc \in [Actors -> Steps \cup {"idle"}] /\ job \in [Actors -> Job]
      /\ file \in [Files -> Texts]
  BY DEF KnownInv, TypeOK
<1>1. SUFFICES ASSUME pc'[a] = "write" PROVE AsRead(a)'
  BY DEF AsRead
<1>2. ~End(a)
  BY <1>0, <1>1 DEF End
<1>3. ~Refuse(a)
  BY <1>2 DEF Refuse, Abandon
<1>4. InspectManifest(a) \/ Recheck(a)
  BY <1>0, <1>1, <1>2, <1>3
     DEF LockedStep, Authorize, Scaffold, Crash, Acquire, JudgeGrants, JudgeRefuses, InspectRoot,
         InspectCrate, Write, WriteFails, Verify, ReadFails, ValidateRoot, ValidateCrate, Final,
         Relock, RelockFails, Audit, AuditFails, Restore, RestoreFails, AuthorizeRead,
         AuthorizeAppend, AuthorizeFails, ScaffoldStart, ScaffoldGrant, ScaffoldLook, ScaffoldPut,
         ScaffoldSkeleton, ScaffoldFails, Goto, Abandon
<1>5. CASE InspectManifest(a)
  <2>1. /\ job' = [job EXCEPT ![a].source = file["manifest"]] /\ file' = file
        /\ job[a].cmd = "generate"
    BY <1>3, <1>5 DEF InspectManifest, shared
  <2>2. job'[a].source = file["manifest"] /\ job'[a].cmd = "generate"
    BY <1>0, <2>1 DEF Job
  <2> QED BY <2>1, <2>2 DEF AsRead, Path, Target
<1>6. CASE Recheck(a)
  BY <1>3, <1>6 DEF Recheck, AsRead, Path, shared
<1> QED BY <1>4, <1>5, <1>6

\* What the steps of another process leave of it.
LEMMA OthersLeave ==
  ASSUME Strong, ReadInv, NEW a \in Actors,
         LockedStep(a) \/ Authorize(a) \/ Scaffold(a) \/ Crash(a),
         NEW b \in Actors \ {a}, pc'[b] = pc[b], job'[b] = job[b]
  PROVE  AsRead(b)'
<1>1. SUFFICES ASSUME pc[b] = "write" PROVE AsRead(b)'
  BY DEF AsRead
<1>2. AsRead(b) /\ holder = b /\ job[b].cmd \in Locked
  BY <1>1 DEF ReadInv, Strong, MarkInv, Marked, KnownInv, Knows, HeldSteps
<1>3. pc[a] \notin HeldSteps
  BY <1>2, OneHolds DEF Strong
<1>4. Path(b) \in {"manifest", "root", "crate"} /\ (Path(b) = "crate" => job[b].cmd = "crate")
  BY <1>2 DEF Path, Target, Locked
<1>5. file \in [Files -> Texts]
  BY DEF Strong, KnownInv, TypeOK
<1>6. file'[Path(b)] = file[Path(b)] \/ (job[b].cmd = "crate" /\ file'["crate"] = Bare)
  <2>1. CASE ScaffoldPut(a)
    BY <1>4, <1>5, <2>1 DEF ScaffoldPut, Files
  <2>2. CASE ScaffoldSkeleton(a)
    BY <1>4, <1>5, <2>2 DEF ScaffoldSkeleton, Files
  <2>3. CASE ~ScaffoldPut(a) /\ ~ScaffoldSkeleton(a)
    BY <1>3, <2>3
       DEF LockedStep, Authorize, Scaffold, Crash, Acquire, JudgeGrants, JudgeRefuses,
           InspectManifest, InspectRoot, InspectCrate, Recheck, Write, WriteFails, Verify, ReadFails,
           ValidateRoot, ValidateCrate, Final, Relock, RelockFails, Audit, AuditFails, Restore,
           RestoreFails, AuthorizeRead, AuthorizeAppend, AuthorizeFails, ScaffoldStart,
           ScaffoldGrant, ScaffoldLook, ScaffoldFails, HeldSteps, shared
  <2> QED BY <2>1, <2>2, <2>3
<1> QED BY <1>2, <1>6, AsReadStays

\* A step of one process touches nobody else's step and local variables.
LEMMA OthersStay ==
  ASSUME TypeOK, NEW a \in Actors, NEW b \in Actors \ {a},
         \/ Authorize(a) \/ LockedStep(a) \/ Scaffold(a) \/ Crash(a)
         \/ \E cmd \in Commands, issue \in Issues, text \in Texts : Begin(a, cmd, issue, text)
  PROVE  pc'[b] = pc[b] /\ job'[b] = job[b]
<1>0. pc \in [Actors -> Steps \cup {"idle"}] /\ job \in [Actors -> Job]
  BY DEF TypeOK
<1>1. ASSUME End(a) PROVE pc'[b] = pc[b] /\ job'[b] = job[b]
  BY <1>0, <1>1 DEF End
<1>2. ASSUME NEW s, Goto(a, s) PROVE pc'[b] = pc[b]
  BY <1>0, <1>2 DEF Goto
<1>3. ~Refuse(a) \/ End(a)
  BY DEF Refuse, Abandon
<1>4. pc'[b] = pc[b]
  BY <1>0, <1>1, <1>2, <1>3
     DEF LockedStep, Authorize, Scaffold, Crash, Acquire, JudgeGrants, JudgeRefuses,
         InspectManifest, InspectRoot, InspectCrate, Recheck, Write, WriteFails, Verify, ReadFails,
         ValidateRoot, ValidateCrate, Final, Relock, RelockFails, Audit, AuditFails, Restore,
         RestoreFails, AuthorizeRead, AuthorizeAppend, AuthorizeFails, ScaffoldStart,
         ScaffoldGrant, ScaffoldLook, ScaffoldPut, ScaffoldSkeleton, ScaffoldFails, Begin, Abandon
<1>5. job'[b] = job[b]
  <2>1. ASSUME NEW request \in Requests, NEW moment \in 0..MaxClock, AuthorizeRead(a, request, moment)
        PROVE  job'[b] = job[b]
    BY <1>0, <2>1 DEF AuthorizeRead
  <2>2. ASSUME NEW cmd \in Commands, NEW issue \in Issues, NEW text \in Texts,
               Begin(a, cmd, issue, text)
        PROVE  job'[b] = job[b]
    BY <1>0, <2>2 DEF Begin
  <2>3. ASSUME NEW issue \in Issues, ScaffoldStart(a, issue) PROVE job'[b] = job[b]
    BY <1>0, <2>3 DEF ScaffoldStart
  <2>4. CASE Acquire(a) \/ JudgeGrants(a) \/ InspectManifest(a) \/ InspectRoot(a) \/ InspectCrate(a)
    BY <1>0, <1>1, <1>3, <2>4 DEF Acquire, JudgeGrants, InspectManifest, InspectRoot, InspectCrate
  <2>5. CASE \/ JudgeRefuses(a) \/ Recheck(a) \/ Write(a) \/ WriteFails(a) \/ Verify(a)
             \/ ReadFails(a) \/ ValidateRoot(a) \/ ValidateCrate(a) \/ Final(a) \/ Relock(a)
             \/ RelockFails(a) \/ Audit(a) \/ AuditFails(a) \/ Restore(a) \/ RestoreFails(a)
    BY <1>0, <1>1, <1>3, <2>5
       DEF JudgeRefuses, Recheck, Write, WriteFails, Verify, ReadFails, ValidateRoot, ValidateCrate,
           Final, Relock, RelockFails, Audit, AuditFails, Restore, RestoreFails, Abandon
  <2>6. CASE \/ AuthorizeAppend(a) \/ AuthorizeFails(a) \/ ScaffoldGrant(a) \/ ScaffoldLook(a)
             \/ ScaffoldPut(a) \/ ScaffoldSkeleton(a) \/ ScaffoldFails(a) \/ Crash(a)
    BY <1>0, <1>1, <2>6
       DEF AuthorizeAppend, AuthorizeFails, ScaffoldGrant, ScaffoldLook, ScaffoldPut,
           ScaffoldSkeleton, ScaffoldFails, Crash
  <2> QED BY <2>1, <2>2, <2>3, <2>4, <2>5, <2>6 DEF Authorize, LockedStep, Scaffold
<1> QED BY <1>4, <1>5

LEMMA NextReads == HandsOff /\ Strong /\ ReadInv /\ [Next]_vars => ReadInv'
<1> SUFFICES ASSUME HandsOff, Strong, ReadInv, [Next]_vars PROVE ReadInv'
  OBVIOUS
<1>0. TypeOK /\ KnownInv
  BY DEF Strong, KnownInv
<1>1. ASSUME NEW a \in Actors, LockedStep(a) \/ Authorize(a) \/ Scaffold(a) \/ Crash(a)
      PROVE  ReadInv'
  <2>1. ASSUME NEW b \in Actors \ {a} PROVE AsRead(b)'
    BY <1>0, <1>1, <2>1, OthersStay, OthersLeave
  <2>2. AsRead(a)'
    BY <1>0, <1>1, ComesToWrite
  <2> QED BY <2>1, <2>2 DEF ReadInv
<1>2. ASSUME NEW a \in Actors, NEW cmd \in Commands, NEW issue \in Issues, NEW text \in Texts,
             Begin(a, cmd, issue, text)
      PROVE  ReadInv'
  <2>1. file' = file /\ pc'[a] = "acquire"
    BY <1>0, <1>2 DEF Begin, Goto, TypeOK, shared
  <2>2. ASSUME NEW b \in Actors \ {a} PROVE AsRead(b)'
    <3>1. pc'[b] = pc[b] /\ job'[b] = job[b]
      BY <1>0, <1>2, OthersStay
    <3> QED BY <2>1, <3>1, AsReadStays DEF ReadInv
  <2> QED BY <2>1, <2>2 DEF ReadInv, AsRead
<1>3. CASE UNCHANGED <<pc, job>> /\ (file' = file \/ Writable)
  <2>1. ASSUME NEW a \in Actors PROVE AsRead(a)'
    <3>1. CASE file' = file
      BY <1>3, <3>1, AsReadStays DEF ReadInv
    <3>2. CASE Writable
      BY <1>3, <3>2 DEF Writable, AsRead, HandsOff
    <3> QED BY <1>3, <3>1, <3>2
  <2> QED BY <2>1 DEF ReadInv
<1>4. CASE \/ Tick \/ UNCHANGED vars
           \/ \E edit \in Editable : HandEdit(edit[1], edit[2])
           \/ \E whitelist \in Declarable : EditDescriptor(whitelist)
  BY <1>3, <1>4 DEF Tick, HandEdit, EditDescriptor, vars
<1> QED BY <1>1, <1>2, <1>4 DEF Next

\* However many writers, issuers and scaffolders run, and unless a file is
\* written by hand between a writer's last look and its write: a locked writer
\* replaces what it read, or the manifest a scaffold-crate put there meanwhile.
THEOREM WritersReplaceWhatTheyRead ==
  ASSUME HandsOff
  PROVE  Spec => ReplacesWhatItRead
<1> DEFINE A == \A a \in Actors : pc[a] = "write" /\ file'[Path(a)] # file[Path(a)] =>
       \/ file[Path(a)] = job[a].source
       \/ job[a].cmd = "crate" /\ file["crate"] = Bare
<1>1. Init => ReadInv
  BY DEF Init, ReadInv, AsRead
<1>2. Strong /\ ReadInv /\ [Next]_vars => ReadInv'
  BY NextReads
<1>3. ReadInv => A
  BY DEF ReadInv, AsRead
<1>4. Strong /\ ReadInv /\ [Next]_vars => [A]_vars
  BY <1>3
<1> QED BY <1>1, <1>2, <1>4, InitStrong, NextStrong, PTL DEF Spec, ReplacesWhatItRead
-----------------------------------------------------------------------------
(* One command at a time: the lines that are kept, and the files they tell of. *)

\* One command runs at a time.
OneCommand == \A a, b \in Actors : a = b

\* Nobody writes a configured crate manifest, or Cargo.lock, by hand.
NoHandPins ==
  /\ Initial["crate"] \notin Pins
  /\ \A edit \in Editable : edit[1] = "crate" => edit[2] \notin Pins

NoHandLock == \A edit \in Editable : edit[1] # "lock"

\* The ledger is as its writer found it: of the size it rolls back to, and once
\* judged without a line that does not parse.
Kept(a) ==
  /\ pc[a] \in HeldSteps \ {"restore"} => job[a].mark = Len(ledger)
  /\ pc[a] \in HeldSteps \ {"judge", "restore"} => Readable(ledger)

\* A change that stands has its event, or its writer still runs.
Accounted == \A use \in used \ lost : HasEvent(use) \/ InProgress(use)

KeptInv == GrantsKept /\ Accounted /\ \A a \in Actors : Kept(a)

\* A change of a crate manifest is without its event.
PinLost == \E use \in lost : use[2] = "crate"

\* The crate manifest is the one a is about to record.
Pinned(a) ==
  /\ job[a].cmd = "crate" /\ pc[a] \in HeldSteps /\ job[a].wrote
  /\ file["crate"] = job[a].text

\* What configure-crate goes by: it repins from the last recorded pin, and what
\* it will record is there, if a pin is.
Repinning(a) ==
  job[a].cmd = "crate" =>
    /\ pc[a] \in HeldSteps \ {"judge"} => job[a].prior = LastPin
    /\ pc[a] \in HeldSteps \ {"judge", "inspect"} =>
         Repins(job[a].source, job[a].prior, job[a].text)
    /\ pc[a] # "final"
    /\ pc[a] = "audit" /\ file["crate"] \in Pins => file["crate"] = job[a].text

PinInv ==
  \/ PinLost
  \/ /\ file["crate"] \in Pins => file["crate"] = LastPin \/ \E a \in Actors : Pinned(a)
     /\ \A a \in Actors : Repinning(a)

\* Cargo.lock is remembered, and may have been rewritten.
Remembers(a) == job[a].cmd = "crate" /\ pc[a] \in HeldSteps \ {"judge", "inspect"}
Loose(a) == job[a].cmd = "crate" /\ pc[a] \in {"recheck", "write", "validate", "relock"}

LockInv ==
  \/ <<None, "lock">> \in lost
  \/ /\ \A a \in Actors : Remembers(a) => job[a].kept = Initial["lock"]
     /\ (\A a \in Actors : ~Loose(a)) => file["lock"] = Initial["lock"]
-----------------------------------------------------------------------------

\* A ledger that parses holds what it held before it grew.
LEMMA RecordedGrows ==
  ASSUME KnownInv, KnownInv', GrantsKept, Len(ledger) <= Len(ledger'),
         \A k \in DOMAIN ledger : ledger'[k] = ledger[k]
  PROVE  /\ Readable(ledger') => Readable(ledger)
         /\ Readable(ledger') => issued \subseteq Recorded(ledger')
<1>0. ledger \in Seq(Line) /\ ledger' \in Seq(Line)
  BY DEF KnownInv, TypeOK
<1>1. DOMAIN ledger \subseteq DOMAIN ledger'
  BY <1>0
<1>2. Readable(ledger') => Readable(ledger)
  BY <1>1 DEF Readable
<1>3. Recorded(ledger) \subseteq Recorded(ledger')
  BY <1>1 DEF Recorded, GrantLines
<1> QED BY <1>2, <1>3 DEF GrantsKept

\* A process without the lock after its step, whose change is taken back or lost.
LEMMA RestKept ==
  ASSUME OneCommand, Strong, KnownInv', KeptInv, NEW a \in Actors, pc'[a] \notin HeldSteps,
         Grows, Readable(ledger') => issued' \subseteq issued \cup Recorded(ledger'),
         used' \ lost' \subseteq used \ lost,
         pc[a] \in HeldSteps /\ job[a].wrote => Use(a) \notin used' \ lost'
  PROVE  KeptInv'
<1>0. KnownInv /\ GrantsKept /\ Accounted
  BY DEF Strong, KeptInv
<1>1. GrantsKept'
  BY <1>0, RecordedGrows DEF GrantsKept, Grows
<1>2. \A b \in Actors : Kept(b)'
  BY DEF OneCommand, Kept
<1>3. ASSUME NEW use \in used' \ lost' PROVE HasEvent(use)'
  <2>1. HasEvent(use) \/ InProgress(use)
    BY <1>0, <1>3 DEF Accounted
  <2>2. ~InProgress(use)
    BY <1>3 DEF InProgress, OneCommand
  <2> QED BY <1>0, <2>1, <2>2, GrowsHasEvent
<1> QED BY <1>1, <1>2, <1>3 DEF KeptInv, Accounted

\* A command that ends under the lock before its event.
Ends(a) ==
  /\ pc[a] \in HeldSteps /\ End(a)
  /\ UNCHANGED <<ledger, issued>>
  /\ lost \subseteq lost' /\ used' \ lost' \subseteq used \ lost
  /\ job[a].wrote => Use(a) \notin used' \ lost'

\* One that goes on under it.
GoesOn(a) ==
  /\ pc[a] \in HeldSteps \ {"judge", "restore"} /\ pc'[a] \in HeldSteps \ {"judge"}
  /\ UNCHANGED <<ledger, issued, used, lost>>
  /\ job'[a].cmd = job[a].cmd /\ job'[a].grant = job[a].grant /\ job'[a].mark = job[a].mark
  /\ job'[a].wrote = job[a].wrote /\ job'[a].text = job[a].text
  /\ job'[a].prior = job[a].prior

\* The steps of a locked writer.
LEMMA StepKinds ==
  ASSUME Strong, NEW a \in Actors, LockedStep(a)
  PROVE  \/ Acquire(a) \/ JudgeGrants(a) \/ Write(a) \/ Audit(a) \/ AuditFails(a)
         \/ Ends(a) \/ GoesOn(a)
<1>0. /\ pc \in [Actors -> Steps \cup {"idle"}] /\ job \in [Actors -> Job] /\ job[a] \in Job
      /\ Unspent(a)
  BY DEF Strong, KnownInv, TypeOK, SpendInv
<1>1. ASSUME pc[a] \in HeldSteps, ledger' = ledger, NEW f, Abandon(a, f) PROVE Ends(a)
  BY <1>1 DEF Ends, Abandon
<1>2. ASSUME pc[a] \in HeldSteps, Refuse(a) PROVE Ends(a)
  BY <1>1, <1>2 DEF Refuse
<1>3. ASSUME pc[a] \in {"judge", "inspect", "recheck", "write"}, End(a),
             UNCHANGED <<shared, history>>
      PROVE  Ends(a)
  BY <1>0, <1>3 DEF Ends, Unspent, HeldSteps, shared, history
<1>4. ASSUME pc[a] \in HeldSteps \ {"judge", "restore"}, NEW s \in HeldSteps \ {"judge"}, Goto(a, s),
             UNCHANGED <<ledger, issued, used, lost, job>>
      PROVE  GoesOn(a)
  BY <1>0, <1>4 DEF GoesOn, Goto
<1>5. CASE JudgeRefuses(a)
  BY <1>3, <1>5 DEF JudgeRefuses
<1>6. CASE InspectManifest(a) \/ InspectRoot(a)
  <2>0. pc[a] = "inspect"
    BY <1>6 DEF InspectManifest, InspectRoot
  <2>1. CASE Refuse(a)
    BY <1>2, <2>0, <2>1 DEF HeldSteps
  <2>2. CASE ~Refuse(a)
    <3>1. /\ \E f \in Files : job' = [job EXCEPT ![a].source = file[f]]
          /\ pc'[a] \in {"write", "verify", "recheck"}
          /\ UNCHANGED <<ledger, issued, used, lost>>
      BY <1>0, <1>6, <2>2 DEF InspectManifest, InspectRoot, Goto, shared, history, Files
    <3> QED BY <1>0, <2>0, <3>1 DEF GoesOn, HeldSteps, Job
  <2> QED BY <2>1, <2>2
<1>7. CASE InspectCrate(a)
  <2>0. pc[a] = "inspect"
    BY <1>7 DEF InspectCrate
  <2>1. CASE End(a) /\ UNCHANGED <<shared, history>>
    BY <1>3, <2>0, <2>1
  <2>2. CASE ~(End(a) /\ UNCHANGED <<shared, history>>)
    <3>1. /\ job' = [job EXCEPT ![a] = [@ EXCEPT !.root = file["root"], !.kept = file["lock"]]]
          /\ pc'[a] = "recheck"
          /\ UNCHANGED <<ledger, issued, used, lost>>
      BY <1>0, <1>7, <2>2 DEF InspectCrate, Goto, history
    <3> QED BY <1>0, <2>0, <3>1 DEF GoesOn, HeldSteps, Job
  <2> QED BY <2>1, <2>2
<1>8. CASE Recheck(a)
  <2>1. pc[a] = "recheck" /\ (Refuse(a) \/ ((Goto(a, "validate") \/ Goto(a, "write")) /\ UNCHANGED <<shared, job, history>>))
    BY <1>8 DEF Recheck
  <2> QED BY <1>2, <1>4, <2>1 DEF HeldSteps, shared, history
<1>9. CASE WriteFails(a)
  <2>1. pc[a] = "write" /\ (Refuse(a) \/ (/\ used' = used \cup {Use(a)} /\ lost' = lost \cup {Use(a)}
                                           /\ End(a) /\ UNCHANGED <<ledger, issued>>))
    BY <1>9 DEF WriteFails
  <2> QED BY <1>2, <2>1 DEF HeldSteps, Ends
<1>10. CASE Verify(a) \/ ReadFails(a)
  <2>0. pc[a] \in HeldSteps \ {"judge", "restore"}
    BY <1>10 DEF Verify, ReadFails, HeldSteps
  <2>1. \/ Refuse(a)
        \/ ledger' = ledger /\ Abandon(a, file')
        \/ (Goto(a, "audit") \/ Goto(a, "restore")) /\ UNCHANGED <<shared, job, history>>
    BY <1>10 DEF Verify, ReadFails
  <2> QED BY <1>1, <1>2, <1>4, <2>0, <2>1 DEF HeldSteps, shared, history
<1>11. CASE ValidateRoot(a) \/ Final(a)
  <2>0. pc[a] \in HeldSteps \ {"judge", "restore"}
    BY <1>11 DEF ValidateRoot, Final, HeldSteps
  <2>1. \/ Refuse(a)
        \/ /\ Goto(a, "audit") \/ Goto(a, "restore") \/ Goto(a, "final")
           /\ UNCHANGED <<shared, job, history>>
    BY <1>11 DEF ValidateRoot, Final
  <2> QED BY <1>2, <1>4, <2>0, <2>1 DEF HeldSteps, shared, history
<1>12. CASE ValidateCrate(a)
  <2>1. /\ pc[a] = "validate" /\ \E failed \in BOOLEAN : job' = [job EXCEPT ![a].failed = failed]
        /\ pc'[a] = "relock" /\ UNCHANGED <<ledger, issued, used, lost>>
    BY <1>0, <1>12 DEF ValidateCrate, Goto, history
  <2> QED BY <1>0, <2>1 DEF GoesOn, HeldSteps, Job
<1>13. CASE Relock(a)
  <2>1. /\ pc[a] = "relock" /\ (Goto(a, "audit") \/ Goto(a, "restore"))
        /\ UNCHANGED <<ledger, issued, used, lost, job>>
    BY <1>13 DEF Relock, history
  <2> QED BY <1>4, <1>13, <2>1 DEF HeldSteps, Relock
<1>14. CASE RelockFails(a)
  <2>0. pc[a] = "relock"
    BY <1>14 DEF RelockFails
  <2>1. CASE Goto(a, "restore") /\ UNCHANGED <<ledger, job, history>>
    BY <1>4, <2>0, <2>1 DEF HeldSteps, history
  <2>2. CASE ~(Goto(a, "restore") /\ UNCHANGED <<ledger, job, history>>)
    <3>1. /\ End(a) /\ UNCHANGED <<ledger, issued>>
          /\ used' = IF job[a].wrote /\ file["crate"] # job[a].text THEN used \ {Use(a)} ELSE used
          /\ lost' = lost \cup {<<None, "lock">>} \cup
                       (IF job[a].wrote /\ file["crate"] = job[a].text THEN {Use(a)} ELSE {})
      BY <1>14, <2>2 DEF RelockFails, shared
    <3> QED BY <2>0, <3>1 DEF Ends, HeldSteps
  <2> QED BY <2>1, <2>2
<1>15. CASE Restore(a) \/ RestoreFails(a)
  <2>1. pc[a] = "restore" /\ ledger' = ledger /\ \E f : Abandon(a, f)
    BY <1>15 DEF Restore, RestoreFails, shared
  <2> QED BY <1>1, <2>1 DEF HeldSteps
<1> QED BY <1>5, <1>6, <1>7, <1>8, <1>9, <1>10, <1>11, <1>12, <1>13, <1>14, <1>15 DEF LockedStep

\* The event of a writer at its audit.
LEMMA EventWritten ==
  ASSUME KnownInv, NEW a \in Actors, pc[a] = "audit", Readable(ledger)
  PROVE  /\ EventOf(a) \in Event /\ EventOf(a) \in Line \ {Fragment, Damaged}
         /\ EventOf(a).grant = job[a].grant /\ EventOf(a).event = job[a].cmd
         /\ EventOf(a).text = job[a].text
         /\ LET longer == Appended(ledger, <<EventOf(a)>>) IN
            /\ Readable(longer) /\ Len(longer) = Len(ledger) + 1
            /\ \A k \in DOMAIN ledger : longer[k] = ledger[k]
            /\ longer[Len(ledger) + 1] = EventOf(a)
<1> DEFINE e == EventOf(a)
           Entries == Grant \cup Event
<1>0. /\ job[a] \in Job /\ Knows(a) /\ ledger \in Seq(Line)
  BY DEF KnownInv, TypeOK
<1>1. job[a].cmd \in Locked /\ job[a].grant \in Grant /\ job[a].text \in Texts
  BY <1>0 DEF Knows, Licensed, Job, HeldSteps
<1>2. e \in Event /\ e.grant = job[a].grant /\ e.event = job[a].cmd /\ e.text = job[a].text
  BY <1>1 DEF EventOf, Event
<1> HIDE DEF e
<1>3. e \in Line \ {Fragment, Damaged} /\ <<e>> \in Seq(Entries) /\ Len(<<e>>) = 1 /\ <<e>>[1] = e
  BY <1>2, LineKinds
<1>4. ledger \in Seq(Entries \cup {Fragment, Damaged}) /\ Fragment \notin Entries /\ Damaged \notin Entries
  BY <1>0, LineKinds DEF Line
<1> HIDE DEF Entries
<1>5. Appended(ledger, <<e>>) = ledger \o <<e>> /\ Readable(Appended(ledger, <<e>>))
  BY <1>3, <1>4, ReadableGrows
<1>6. /\ Len(ledger \o <<e>>) = Len(ledger) + 1
      /\ \A k \in DOMAIN ledger : (ledger \o <<e>>)[k] = ledger[k]
      /\ (ledger \o <<e>>)[Len(ledger) + 1] = e
  BY <1>0, <1>3
<1> QED BY <1>2, <1>3, <1>5, <1>6 DEF e

\* A rollback to the size the ledger has takes nothing back.
LEMMA RollbackInPlace ==
  ASSUME ledger \in Seq(Line)
  PROVE  TruncatedTo(ledger, Len(ledger)) = ledger
<1>1. Len(ledger) \in Nat
  OBVIOUS
<1>2. TruncatedTo(ledger, Len(ledger)) = SubSeq(ledger, 1, Len(ledger))
  BY <1>1 DEF TruncatedTo
<1>3. SubSeq(ledger, 1, Len(ledger)) = ledger
  OBVIOUS
<1> QED BY <1>2, <1>3

\* Whatever a failing append of the event leaves is at least what there was.
LEMMA AuditFailsLeaves ==
  ASSUME KnownInv, NEW a \in Actors, AuditFails(a), Kept(a)
  PROVE  /\ Len(ledger) <= Len(ledger')
         /\ \A k \in DOMAIN ledger : ledger'[k] = ledger[k]
         /\ job[a].cmd # "generate" => ledger' = ledger
         /\ \A k \in DOMAIN ledger' \ DOMAIN ledger : ledger'[k] \in {EventOf(a), Fragment, Damaged}
<1>0. pc[a] = "audit" /\ Readable(ledger) /\ ledger \in Seq(Line) /\ job[a].mark = Len(ledger)
  BY DEF AuditFails, Kept, KnownInv, TypeOK, HeldSteps
<1>1. CASE ledger' = ledger
  BY <1>0, <1>1 DEF AuditFails
<1>2. CASE job[a].cmd = "generate" /\ ledger' = Append(ledger, Fragment)
  BY <1>0, <1>2
<1>3. CASE job[a].cmd = "generate" /\ ledger' = Appended(ledger, <<EventOf(a)>>)
  <2>1. EventOf(a) \in Line
    BY <1>0, EventWritten
  <2>2. /\ ledger' \in Seq(Line) /\ Len(ledger') = Len(ledger) + 1
        /\ \A k \in DOMAIN ledger : ledger'[k] = ledger[k]
        /\ ledger'[Len(ledger) + 1] \in {EventOf(a), Damaged}
    BY <1>3, <2>1, LedgerGrows DEF KnownInv
  <2> HIDE DEF EventOf
  <2>3. \A k \in DOMAIN ledger' \ DOMAIN ledger : k = Len(ledger) + 1
    BY <1>0, <2>2
  <2> QED BY <1>0, <1>3, <2>2, <2>3
<1> QED BY <1>0, <1>1, <1>2, <1>3, RollbackInPlace DEF AuditFails

\* The steps under the lock.
LEMMA HeldKept ==
  ASSUME OneCommand, Strong, KnownInv', KeptInv, NEW a \in Actors, LockedStep(a)
  PROVE  KeptInv'
<1>0. /\ KnownInv /\ GrantsKept /\ Accounted /\ Kept(a) /\ Unspent(a) /\ Marked(a) /\ Knows(a)
      /\ ledger \in Seq(Line) /\ job[a] \in Job /\ Len(ledger) \in Nat
      /\ pc \in [Actors -> Steps \cup {"idle"}] /\ job \in [Actors -> Job]
      /\ issued \subseteq Grant
  BY DEF Strong, KeptInv, SpendInv, MarkInv, KnownInv, TypeOK
<1>1. ASSUME ledger' = ledger, issued' = issued, Kept(a)',
             \A use \in used' \ lost' : HasEvent(use) \/ InProgress(use)'
      PROVE  KeptInv'
  <2>1. \A b \in Actors : Kept(b)'
    BY <1>1 DEF OneCommand
  <2>2. GrantsKept'
    BY <1>0, <1>1 DEF GrantsKept
  <2>3. Accounted'
    BY <1>1 DEF Accounted, HasEvent
  <2> QED BY <2>1, <2>2, <2>3 DEF KeptInv
<1>2. CASE Acquire(a)
  <2>1. /\ pc[a] = "acquire" /\ pc'[a] = "judge" /\ job'[a].mark = Len(ledger)
        /\ UNCHANGED <<ledger, issued, used, lost>>
    BY <1>0, <1>2 DEF Acquire, Goto, shared, history, Job
  <2>2. \A use \in used' \ lost' : HasEvent(use)
    BY <1>0, <2>1 DEF Accounted, InProgress, OneCommand, HeldSteps
  <2>3. Kept(a)'
    BY <2>1 DEF Kept
  <2> QED BY <1>1, <2>1, <2>2, <2>3
<1>3. CASE JudgeGrants(a)
  <2>1. /\ pc[a] = "judge" /\ pc'[a] = "inspect" /\ job'[a].mark = job[a].mark
        /\ UNCHANGED <<ledger, issued, used, lost>>
    BY <1>0, <1>3 DEF JudgeGrants, Goto, shared, history, Job
  <2>2. Readable(ledger)
    BY <1>0, <1>3, AuthorityLicenses DEF JudgeGrants
  <2>3. \A use \in used' \ lost' : HasEvent(use)
    BY <1>0, <2>1 DEF Accounted, InProgress, OneCommand, Unspent
  <2>4. Kept(a)'
    BY <1>0, <2>1, <2>2 DEF Kept, HeldSteps
  <2> QED BY <1>1, <2>1, <2>3, <2>4
<1>4. CASE Write(a)
  <2>1. /\ pc[a] = "write" /\ pc'[a] \in {"verify", "validate"} /\ job'[a].mark = job[a].mark
        /\ job'[a].wrote /\ job'[a].grant = job[a].grant /\ job'[a].cmd = job[a].cmd
        /\ UNCHANGED <<ledger, issued, lost>> /\ used' = used \cup {Use(a)}
    BY <1>0, <1>4 DEF Write, Goto, Job
  <2>2. \A use : use = Use(a) => InProgress(use)'
    BY <2>1 DEF InProgress, Use, Path, HeldSteps
  <2>3. \A use \in used \ lost : HasEvent(use)
    BY <1>0, <2>1 DEF Accounted, InProgress, OneCommand, Unspent
  <2>4. Kept(a)'
    BY <1>0, <2>1 DEF Kept, HeldSteps
  <2> QED BY <1>1, <2>1, <2>2, <2>3, <2>4
<1>5. CASE GoesOn(a)
  <2>1. \A use : InProgress(use) => InProgress(use)'
    BY <1>5 DEF GoesOn, InProgress, OneCommand, Use, Path
  <2>2. Kept(a)'
    BY <1>0, <1>5 DEF GoesOn, Kept
  <2> QED BY <1>0, <1>1, <1>5, <2>1, <2>2 DEF GoesOn, Accounted
<1>6. CASE Ends(a)
  <2>1. pc'[a] \notin HeldSteps /\ Grows
    BY <1>0, <1>6 DEF Ends, End, HeldSteps, Grows
  <2> QED BY <1>6, <2>1, RestKept DEF Ends
<1>7. CASE Audit(a)
  <2>1. /\ pc[a] = "audit" /\ Readable(ledger) /\ pc'[a] = "idle" /\ UNCHANGED <<issued, used, lost>>
        /\ ledger' = Appended(ledger, <<EventOf(a)>>)
    BY <1>0, <1>7 DEF Audit, Kept, End, HeldSteps, history
  <2>2. /\ EventOf(a) \in Event /\ EventOf(a).grant = job[a].grant /\ EventOf(a).event = job[a].cmd
        /\ Len(ledger') = Len(ledger) + 1 /\ \A k \in DOMAIN ledger : ledger'[k] = ledger[k]
        /\ ledger'[Len(ledger) + 1] = EventOf(a)
    BY <1>0, <2>1, EventWritten
  <2>3. DOMAIN ledger \subseteq DOMAIN ledger' /\ Len(ledger) + 1 \in DOMAIN ledger'
    <3>1. ledger' \in Seq(Line)
      BY DEF KnownInv, TypeOK
    <3> QED BY <1>0, <2>2, <3>1
  <2>4. GrantsKept'
    <3>1. Len(ledger) <= Len(ledger')
      BY <1>0, <2>2
    <3> QED BY <1>0, <2>1, <2>2, <3>1, RecordedGrows DEF GrantsKept
  <2>5. ASSUME NEW use \in used' \ lost' PROVE HasEvent(use)'
    <3>1. HasEvent(use) \/ InProgress(use)
      BY <1>0, <2>1, <2>5 DEF Accounted
    <3>2. CASE HasEvent(use)
      BY <2>2, <2>3, <3>2 DEF HasEvent
    <3>3. CASE InProgress(use)
      <4>1. job[a].wrote /\ use = <<job[a].grant, Target[job[a].cmd]>>
        BY <3>3 DEF InProgress, OneCommand, Use, Path
      <4>2. EventOf(a).result = "changed"
        BY <1>0, <2>1, <4>1 DEF Unspent, EventOf, HeldSteps
      <4> QED BY <2>2, <2>3, <4>1, <4>2 DEF HasEvent
    <3> QED BY <3>1, <3>2, <3>3
  <2>6. \A b \in Actors : Kept(b)'
    BY <2>1 DEF OneCommand, Kept, HeldSteps
  <2> QED BY <2>4, <2>5, <2>6 DEF KeptInv, Accounted
<1>8. CASE AuditFails(a)
  <2>1. /\ pc[a] = "audit" /\ pc'[a] = "restore" /\ UNCHANGED <<job, issued, used, lost>>
    BY <1>0, <1>8 DEF AuditFails, Goto, history
  <2>2. Len(ledger) <= Len(ledger') /\ \A k \in DOMAIN ledger : ledger'[k] = ledger[k]
    BY <1>0, <1>8, AuditFailsLeaves
  <2>3. DOMAIN ledger \subseteq DOMAIN ledger'
    <3>1. ledger' \in Seq(Line)
      BY DEF KnownInv, TypeOK
    <3> QED BY <1>0, <2>2, <3>1
  <2>4. GrantsKept'
    BY <1>0, <2>1, <2>2, RecordedGrows DEF GrantsKept
  <2>5. ASSUME NEW use \in used' \ lost' PROVE HasEvent(use)' \/ InProgress(use)'
    <3>1. HasEvent(use) \/ InProgress(use)
      BY <1>0, <2>1, <2>5 DEF Accounted
    <3>2. HasEvent(use) => HasEvent(use)'
      BY <2>2, <2>3 DEF HasEvent
    <3>3. InProgress(use) => InProgress(use)'
      BY <2>1 DEF InProgress, OneCommand, Use, Path, HeldSteps
    <3> QED BY <3>1, <3>2, <3>3
  <2>6. \A b \in Actors : Kept(b)'
    BY <2>1 DEF OneCommand, Kept
  <2> QED BY <2>4, <2>5, <2>6 DEF KeptInv, Accounted
<1> QED BY <1>2, <1>3, <1>4, <1>5, <1>6, <1>7, <1>8, StepKinds

\* The steps outside it: a grant is reported when its line is whole.
LEMMA QuietKept ==
  ASSUME OneCommand, Strong, KnownInv', KeptInv, NEW a \in Actors,
         \/ Authorize(a) \/ Scaffold(a) \/ Crash(a)
         \/ \E cmd \in Commands, issue \in Issues, text \in Texts : Begin(a, cmd, issue, text)
  PROVE  KeptInv'
<1>0. /\ KnownInv /\ Knows(a) /\ ledger \in Seq(Line) /\ Len(ledger) \in Nat
      /\ pc \in [Actors -> Steps \cup {"idle"}]
      /\ pc[a] \in HeldSteps => job[a].cmd \in Locked
  BY DEF Strong, KnownInv, TypeOK, Knows
<1>1. pc'[a] \notin HeldSteps
  BY <1>0 DEF Authorize, Scaffold, Crash, AuthorizeRead, AuthorizeAppend, AuthorizeFails, ScaffoldStart,
     ScaffoldGrant, ScaffoldLook, ScaffoldPut, ScaffoldSkeleton, ScaffoldFails, Begin, Goto, End,
     HeldSteps
<1>2. ASSUME ledger' = ledger, UNCHANGED history PROVE pc[a] \notin HeldSteps => KeptInv'
  <2>1. Grows
    BY <1>0, <1>2 DEF Grows
  <2> QED BY <1>1, <1>2, <2>1, RestKept DEF history
<1>3. CASE \/ Scaffold(a) \/ \E cmd \in Commands, issue \in Issues, text \in Texts : Begin(a, cmd, issue, text)
           \/ \E request \in Requests, moment \in 0..MaxClock : AuthorizeRead(a, request, moment)
  <2>1. ledger' = ledger /\ UNCHANGED history /\ pc[a] \notin HeldSteps
    BY <1>3 DEF Scaffold, AuthorizeRead, ScaffoldStart, ScaffoldGrant, ScaffoldLook, ScaffoldPut,
       ScaffoldSkeleton, ScaffoldFails, Begin, HeldSteps, shared
  <2> QED BY <1>2, <2>1
<1>4. CASE AuthorizeAppend(a) \/ AuthorizeFails(a)
  <2> DEFINE g == job[a].grant
  <2>1. /\ pc[a] = "record" /\ UNCHANGED <<used, lost>>
        /\ \/ ledger' = Appended(ledger, <<g>>) /\ issued' = issued \cup {g}
           \/ ledger' \in {ledger, Append(ledger, Fragment)} /\ issued' = issued
    BY <1>4 DEF AuthorizeAppend, AuthorizeFails
  <2>2. g \in Grant /\ g \in Line \ Event
    BY <1>0, <2>1, LineKinds DEF Knows
  <2> HIDE DEF g
  <2>3. Grows
    BY <1>0, <2>1, <2>2, GrowsBy
  <2>4. Readable(ledger') => issued' \subseteq issued \cup Recorded(ledger')
    <3>1. CASE ledger' = Appended(ledger, <<g>>) /\ issued' = issued \cup {g}
      <4>1. ledger' \in Seq(Line) /\ Len(ledger') = Len(ledger) + 1 /\ ledger'[Len(ledger) + 1] \in {g, Damaged}
        BY <1>0, <2>2, <3>1, LedgerGrows DEF KnownInv
      <4>2. Len(ledger) + 1 \in DOMAIN ledger'
        BY <1>0, <4>1
      <4>3. g.event = "grant" /\ g \notin {Fragment, Damaged}
        BY <2>2, LineKinds DEF Grant
      <4>4. ASSUME Readable(ledger') PROVE g \in Recorded(ledger')
        BY <4>1, <4>2, <4>3, <4>4 DEF Readable, Recorded, GrantLines
      <4> QED BY <3>1, <4>4
    <3> QED BY <2>1, <3>1
  <2> QED BY <1>1, <2>1, <2>3, <2>4, RestKept DEF HeldSteps
<1>5. CASE Crash(a)
  <2>1. ledger' \in {ledger, Append(ledger, Fragment)} /\ issued' = issued
    BY <1>5 DEF Crash
  <2>2. Grows
    BY <1>0, <2>1, GrowsBy, LineKinds
  <2>3. used' \ lost' \subseteq used \ lost
    BY <1>5 DEF Crash
  <2>4. pc[a] \in HeldSteps /\ job[a].wrote => Use(a) \notin used' \ lost'
    BY <1>0, <1>5 DEF Crash
  <2> QED BY <1>1, <2>1, <2>2, <2>3, <2>4, RestKept
<1> QED BY <1>3, <1>4, <1>5 DEF Authorize

LEMMA InitKept == Init => KeptInv
  BY DEF Init, KeptInv, GrantsKept, Accounted, Kept, HeldSteps

LEMMA NextKept == OneCommand /\ Strong /\ KeptInv /\ [Next]_vars => KeptInv'
<1> SUFFICES ASSUME OneCommand, Strong, KeptInv, [Next]_vars PROVE KeptInv'
  OBVIOUS
<1>1. KnownInv'
  BY NextKnows DEF Strong
<1>2. CASE UNCHANGED <<ledger, pc, job, issued, used, lost>>
  <2>1. GrantsKept' /\ \A a \in Actors : Kept(a)'
    BY <1>2 DEF KeptInv, GrantsKept, Kept
  <2>2. Accounted'
    BY <1>2 DEF KeptInv, Accounted, HasEvent, InProgress, Use, Path
  <2> QED BY <2>1, <2>2 DEF KeptInv
<1>3. CASE \/ Tick \/ UNCHANGED vars
           \/ \E edit \in Editable : HandEdit(edit[1], edit[2])
           \/ \E whitelist \in Declarable : EditDescriptor(whitelist)
  BY <1>2, <1>3 DEF Tick, HandEdit, EditDescriptor, vars, history
<1> QED BY <1>1, <1>3, HeldKept, QuietKept DEF Next

\* Run one at a time, whatever fails and wherever a command dies: as long as
\* the ledger parses it holds every grant that was reported as recorded.
THEOREM IssuedGrantsKept ==
  ASSUME OneCommand
  PROVE  Spec => []GrantsKept
<1>1. KeptInv => GrantsKept
  BY DEF KeptInv
<1>2. Strong /\ KeptInv /\ [Next]_vars => KeptInv'
  BY NextKept
<1> QED BY <1>1, <1>2, InitStrong, NextStrong, InitKept, PTL DEF Spec

-----------------------------------------------------------------------------
(* Cargo.lock.                                                             *)

\* What is lost stays lost.
LEMMA LostGrows ==
  ASSUME [Next]_vars
  PROVE  lost \subseteq lost'
<1>1. ASSUME NEW a \in Actors, LockedStep(a) PROVE lost \subseteq lost'
  <2>1. Refuse(a) => lost \subseteq lost'
    BY DEF Refuse, Abandon
  <2> QED BY <1>1, <2>1
     DEF LockedStep, Acquire, JudgeGrants, JudgeRefuses, InspectManifest, InspectRoot, InspectCrate,
         Recheck, Write, WriteFails, Verify, ReadFails, ValidateRoot, ValidateCrate, Final, Relock,
         RelockFails, Audit, AuditFails, Restore, RestoreFails, Abandon, history
<1>2. ASSUME NEW a \in Actors,
             \/ Authorize(a) \/ Scaffold(a) \/ Crash(a)
             \/ \E cmd \in Commands, issue \in Issues, text \in Texts : Begin(a, cmd, issue, text)
      PROVE  lost \subseteq lost'
  BY <1>2 DEF Authorize, AuthorizeRead, AuthorizeAppend, AuthorizeFails, Scaffold, ScaffoldStart,
     ScaffoldGrant, ScaffoldLook, ScaffoldPut, ScaffoldSkeleton, ScaffoldFails, Crash, Begin, history
<1>3. Tick \/ UNCHANGED vars \/ (\E edit \in Editable : HandEdit(edit[1], edit[2]))
      \/ (\E whitelist \in Declarable : EditDescriptor(whitelist)) => lost \subseteq lost'
  BY DEF Tick, HandEdit, EditDescriptor, vars, history
<1> QED BY <1>1, <1>2, <1>3 DEF Next

\* The files a step of a locked writer leaves: its target, and Cargo.lock.
LEMMA FilesLeft ==
  ASSUME KnownInv, NEW a \in Actors
  PROVE  /\ job[a].cmd \in Locked => Path(a) # "lock" /\ (Path(a) = "crate" <=> job[a].cmd = "crate")
         /\ Unlocked(a)["lock"] = IF job[a].cmd = "crate" THEN job[a].kept ELSE file["lock"]
         /\ Unlocked(a)["crate"] = file["crate"]
         /\ \A f, g \in Files : \A text :
              /\ f # g => [file EXCEPT ![f] = text][g] = file[g]
              /\ f # g => [Unlocked(a) EXCEPT ![f] = text][g] = Unlocked(a)[g]
              /\ [file EXCEPT ![f] = text][f] = text
              /\ [Unlocked(a) EXCEPT ![f] = text][f] = text
<1>1. file \in [Files -> Texts] /\ Unlocked(a) \in [Files -> Texts]
  BY FileTypes DEF KnownInv, TypeOK
<1>2. "lock" \in Files /\ "crate" \in Files
  BY DEF Files
<1>3. job[a].cmd \in Locked => Path(a) # "lock" /\ (Path(a) = "crate" <=> job[a].cmd = "crate")
  BY DEF Locked, Path, Target
<1>4. /\ Unlocked(a)["lock"] = IF job[a].cmd = "crate" THEN job[a].kept ELSE file["lock"]
      /\ Unlocked(a)["crate"] = file["crate"]
  BY <1>1, <1>2 DEF Unlocked
<1> QED BY <1>1, <1>3, <1>4

\* One step of one command: Cargo.lock is put back, or its drift is lost.
LEMMA LockKept ==
  ASSUME OneCommand, Strong, NEW a \in Actors, LockInv, <<None, "lock">> \notin lost',
         lost \subseteq lost', LockedStep(a) \/ Crash(a)
  PROVE  (Remembers(a)' => job'[a].kept = Initial["lock"]) /\ (~Loose(a)' => file'["lock"] = Initial["lock"])
<1>0. /\ KnownInv /\ Knows(a) /\ job[a] \in Job /\ file \in [Files -> Texts]
      /\ pc \in [Actors -> Steps \cup {"idle"}] /\ job \in [Actors -> Job]
      /\ "lock" \in Files /\ "manifest" \in Files
  BY DEF Strong, KnownInv, TypeOK, Files
<1>1. Remembers(a) => job[a].kept = Initial["lock"]
  BY DEF LockInv
<1>2. ~Loose(a) => file["lock"] = Initial["lock"]
  BY DEF LockInv, OneCommand
<1>3. ASSUME End(a), file'["lock"] = Initial["lock"]
      PROVE  (Remembers(a)' => job'[a].kept = Initial["lock"]) /\ (~Loose(a)' => file'["lock"] = Initial["lock"])
  BY <1>0, <1>3 DEF End, Remembers, HeldSteps
<1>4. job[a].cmd # "crate" \/ pc[a] \in HeldSteps \ {"judge", "inspect"} =>
        Unlocked(a)["lock"] = Initial["lock"]
  BY <1>0, <1>1, <1>2, FilesLeft DEF Remembers, Loose
<1>5. ASSUME Refuse(a), job[a].cmd # "crate" \/ pc[a] \in HeldSteps \ {"judge", "inspect"}
      PROVE  End(a) /\ file'["lock"] = Initial["lock"]
  BY <1>4, <1>5 DEF Refuse, Abandon
<1>6. ASSUME job'[a].kept = job[a].kept, job'[a].cmd = job[a].cmd,
             file'["lock"] = file["lock"] \/ file'["lock"] = Initial["lock"],
             Remembers(a)' => Remembers(a), Loose(a) => Loose(a)' \/ file'["lock"] = Initial["lock"]
      PROVE  (Remembers(a)' => job'[a].kept = Initial["lock"]) /\ (~Loose(a)' => file'["lock"] = Initial["lock"])
  BY <1>1, <1>2, <1>6
<1>7. CASE Acquire(a) \/ JudgeGrants(a)
  <2>1. pc[a] \in {"acquire", "judge"} /\ pc'[a] \in {"judge", "inspect"} /\ file' = file
    BY <1>0, <1>7 DEF Acquire, JudgeGrants, Goto, shared
  <2> QED BY <1>2, <2>1 DEF Loose, Remembers
<1>8. CASE JudgeRefuses(a)
  <2>1. End(a) /\ file' = file /\ pc[a] = "judge"
    BY <1>8 DEF JudgeRefuses, shared
  <2> QED BY <1>2, <1>3, <2>1 DEF Loose
<1>9. CASE InspectManifest(a) \/ InspectRoot(a)
  <2>1. job[a].cmd # "crate" /\ pc[a] = "inspect"
    BY <1>9 DEF InspectManifest, InspectRoot
  <2>2. CASE Refuse(a)
    BY <1>3, <1>5, <2>1, <2>2
  <2>3. CASE ~Refuse(a)
    <3>1. file' = file /\ job'[a].cmd = job[a].cmd
      BY <1>0, <1>9, <2>3 DEF InspectManifest, InspectRoot, Job, shared
    <3> QED BY <1>2, <2>1, <3>1 DEF Remembers, Loose
  <2> QED BY <2>2, <2>3
<1>10. CASE InspectCrate(a)
  <2>0. pc[a] = "inspect" /\ file["lock"] = Initial["lock"]
    BY <1>2, <1>10 DEF InspectCrate, Loose
  <2>1. CASE End(a) /\ UNCHANGED <<shared, history>>
    BY <1>3, <2>0, <2>1 DEF shared
  <2>2. CASE ~(End(a) /\ UNCHANGED <<shared, history>>)
    <3>1. job' = [job EXCEPT ![a] = [@ EXCEPT !.root = file["root"], !.kept = file["lock"]]]
          /\ pc'[a] = "recheck" /\ job[a].cmd = "crate"
      BY <1>0, <1>10, <2>2 DEF InspectCrate, Goto
    <3>2. job'[a].kept = file["lock"] /\ job'[a].cmd = "crate"
      BY <1>0, <3>1 DEF Job
    <3> QED BY <2>0, <3>1, <3>2 DEF Loose
  <2> QED BY <2>1, <2>2
<1>11. CASE Recheck(a)
  <2>1. pc[a] = "recheck"
    BY <1>11 DEF Recheck
  <2>2. CASE Refuse(a)
    BY <1>3, <1>5, <2>1, <2>2 DEF HeldSteps
  <2>3. CASE ~Refuse(a)
    <3>1. file' = file /\ job' = job /\ pc'[a] \in {"validate", "write"}
      BY <1>0, <1>11, <2>3 DEF Recheck, Goto, shared
    <3> QED BY <1>6, <2>1, <3>1 DEF Remembers, Loose, HeldSteps
  <2> QED BY <2>2, <2>3
<1>12. CASE Write(a)
  <2>1. /\ pc[a] = "write" /\ pc'[a] = IF job[a].cmd = "generate" THEN "verify" ELSE "validate"
        /\ job'[a].cmd = job[a].cmd /\ job'[a].kept = job[a].kept
        /\ file' = [file EXCEPT ![Path(a)] = job[a].text]
    BY <1>0, <1>12 DEF Write, Goto, Job
  <2>2. file'["lock"] = file["lock"]
    <3>1. job[a].cmd \in Locked
      BY <1>0, <2>1 DEF Knows, HeldSteps
    <3> QED BY <1>0, <2>1, <3>1, FilesLeft
  <2> QED BY <1>6, <2>1, <2>2 DEF Remembers, Loose, HeldSteps
<1>13. CASE WriteFails(a)
  <2>1. pc[a] = "write" /\ job[a].cmd \in Locked
    BY <1>0, <1>13 DEF WriteFails, Knows, HeldSteps
  <2>2. CASE Refuse(a)
    BY <1>3, <1>5, <2>1, <2>2 DEF HeldSteps
  <2>3. CASE ~Refuse(a)
    <3>1. End(a) /\ file' = [Unlocked(a) EXCEPT ![Path(a)] = job[a].text]
      BY <1>13, <2>3 DEF WriteFails
    <3>2. file'["lock"] = Unlocked(a)["lock"]
      BY <1>0, <2>1, <3>1, FilesLeft, FileTypes
    <3> QED BY <1>3, <1>4, <2>1, <3>1, <3>2 DEF HeldSteps
  <2> QED BY <2>2, <2>3
<1>14. CASE Verify(a) \/ ReadFails(a)
  <2>1. CASE Refuse(a)
    <3>1. job[a].cmd # "crate" \/ pc[a] \in HeldSteps \ {"judge", "inspect"}
      BY <1>14 DEF Verify, ReadFails, HeldSteps
    <3> QED BY <1>3, <1>5, <2>1, <3>1
  <2>2. CASE ~Refuse(a)
    <3>1. /\ pc[a] \in {"verify", "final"}
          /\ \/ End(a) /\ file' = [file EXCEPT !["manifest"] = IF job[a].wrote THEN None ELSE @]
             \/ pc'[a] \in {"audit", "restore"} /\ file' = file /\ job' = job
      BY <1>0, <1>14, <2>2 DEF Verify, ReadFails, Abandon, Goto, shared
    <3>2. file'["lock"] = file["lock"]
      BY <1>0, <3>1, FilesLeft
    <3> QED BY <1>2, <1>3, <1>6, <3>1, <3>2 DEF Remembers, Loose, HeldSteps
  <2> QED BY <2>1, <2>2
<1>15. CASE ValidateRoot(a) \/ Final(a)
  <2>1. job[a].cmd # "crate" \/ pc[a] = "final"
    BY <1>15 DEF ValidateRoot, Final
  <2>2. CASE Refuse(a)
    BY <1>3, <1>5, <2>1, <2>2 DEF HeldSteps
  <2>3. CASE ~Refuse(a)
    <3>1. /\ pc[a] \in {"validate", "final"} /\ file' = file /\ job' = job
      BY <1>15, <2>3 DEF ValidateRoot, Final, shared
    <3> QED BY <1>6, <2>1, <3>1 DEF Remembers, Loose, HeldSteps
  <2> QED BY <2>2, <2>3
<1>16. CASE ValidateCrate(a)
  <2>1. /\ pc[a] = "validate" /\ pc'[a] = "relock" /\ job[a].cmd = "crate"
        /\ job'[a].cmd = job[a].cmd /\ job'[a].kept = job[a].kept
    BY <1>0, <1>16 DEF ValidateCrate, Goto, Job
  <2> QED BY <1>1, <2>1 DEF Remembers, Loose, HeldSteps
<1>17. CASE Relock(a) \/ RelockFails(a)
  <2>1. pc[a] = "relock" /\ Unlocked(a)["lock"] = Initial["lock"]
    BY <1>4, <1>17 DEF Relock, RelockFails, HeldSteps
  <2>2. file' = Unlocked(a) /\ job' = job
    BY <1>17 DEF Relock, RelockFails
  <2> QED BY <1>6, <2>1, <2>2 DEF Remembers, HeldSteps
<1>18. CASE Audit(a) \/ AuditFails(a) \/ RestoreFails(a)
  <2>1. pc[a] \in {"audit", "restore"} /\ file' = file
    BY <1>18 DEF Audit, AuditFails, RestoreFails, shared
  <2>2. End(a) \/ job' = job
    BY <1>18 DEF Audit, AuditFails, RestoreFails, Abandon
  <2> QED BY <1>2, <1>3, <1>6, <2>1, <2>2 DEF Remembers, Loose, HeldSteps
<1>19. CASE Restore(a)
  <2>1. pc[a] = "restore" /\ End(a) /\ file' = Restored(a) /\ job[a].cmd \in Locked
    BY <1>0, <1>19 DEF Restore, Abandon, Knows, HeldSteps
  <2>2. Restored(a)["lock"] = Unlocked(a)["lock"]
    BY <1>0, <2>1, FilesLeft, FileTypes DEF Restored
  <2> QED BY <1>3, <1>4, <2>1, <2>2 DEF HeldSteps
<1>20. CASE Crash(a)
  <2>1. End(a) /\ file' = file
    BY <1>20 DEF Crash
  <2>2. Loose(a) => file["lock"] = job[a].kept
    BY <1>20 DEF Crash, Loose, Locked, HeldSteps
  <2>3. Loose(a) => Remembers(a)
    BY DEF Loose, Remembers, HeldSteps
  <2> QED BY <1>1, <1>2, <1>3, <2>1, <2>2, <2>3
<1> QED BY <1>7, <1>8, <1>9, <1>10, <1>11, <1>12, <1>13, <1>14, <1>15, <1>16, <1>17, <1>18, <1>19,
           <1>20 DEF LockedStep

LEMMA NextLocks == OneCommand /\ NoHandLock /\ Strong /\ LockInv /\ [Next]_vars => LockInv'
<1> SUFFICES ASSUME OneCommand, NoHandLock, Strong, LockInv, [Next]_vars, <<None, "lock">> \notin lost'
             PROVE  LockInv'
  BY DEF LockInv
<1>0. /\ lost \subseteq lost' /\ KnownInv /\ file \in [Files -> Texts]
      /\ pc \in [Actors -> Steps \cup {"idle"}] /\ job \in [Actors -> Job]
  BY LostGrows DEF Strong, KnownInv, TypeOK
<1>1. ASSUME NEW a \in Actors, LockedStep(a) \/ Crash(a) PROVE LockInv'
  <2>1. /\ Remembers(a)' => job'[a].kept = Initial["lock"]
        /\ ~Loose(a)' => file'["lock"] = Initial["lock"]
    BY <1>0, <1>1, LockKept
  <2> QED BY <2>1 DEF LockInv, OneCommand
<1>2. ASSUME NEW a \in Actors,
             \/ Authorize(a) \/ Scaffold(a)
             \/ \E cmd \in Commands, issue \in Issues, text \in Texts : Begin(a, cmd, issue, text)
      PROVE  LockInv'
  <2>1. /\ pc[a] \notin HeldSteps /\ pc'[a] \notin HeldSteps
        /\ \/ file' = file
           \/ \E f \in {"crate", "source"} : \E text \in Texts : file' = [file EXCEPT ![f] = text]
    BY <1>0, <1>2 DEF Authorize, AuthorizeRead, AuthorizeAppend, AuthorizeFails, Scaffold, ScaffoldStart,
       ScaffoldGrant, ScaffoldLook, ScaffoldPut, ScaffoldSkeleton, ScaffoldFails, Begin, Goto, End,
       HeldSteps, shared, Texts
  <2>2. file'["lock"] = file["lock"]
    BY <1>0, <2>1 DEF Files
  <2>3. ~Loose(a) /\ ~Remembers(a)'
    BY <2>1 DEF Loose, Remembers, HeldSteps
  <2> QED BY <1>0, <2>2, <2>3 DEF LockInv, OneCommand
<1>3. CASE UNCHANGED <<pc, job>> /\ file'["lock"] = file["lock"]
  BY <1>0, <1>3 DEF LockInv, Remembers, Loose
<1>4. CASE \/ Tick \/ UNCHANGED vars
           \/ \E edit \in Editable : HandEdit(edit[1], edit[2])
           \/ \E whitelist \in Declarable : EditDescriptor(whitelist)
  <2>1. ASSUME NEW edit \in Editable, HandEdit(edit[1], edit[2])
        PROVE  UNCHANGED <<pc, job>> /\ file'["lock"] = file["lock"]
    BY <1>0, <2>1, WritersAssumption DEF HandEdit, NoHandLock, Files
  <2> QED BY <1>3, <1>4, <2>1 DEF Tick, EditDescriptor, vars
<1> QED BY <1>1, <1>2, <1>4 DEF Next

\* The changes are pairs of a grant and a file.
Paired == \A use \in used : use = <<use[1], use[2]>>

LEMMA NextPaired == Paired /\ [Next]_vars => Paired'
<1> SUFFICES ASSUME Paired, [Next]_vars PROVE Paired'
  OBVIOUS
<1>1. ASSUME NEW a \in Actors, LockedStep(a) PROVE used' \subseteq used \cup {Use(a)}
  <2>1. Refuse(a) => used' \subseteq used
    BY DEF Refuse, Abandon
  <2> QED BY <1>1, <2>1
     DEF LockedStep, Acquire, JudgeGrants, JudgeRefuses, InspectManifest, InspectRoot, InspectCrate,
         Recheck, Write, WriteFails, Verify, ReadFails, ValidateRoot, ValidateCrate, Final, Relock,
         RelockFails, Audit, AuditFails, Restore, RestoreFails, Abandon, history
<1>2. ASSUME NEW a \in Actors,
             \/ Authorize(a) \/ Scaffold(a) \/ Crash(a)
             \/ \E cmd \in Commands, issue \in Issues, text \in Texts : Begin(a, cmd, issue, text)
      PROVE  used' \subseteq used
  BY <1>2 DEF Authorize, AuthorizeRead, AuthorizeAppend, AuthorizeFails, Scaffold, ScaffoldStart,
     ScaffoldGrant, ScaffoldLook, ScaffoldPut, ScaffoldSkeleton, ScaffoldFails, Crash, Begin, history
<1>3. Tick \/ UNCHANGED vars \/ (\E edit \in Editable : HandEdit(edit[1], edit[2]))
      \/ (\E whitelist \in Declarable : EditDescriptor(whitelist)) => used' \subseteq used
  BY DEF Tick, HandEdit, EditDescriptor, vars, history
<1>4. ASSUME NEW a \in Actors PROVE Use(a) = <<Use(a)[1], Use(a)[2]>>
  BY DEF Use
<1> QED BY <1>1, <1>2, <1>3, <1>4 DEF Next, Paired

\* Run one at a time, whatever fails and wherever a command dies, and unless
\* Cargo.lock is written by hand: what a locked writer changed and did not take
\* back has its event when the writer is done, or is known to be lost; and
\* Cargo.lock is put back whenever no configure-crate runs.
THEOREM ChangesHaveTheirEvents ==
  ASSUME OneCommand, NoHandLock
  PROVE  Spec => []ChangesAudited
<1>1. Strong /\ KeptInv /\ LockInv /\ Paired => ChangesAudited
  <2> SUFFICES ASSUME Strong, KeptInv, LockInv, Paired PROVE ChangesAudited
    OBVIOUS
  <2>1. ASSUME AtRest, NEW use \in used \ lost
        PROVE  \E k \in DOMAIN ledger :
                 /\ ledger[k] \notin {Fragment, Damaged} \cup issued
                 /\ <<ledger[k].grant, Target[ledger[k].event]>> = use
    <3>1. HasEvent(use)
      BY <2>1 DEF KeptInv, Accounted, InProgress, AtRest, HeldSteps
    <3>2. issued \subseteq Grant
      BY DEF Strong, KnownInv, TypeOK
    <3>3. use = <<use[1], use[2]>>
      BY <2>1 DEF Paired
    <3> QED BY <3>1, <3>2, <3>3, LineKinds DEF HasEvent
  <2>2. ASSUME \A a \in Actors : job[a].cmd # "crate"
        PROVE  file["lock"] = Initial["lock"] \/ <<None, "lock">> \in lost
    BY <2>2 DEF LockInv, Loose
  <2> QED BY <2>1, <2>2 DEF ChangesAudited
<1>2. Init => LockInv
  BY DEF Init, LockInv, Remembers, HeldSteps
<1>3. Strong /\ LockInv /\ [Next]_vars => LockInv'
  BY NextLocks
<1>4. Strong /\ KeptInv /\ [Next]_vars => KeptInv'
  BY NextKept
<1>5. Init => Paired
  BY DEF Init, Paired
<1> QED BY <1>1, <1>2, <1>3, <1>4, <1>5, NextPaired, InitStrong, NextStrong, InitKept, PTL DEF Spec

-----------------------------------------------------------------------------
(* The pin of the crate manifest.                                          *)

\* The last recorded pin changes with an event of configure-crate.
LEMMA LastPinStays ==
  ASSUME KnownInv, KnownInv', Len(ledger) <= Len(ledger'),
         \A k \in DOMAIN ledger : ledger'[k] = ledger[k],
         \A k \in DOMAIN ledger' \ DOMAIN ledger :
           ledger'[k] \in {Fragment, Damaged} \/ ledger'[k].event # "crate"
  PROVE  LastPin' = LastPin
<1>1. EventLines("crate")' = EventLines("crate")
  <2>1. ledger \in Seq(Line) /\ ledger' \in Seq(Line)
    BY DEF KnownInv, TypeOK
  <2>2. DOMAIN ledger \subseteq DOMAIN ledger'
    BY <2>1
  <2> QED BY <2>2 DEF EventLines
<1> DEFINE last == {k \in EventLines("crate") : \A l \in EventLines("crate") : l <= k}
<1>2. last # {} => (CHOOSE k \in last : TRUE) \in DOMAIN ledger
  BY DEF EventLines
<1>3. last' = last
  BY <1>1
<1>4. LastPin = IF last = {} THEN None ELSE ledger[CHOOSE k \in last : TRUE].text
  BY DEF LastPin
<1>5. LastPin' = IF last' = {} THEN None ELSE ledger'[CHOOSE k \in last' : TRUE].text
  BY DEF LastPin
<1> HIDE DEF last
<1> QED BY <1>2, <1>3, <1>4, <1>5

LEMMA LastPinMoves ==
  ASSUME KnownInv, KnownInv', NEW e \in Event, e.event = "crate", Len(ledger') = Len(ledger) + 1,
         \A k \in DOMAIN ledger : ledger'[k] = ledger[k], ledger'[Len(ledger) + 1] = e
  PROVE  LastPin' = e.text
<1> DEFINE n == Len(ledger) + 1
           last == {k \in EventLines("crate") : \A l \in EventLines("crate") : l <= k}
<1>1. ledger \in Seq(Line) /\ ledger' \in Seq(Line) /\ n \in Nat /\ DOMAIN ledger' = 1..n
  BY DEF KnownInv, TypeOK
<1>2. n \in EventLines("crate")'
  BY <1>1, LineKinds DEF EventLines
<1>3. \A k \in EventLines("crate")' : k \in 1..n
  BY <1>1 DEF EventLines
<1>4. last' = {n}
  BY <1>1, <1>2, <1>3
<1> HIDE DEF last
<1>5. LastPin' = ledger'[CHOOSE k \in last' : TRUE].text
  BY <1>4 DEF LastPin, last
<1> QED BY <1>4, <1>5

\* A pin that is there and has no event yet is lost with its writer.
LEMMA PinAbandoned ==
  ASSUME KnownInv, NEW a \in Actors, NEW f, Abandon(a, f), f["crate"] = file["crate"], ~PinLost'
  PROVE  ~Pinned(a)
<1>1. Pinned(a) => f[Path(a)] = job[a].text /\ Use(a)[2] = "crate"
  BY DEF Pinned, Path, Target, Use
<1> QED BY <1>1 DEF Abandon, Pinned, PinLost

\* One step of one command.
LEMMA PinKept ==
  ASSUME OneCommand, NoHandPins, Strong, KnownInv', KeptInv, NEW a \in Actors, PinInv, ~PinLost',
         lost \subseteq lost', LockedStep(a) \/ Crash(a)
  PROVE  /\ file'["crate"] \in Pins => file'["crate"] = LastPin' \/ Pinned(a)'
         /\ Repinning(a)'
<1>0. /\ KnownInv /\ Knows(a) /\ Unspent(a) /\ Kept(a) /\ job[a] \in Job /\ file \in [Files -> Texts]
      /\ pc \in [Actors -> Steps \cup {"idle"}] /\ job \in [Actors -> Job]
      /\ "crate" \in Files /\ "lock" \in Files /\ "manifest" \in Files
      /\ ledger \in Seq(Line) /\ Len(ledger) \in Nat
  BY DEF Strong, KnownInv, TypeOK, Files, SpendInv, KeptInv
<1>1. (file["crate"] \in Pins => file["crate"] = LastPin \/ Pinned(a)) /\ Repinning(a)
  BY DEF PinInv, PinLost, OneCommand
<1>2. ASSUME ledger' = ledger PROVE LastPin' = LastPin
  BY <1>2 DEF LastPin, EventLines
<1>3. ASSUME pc'[a] \notin HeldSteps, LastPin' = LastPin, file'["crate"] = file["crate"], ~Pinned(a)
      PROVE  /\ file'["crate"] \in Pins => file'["crate"] = LastPin' \/ Pinned(a)'
             /\ Repinning(a)'
  BY <1>1, <1>3 DEF Repinning, HeldSteps
<1>4. ASSUME ledger' = ledger, NEW f, Abandon(a, f), f["crate"] = file["crate"], file'["crate"] = file["crate"]
      PROVE  /\ file'["crate"] \in Pins => file'["crate"] = LastPin' \/ Pinned(a)'
             /\ Repinning(a)'
  <2>1. pc'[a] \notin HeldSteps
    BY <1>0, <1>4 DEF Abandon, End, HeldSteps
  <2>2. ~Pinned(a)
    BY <1>0, <1>4, PinAbandoned
  <2> QED BY <1>2, <1>3, <1>4, <2>1, <2>2
<1>5. ASSUME Refuse(a)
      PROVE  /\ file'["crate"] \in Pins => file'["crate"] = LastPin' \/ Pinned(a)'
             /\ Repinning(a)'
  <2>1. file'["crate"] = file["crate"] /\ ledger' = ledger /\ Abandon(a, file')
    BY <1>0, <1>5, FilesLeft DEF Refuse
  <2> QED BY <1>4, <2>1
<1>6. ASSUME End(a), UNCHANGED <<shared, history>>, ~job[a].wrote
      PROVE  /\ file'["crate"] \in Pins => file'["crate"] = LastPin' \/ Pinned(a)'
             /\ Repinning(a)'
  <2>1. pc'[a] \notin HeldSteps /\ ledger' = ledger /\ file' = file
    BY <1>0, <1>6 DEF End, HeldSteps, shared
  <2> QED BY <1>2, <1>3, <1>6, <2>1 DEF Pinned
<1>7. ASSUME LastPin' = LastPin, file'["crate"] = file["crate"],
             pc[a] \in HeldSteps, pc'[a] \in HeldSteps, job'[a].cmd = job[a].cmd,
             job'[a].wrote = job[a].wrote, job'[a].text = job[a].text
      PROVE  file'["crate"] \in Pins => file'["crate"] = LastPin' \/ Pinned(a)'
  BY <1>1, <1>7 DEF Pinned
<1>8. CASE Acquire(a) \/ JudgeGrants(a)
  <2>1. /\ pc[a] \in {"acquire", "judge"} /\ pc'[a] \in {"judge", "inspect"}
        /\ UNCHANGED <<ledger, file>> /\ ~job[a].wrote
        /\ pc'[a] = "inspect" => job'[a].prior = LastPin
    <3>1. CASE Acquire(a)
      BY <1>0, <1>8, <3>1 DEF Acquire, Goto, shared, Unspent
    <3>2. CASE JudgeGrants(a)
      <4>1. PICK g, spent : job' = [job EXCEPT ![a] =
               [@ EXCEPT !.grant = g, !.at = clock, !.spent = spent, !.prior = LastPin]]
        BY <3>2 DEF JudgeGrants
      <4>2. job'[a].prior = LastPin
        BY <1>0, <4>1 DEF Job
      <4> QED BY <1>0, <3>2, <4>2 DEF JudgeGrants, Goto, shared, Unspent
    <3> QED BY <1>8, <3>1, <3>2
  <2>2. LastPin' = LastPin
    BY <1>2, <2>1
  <2> QED BY <1>1, <2>1, <2>2 DEF Pinned, Repinning, HeldSteps
<1>9. CASE JudgeRefuses(a)
  BY <1>0, <1>6, <1>9 DEF JudgeRefuses, Unspent
<1>10. CASE InspectManifest(a) \/ InspectRoot(a)
  <2>1. CASE ~Refuse(a)
    <3>1. /\ job[a].cmd # "crate" /\ job'[a].cmd = job[a].cmd /\ UNCHANGED <<ledger, file>>
      BY <1>0, <1>10, <2>1 DEF InspectManifest, InspectRoot, Job, shared
    <3> QED BY <1>1, <1>2, <3>1 DEF Pinned, Repinning
  <2> QED BY <1>5, <2>1
<1>11. CASE InspectCrate(a)
  <2>0. pc[a] = "inspect" /\ ~job[a].wrote
    BY <1>0, <1>11 DEF InspectCrate, Unspent
  <2>1. CASE End(a) /\ UNCHANGED <<shared, history>>
    BY <1>6, <2>0, <2>1
  <2>2. CASE ~(End(a) /\ UNCHANGED <<shared, history>>)
    <3>1. /\ job' = [job EXCEPT ![a] = [@ EXCEPT !.root = file["root"], !.kept = file["lock"]]]
          /\ pc'[a] = "recheck" /\ job[a].cmd = "crate" /\ ledger' = ledger
          /\ Repins(job[a].source, job[a].prior, job[a].text)
          /\ file'["crate"] = file["crate"]
      BY <1>0, <1>11, <2>2 DEF InspectCrate, Goto
    <3>2. /\ job'[a].cmd = "crate" /\ job'[a].prior = job[a].prior /\ job'[a].source = job[a].source
          /\ job'[a].text = job[a].text /\ job'[a].wrote = job[a].wrote
      BY <1>0, <3>1 DEF Job
    <3>3. Repinning(a)'
      <4>1. job[a].prior = LastPin /\ LastPin' = LastPin
        BY <1>1, <1>2, <2>0, <3>1 DEF Repinning, HeldSteps
      <4>2. Repins(job[a].source, job[a].prior, job[a].text)'
        BY <3>1, <3>2 DEF Repins
      <4> QED BY <3>1, <3>2, <4>1, <4>2 DEF Repinning
    <3> QED BY <1>2, <1>7, <2>0, <3>1, <3>2, <3>3 DEF HeldSteps
  <2> QED BY <2>1, <2>2
<1>12. ASSUME ledger' = ledger, file'["crate"] = file["crate"], job' = job,
              pc[a] \in HeldSteps \ {"judge", "inspect"}, pc'[a] \in HeldSteps \ {"judge", "inspect"},
              job[a].cmd = "crate" => pc'[a] # "final",
              job[a].cmd = "crate" /\ pc'[a] = "audit" /\ file["crate"] \in Pins => file["crate"] = job[a].text
       PROVE  /\ file'["crate"] \in Pins => file'["crate"] = LastPin' \/ Pinned(a)'
              /\ Repinning(a)'
  <2>1. LastPin' = LastPin
    BY <1>2, <1>12
  <2>2. Repinning(a)'
    BY <1>1, <1>12, <2>1 DEF Repinning, Repins
  <2> QED BY <1>7, <1>12, <2>1, <2>2
<1>13. CASE Recheck(a)
  <2>1. CASE ~Refuse(a)
    <3>1. /\ pc[a] = "recheck" /\ pc'[a] \in {"validate", "write"} /\ UNCHANGED <<ledger, file, job>>
      BY <1>0, <1>13, <2>1 DEF Recheck, Goto, shared
    <3> QED BY <1>12, <3>1 DEF HeldSteps
  <2> QED BY <1>5, <2>1
<1>14. CASE Write(a)
  <2>1. /\ pc[a] = "write" /\ pc'[a] \in {"verify", "validate"} /\ ledger' = ledger
        /\ job'[a].cmd = job[a].cmd /\ job'[a].prior = job[a].prior /\ job'[a].source = job[a].source
        /\ job'[a].text = job[a].text /\ job'[a].wrote
        /\ file' = [file EXCEPT ![Path(a)] = job[a].text]
    BY <1>0, <1>14 DEF Write, Goto, Job
  <2>2. LastPin' = LastPin /\ ~job[a].wrote /\ job[a].cmd \in Locked
    BY <1>0, <1>2, <2>1 DEF Unspent, Knows, HeldSteps
  <2>3. Repinning(a)'
    <3>1. Repins(job[a].source, job[a].prior, job[a].text) <=> Repins(job[a].source, job[a].prior, job[a].text)'
      BY <2>1 DEF Repins
    <3> QED BY <1>1, <2>1, <2>2, <3>1 DEF Repinning, HeldSteps
  <2>4. CASE job[a].cmd = "crate"
    <3>1. file'["crate"] = job[a].text
      BY <1>0, <2>1, <2>4 DEF Path, Target
    <3> QED BY <2>1, <2>3, <2>4, <3>1 DEF Pinned, HeldSteps
  <2>5. CASE job[a].cmd # "crate"
    <3>1. file'["crate"] = file["crate"]
      BY <1>0, <2>1, <2>2, <2>5, FilesLeft
    <3> QED BY <1>1, <2>2, <2>3, <2>5, <3>1 DEF Pinned
  <2> QED BY <2>4, <2>5
<1>15. CASE WriteFails(a)
  <2>1. CASE ~Refuse(a)
    <3>1. /\ pc[a] = "write" /\ End(a) /\ ledger' = ledger /\ Use(a) \in lost'
          /\ file' = [Unlocked(a) EXCEPT ![Path(a)] = job[a].text]
      BY <1>15, <2>1 DEF WriteFails
    <3>2. job[a].cmd \in Locked /\ ~job[a].wrote
      BY <1>0, <3>1 DEF Knows, Unspent, HeldSteps
    <3>3. Path(a) # "crate"
      BY <3>1 DEF PinLost, Use
    <3>4. file'["crate"] = file["crate"]
      BY <1>0, <3>1, <3>2, <3>3, FilesLeft, FileTypes
    <3>5. pc'[a] \notin HeldSteps
      BY <1>0, <3>1 DEF End, HeldSteps
    <3> QED BY <1>2, <1>3, <3>1, <3>2, <3>4, <3>5 DEF Pinned
  <2> QED BY <1>5, <2>1
<1>16. CASE Verify(a) \/ ReadFails(a)
  <2>1. CASE ~Refuse(a)
    <3>1. \/ /\ file' = [file EXCEPT !["manifest"] = IF job[a].wrote THEN None ELSE @]
             /\ Abandon(a, file') /\ ledger' = ledger
          \/ /\ pc[a] \in {"verify", "final"} /\ pc'[a] \in {"audit", "restore"}
             /\ pc[a] = "final" => pc'[a] = "restore"
             /\ UNCHANGED <<ledger, file, job>>
      BY <1>0, <1>16, <2>1 DEF Verify, ReadFails, Goto, shared
    <3>2. pc[a] = "verify" => job[a].cmd # "crate"
      BY <1>0 DEF Knows
    <3>3. [file EXCEPT !["manifest"] = IF job[a].wrote THEN None ELSE @]["crate"] = file["crate"]
      BY <1>0, FilesLeft
    <3> QED BY <1>4, <1>12, <3>1, <3>2, <3>3 DEF HeldSteps
  <2> QED BY <1>5, <2>1
<1>17. CASE ValidateRoot(a) \/ Final(a)
  <2>1. CASE ~Refuse(a)
    <3>1. /\ pc[a] \in {"validate", "final"} /\ pc'[a] \in {"final", "restore", "audit"}
          /\ UNCHANGED <<ledger, file, job>>
      BY <1>0, <1>17, <2>1 DEF ValidateRoot, Final, Goto, shared
    <3>2. job[a].cmd # "crate"
      BY <1>0, <1>1, <1>17 DEF ValidateRoot, Final, Repinning
    <3> QED BY <1>12, <3>1, <3>2 DEF HeldSteps
  <2> QED BY <1>5, <2>1
<1>18. CASE ValidateCrate(a)
  <2>1. /\ pc[a] = "validate" /\ pc'[a] = "relock" /\ ledger' = ledger /\ file'["crate"] = file["crate"]
        /\ job'[a].cmd = job[a].cmd /\ job'[a].prior = job[a].prior /\ job'[a].source = job[a].source
        /\ job'[a].text = job[a].text /\ job'[a].wrote = job[a].wrote
    BY <1>0, <1>18 DEF ValidateCrate, Goto, Job
  <2>2. LastPin' = LastPin
    BY <1>2, <2>1
  <2>3. Repinning(a)'
    <3>1. Repins(job[a].source, job[a].prior, job[a].text) <=> Repins(job[a].source, job[a].prior, job[a].text)'
      BY <2>1 DEF Repins
    <3> QED BY <1>1, <2>1, <2>2, <3>1 DEF Repinning, HeldSteps
  <2> QED BY <1>7, <2>1, <2>2, <2>3 DEF HeldSteps
<1>19. CASE Relock(a) \/ RelockFails(a)
  <2>1. CASE ~End(a)
    <3>0. job' = job /\ file' = Unlocked(a) /\ ledger' = ledger
      BY <1>19, <2>1 DEF Relock, RelockFails
    <3>1. /\ pc[a] = "relock" /\ pc'[a] \in {"audit", "restore"}
          /\ pc'[a] = "audit" => file["crate"] = job[a].text
      BY <1>0, <1>19, <2>1 DEF Relock, RelockFails, Goto
    <3>2. file'["crate"] = file["crate"]
      BY <1>0, <3>0, FilesLeft
    <3> QED BY <1>12, <3>0, <3>1, <3>2 DEF HeldSteps
  <2>2. CASE End(a)
    <3>0. pc'[a] = "idle"
      BY <1>0, <2>2 DEF End
    <3>1. /\ End(a) /\ UNCHANGED <<ledger, file>>
          /\ job[a].wrote /\ file["crate"] = job[a].text => Use(a) \in lost'
      BY <1>0, <1>19, <2>2, <3>0 DEF Relock, RelockFails, Goto, shared
    <3>2. ~Pinned(a)
      BY <3>1 DEF Pinned, PinLost, Use, Path, Target
    <3>3. pc'[a] \notin HeldSteps
      BY <1>0, <3>1 DEF End, HeldSteps
    <3> QED BY <1>2, <1>3, <3>1, <3>2, <3>3
  <2> QED BY <2>1, <2>2
<1>20. CASE Audit(a)
  <2>1. /\ pc[a] = "audit" /\ Readable(ledger) /\ pc'[a] \notin HeldSteps /\ file' = file
        /\ ledger' = Appended(ledger, <<EventOf(a)>>)
    BY <1>0, <1>20 DEF Audit, Kept, End, HeldSteps
  <2>2. /\ EventOf(a) \in Event /\ EventOf(a).event = job[a].cmd /\ EventOf(a).text = job[a].text
        /\ Len(ledger') = Len(ledger) + 1 /\ \A k \in DOMAIN ledger : ledger'[k] = ledger[k]
        /\ ledger'[Len(ledger) + 1] = EventOf(a)
    BY <1>0, <2>1, EventWritten
  <2>3. CASE job[a].cmd = "crate"
    <3>1. LastPin' = job[a].text
      BY <1>0, <2>2, <2>3, LastPinMoves
    <3> QED BY <1>1, <2>1, <2>3, <3>1 DEF Repinning, HeldSteps
  <2>4. CASE job[a].cmd # "crate"
    <3>1. ledger' \in Seq(Line)
      BY DEF KnownInv, TypeOK
    <3>2. \A k \in DOMAIN ledger' \ DOMAIN ledger : k = Len(ledger) + 1
      BY <1>0, <2>2, <3>1
    <3>3. Len(ledger) <= Len(ledger')
      BY <1>0, <2>2
    <3>4. LastPin' = LastPin
      BY <1>0, <2>2, <2>4, <3>2, <3>3, LastPinStays
    <3> QED BY <1>3, <2>1, <2>4, <3>4 DEF Pinned
  <2> QED BY <2>3, <2>4
<1>21. CASE AuditFails(a)
  <2>1. /\ pc[a] = "audit" /\ pc'[a] = "restore" /\ UNCHANGED <<job, file>> /\ Readable(ledger)
    BY <1>0, <1>21 DEF AuditFails, Goto, Kept, HeldSteps
  <2>2. LastPin' = LastPin
    <3>1. CASE job[a].cmd # "generate"
      BY <1>0, <1>2, <1>21, <3>1, AuditFailsLeaves
    <3>2. CASE job[a].cmd = "generate"
      <4>1. EventOf(a).event = "generate"
        BY <3>2 DEF EventOf
      <4>2. /\ Len(ledger) <= Len(ledger') /\ \A k \in DOMAIN ledger : ledger'[k] = ledger[k]
            /\ \A k \in DOMAIN ledger' \ DOMAIN ledger :
                 ledger'[k] \in {Fragment, Damaged} \/ ledger'[k].event # "crate"
        BY <1>0, <1>21, <4>1, AuditFailsLeaves
      <4> QED BY <1>0, <4>2, LastPinStays
    <3> QED BY <3>1, <3>2
  <2>3. Repinning(a)'
    BY <1>1, <2>1, <2>2 DEF Repinning, Repins, HeldSteps
  <2> QED BY <1>7, <2>1, <2>2, <2>3 DEF HeldSteps
<1>22. CASE Restore(a)
  <2>1. /\ pc[a] = "restore" /\ ledger' = ledger /\ file' = Restored(a) /\ Abandon(a, file')
        /\ job[a].cmd \in Locked
    BY <1>0, <1>22 DEF Restore, Knows, HeldSteps
  <2>2. CASE Pinned(a)
    <3>1. Path(a) = "crate" /\ job[a].cmd = "crate" /\ job[a].wrote /\ file["crate"] = job[a].text
      BY <2>2 DEF Pinned, Path, Target
    <3>2. file'["crate"] = job[a].source
      <4>1. Restored(a) = [Unlocked(a) EXCEPT !["crate"] = job[a].source]
        BY <3>1 DEF Restored
      <4>2. \A text : [Unlocked(a) EXCEPT !["crate"] = text]["crate"] = text
        <5>1. Unlocked(a) \in [Files -> Texts]
          BY <1>0, FileTypes DEF KnownInv
        <5> QED BY <1>0, <5>1
      <4> QED BY <2>1, <4>1, <4>2
    <3>3. Repins(job[a].source, job[a].prior, job[a].text) /\ job[a].prior = LastPin
          /\ job[a].source # job[a].text
      BY <1>0, <1>1, <2>1, <3>1 DEF Repinning, Unspent, HeldSteps
    <3>4. job[a].source \in Pins => job[a].source = LastPin
      BY <3>3, WritersAssumption DEF Repins
    <3>5. LastPin' = LastPin /\ pc'[a] \notin HeldSteps
      BY <1>0, <1>2, <2>1 DEF Abandon, End, HeldSteps
    <3> QED BY <3>2, <3>4, <3>5 DEF Repinning, HeldSteps
  <2>3. CASE ~Pinned(a)
    <3>1. file'["crate"] = file["crate"]
      <4>1. CASE job[a].wrote /\ file[Path(a)] = job[a].text
        <5>1. Path(a) # "crate"
          BY <2>1, <2>3, <4>1, FilesLeft, <1>0 DEF Pinned, HeldSteps
        <5>2. Path(a) \in Files
          BY <2>1 DEF Path, Target, Locked, Files
        <5> QED BY <1>0, <2>1, <4>1, <5>1, <5>2, FilesLeft DEF Restored
      <4>2. CASE ~(job[a].wrote /\ file[Path(a)] = job[a].text)
        BY <1>0, <2>1, <4>2, FilesLeft DEF Restored
      <4> QED BY <4>1, <4>2
    <3> QED BY <1>4, <2>1, <3>1
  <2> QED BY <2>2, <2>3
<1>23. CASE RestoreFails(a)
  BY <1>4, <1>23 DEF RestoreFails, shared
<1>24. CASE Crash(a)
  <2>1. End(a) /\ file' = file /\ ledger' \in {ledger, Append(ledger, Fragment)}
    BY <1>24 DEF Crash
  <2>2. LastPin' = LastPin
    <3>1. Len(ledger) <= Len(ledger') /\ \A k \in DOMAIN ledger : ledger'[k] = ledger[k]
      BY <1>0, <2>1
    <3>2. \A k \in DOMAIN ledger' \ DOMAIN ledger : ledger'[k] = Fragment
      BY <1>0, <2>1
    <3> QED BY <1>0, <3>1, <3>2, LastPinStays
  <2>3. ~Pinned(a)
    <3>1. Pinned(a) => job[a].cmd \in Locked /\ Path(a) = "crate" /\ Use(a)[2] = "crate"
      BY DEF Pinned, Path, Target, Locked, Use
    <3>2. Pinned(a) => Use(a) \in lost'
      BY <1>24, <3>1 DEF Crash, Pinned
    <3> QED BY <3>1, <3>2 DEF PinLost
  <2>4. pc'[a] \notin HeldSteps
    BY <1>0, <2>1 DEF End, HeldSteps
  <2> QED BY <1>3, <2>1, <2>2, <2>3, <2>4
<1> QED BY <1>8, <1>9, <1>10, <1>11, <1>13, <1>14, <1>15, <1>16, <1>17, <1>18, <1>19, <1>20, <1>21,
           <1>22, <1>23, <1>24 DEF LockedStep

LEMMA NextPins ==
  OneCommand /\ NoHandPins /\ Strong /\ KeptInv /\ PinInv /\ [Next]_vars => PinInv'
<1> SUFFICES ASSUME OneCommand, NoHandPins, Strong, KeptInv, PinInv, [Next]_vars, ~PinLost'
             PROVE  PinInv'
  BY DEF PinInv
<1>0. /\ lost \subseteq lost' /\ KnownInv /\ KnownInv' /\ file \in [Files -> Texts]
      /\ pc \in [Actors -> Steps \cup {"idle"}] /\ job \in [Actors -> Job]
      /\ ledger \in Seq(Line) /\ ledger' \in Seq(Line) /\ ~PinLost
  BY LostGrows, NextKnows DEF Strong, KnownInv, TypeOK, PinLost
<1>1. ASSUME NEW a \in Actors, LockedStep(a) \/ Crash(a) PROVE PinInv'
  <2>1. /\ file'["crate"] \in Pins => file'["crate"] = LastPin' \/ Pinned(a)'
        /\ Repinning(a)'
    BY <1>0, <1>1, PinKept
  <2> QED BY <2>1 DEF PinInv, OneCommand
<1>2. ASSUME NEW a \in Actors,
             \/ Authorize(a) \/ Scaffold(a)
             \/ \E cmd \in Commands, issue \in Issues, text \in Texts : Begin(a, cmd, issue, text)
      PROVE  PinInv'
  <2>1. /\ pc[a] \notin HeldSteps /\ pc'[a] \notin HeldSteps
        /\ \/ file' = file
           \/ file' = [file EXCEPT !["crate"] = Bare]
           \/ file' = [file EXCEPT !["source"] = Skeleton]
    BY <1>0, <1>2 DEF Authorize, AuthorizeRead, AuthorizeAppend, AuthorizeFails, Scaffold, ScaffoldStart,
       ScaffoldGrant, ScaffoldLook, ScaffoldPut, ScaffoldSkeleton, ScaffoldFails, Begin, Goto, End,
       HeldSteps, shared
  <2>2. file'["crate"] \in Pins => file'["crate"] = file["crate"]
    BY <1>0, <2>1, WritersAssumption DEF Files
  <2>3. ~Pinned(a) /\ Repinning(a)'
    BY <2>1 DEF Pinned, Repinning, HeldSteps
  <2>4. LastPin' = LastPin
    <3>1. CASE AuthorizeAppend(a) \/ AuthorizeFails(a)
      <4>1. job[a].grant \in Grant /\ job[a].grant \in Line \ Event /\ job[a].grant.event = "grant"
        <5>1. job[a].grant \in Grant
          BY <1>0, <3>1 DEF AuthorizeAppend, AuthorizeFails, KnownInv, Knows
        <5> QED BY <5>1, LineKinds DEF Grant
      <4>2. ledger' \in {ledger, Appended(ledger, <<job[a].grant>>), Append(ledger, Fragment)}
        BY <3>1 DEF AuthorizeAppend, AuthorizeFails
      <4>3. /\ Len(ledger) <= Len(ledger') /\ \A k \in DOMAIN ledger : ledger'[k] = ledger[k]
        BY <1>0, <4>1, <4>2, GrowsBy DEF Grows
      <4>4. \A k \in DOMAIN ledger' \ DOMAIN ledger : ledger'[k] \in {Fragment, Damaged, job[a].grant}
        <5>1. CASE ledger' = ledger
          BY <5>1
        <5>2. CASE ledger' = Append(ledger, Fragment)
          BY <1>0, <5>2
        <5>3. CASE ledger' = Appended(ledger, <<job[a].grant>>)
          <6>1. Len(ledger') = Len(ledger) + 1 /\ ledger'[Len(ledger) + 1] \in {job[a].grant, Damaged}
            BY <1>0, <4>1, <5>3, LedgerGrows DEF KnownInv
          <6>2. \A k \in DOMAIN ledger' \ DOMAIN ledger : k = Len(ledger) + 1
            BY <1>0, <6>1
          <6> QED BY <6>1, <6>2
        <5> QED BY <4>2, <5>1, <5>2, <5>3
      <4> QED BY <1>0, <4>1, <4>3, <4>4, LastPinStays
    <3>2. CASE ~(AuthorizeAppend(a) \/ AuthorizeFails(a))
      <4>1. ledger' = ledger
        BY <1>2, <3>2 DEF Authorize, AuthorizeRead, Scaffold, ScaffoldStart, ScaffoldGrant, ScaffoldLook,
           ScaffoldPut, ScaffoldSkeleton, ScaffoldFails, Begin, shared
      <4> QED BY <4>1 DEF LastPin, EventLines
    <3> QED BY <3>1, <3>2
  <2> QED BY <1>0, <2>2, <2>3, <2>4 DEF PinInv, OneCommand
<1>3. CASE /\ UNCHANGED <<pc, job, ledger>>
           /\ file'["crate"] = file["crate"] \/ file'["crate"] \notin Pins
  <2>1. LastPin' = LastPin
    BY <1>3 DEF LastPin, EventLines
  <2>2. \A a \in Actors : Repinning(a)'
    BY <1>0, <1>3, <2>1 DEF PinInv, Repinning, Repins
  <2>3. file'["crate"] \in Pins => file'["crate"] = LastPin' \/ \E a \in Actors : Pinned(a)'
    BY <1>0, <1>3, <2>1 DEF PinInv, Pinned
  <2> QED BY <2>2, <2>3 DEF PinInv
<1>4. CASE \/ Tick \/ UNCHANGED vars
           \/ \E edit \in Editable : HandEdit(edit[1], edit[2])
           \/ \E whitelist \in Declarable : EditDescriptor(whitelist)
  <2>1. ASSUME NEW edit \in Editable, HandEdit(edit[1], edit[2])
        PROVE  /\ UNCHANGED <<pc, job, ledger>>
               /\ file'["crate"] = file["crate"] \/ file'["crate"] \notin Pins
    BY <1>0, <2>1, WritersAssumption DEF HandEdit, NoHandPins, Files
  <2> QED BY <1>3, <1>4, <2>1 DEF Tick, EditDescriptor, vars
<1> QED BY <1>1, <1>2, <1>4 DEF Next

\* Run one at a time, whatever fails and wherever a command dies, and unless a
\* pin is written by hand: a pin in the crate manifest is the pin of the last
\* event, or the event of a change of the manifest is known to be lost.
THEOREM PinsAreRecorded ==
  ASSUME OneCommand, NoHandPins
  PROVE  Spec => []PinRecorded
<1>1. PinInv => PinRecorded
  BY DEF PinInv, PinRecorded, PinLost, AtRest, Pinned, HeldSteps
<1>2. Init => PinInv
  BY DEF Init, PinInv, NoHandPins, Repinning, NoJob, HeldSteps
<1>3. Strong /\ KeptInv /\ PinInv /\ [Next]_vars => PinInv'
  BY NextPins
<1>4. Strong /\ KeptInv /\ [Next]_vars => KeptInv'
  BY NextKept
<1> QED BY <1>1, <1>2, <1>3, <1>4, InitStrong, NextStrong, InitKept, PTL DEF Spec
=============================================================================

--------------------------- MODULE GrantedWriters ---------------------------
(***************************************************************************)
(* The commands around the write-grant ledger, one file operation at a time: *)
(* `authorize-write` records grants; `generate-work-package`,               *)
(* `configure-cargo-profile` and `configure-crate` write one protected file  *)
(* each under an exclusive flock of the ledger and append their event to it; *)
(* `scaffold-crate` writes a crate's first manifest.  authorize-write and    *)
(* scaffold-crate take no lock.                                             *)
(***************************************************************************)
EXTENDS WriteGrants

CONSTANTS
  Actors,       \* CLI processes
  None,         \* no file, no grant, nobody
  Plans,        \* renderings of the work-package manifest
  Settings,     \* root Cargo.toml, by the profile setting it holds
  Bare,         \* the crate manifest scaffold-crate renders
  Pins,         \* crate manifests configured for a Verus version
  Skeleton,     \* the src/lib.rs scaffold-crate renders
  LockTexts,    \* contents of Cargo.lock
  Other,        \* a manifest some tool or hand wrote
  Initial,      \* the files the instance starts from
  Requests,     \* grants asked for
  Declarable,   \* supervisor whitelists the descriptor may hold
  Commands,     \* commands that are run
  Editable,     \* (file, content) pairs written by hand
  EditSteps,    \* steps of a running command during which others write files
  FailPoints,   \* steps at which an operation may raise OSError; "partial":
                \* an append may be cut short; "chmod": os.chmod may raise
                \* behind os.replace
  CrashPoints,  \* steps at which the process may die
  MaxLines,     \* bound: no command starts past this many lines
  MaxClock      \* bound: the clock stops

Files == {"manifest", "root", "crate", "source", "lock"}

Texts == Plans \cup Settings \cup Pins \cup LockTexts \cup {Bare, Skeleton, Other, None}

Locked == {"generate", "cargo", "crate"}

\* A line a locked writer appends; its target is that of its command.
Event == [event : Locked, grant : Grant, result : {"changed", "unchanged"}, text : Texts]

Line == Grant \cup Event \cup {Fragment, Damaged}

ASSUME WritersAssumption ==
  /\ None \notin Actors \cup Plans \cup Settings \cup Pins \cup LockTexts
  /\ None \notin Grant
  /\ Fragment \notin Grant \cup Event /\ Damaged \notin Grant \cup Event
  /\ Bare \notin Pins \cup {None}
  /\ Initial \in [Files -> Texts]
  /\ Requests \subseteq Request
  /\ Declarable \subseteq SUBSET Supervisors
  /\ Editable \subseteq Files \X Texts
  /\ MaxLines \in Nat /\ MaxClock \in Nat

VARIABLES
  ledger,      \* protected-writes.jsonl: grants and the events of the writers
  file,        \* [Files -> text]
  clock,       \* seconds
  declared,    \* write_set.authorized_supervisors of the descriptor
  holder,      \* process that holds the flock
  pc,          \* next step of each process
  job,         \* local variables of each process
  issued,      \* history: the grants whose line was written in full
  used,        \* history: (grant, file) of the changes that stand
  lost         \* history: those left without an event by a process that died,
               \* or by a second failure; <<None, "lock">> for a Cargo.lock

shared == <<ledger, file, clock, declared>>
history == <<issued, used, lost>>
vars == <<ledger, file, clock, declared, holder, pc, job, issued, used, lost>>

Target == [generate |-> "manifest", cargo |-> "root", crate |-> "crate"]

\* What a command can be asked to write.
TextsOf(cmd) == CASE cmd = "generate" -> Plans [] cmd = "cargo" -> Settings [] cmd = "crate" -> Pins

HeldSteps ==
  {"judge", "inspect", "recheck", "write", "verify", "validate", "relock", "final",
   "audit", "restore"}
Steps == HeldSteps \cup {"record", "acquire", "grant", "look", "put", "skeleton"}

NoJob == [cmd |-> None, issue |-> None, declared |-> {}, grant |-> None, at |-> 0,
          source |-> None, text |-> None, wrote |-> FALSE, mark |-> 0, prior |-> None,
          spent |-> FALSE, root |-> None, kept |-> None, failed |-> FALSE]

Init ==
  /\ ledger = <<>>
  /\ file = Initial
  /\ clock = 0
  /\ declared \in Declarable
  /\ holder = None
  /\ pc = [a \in Actors |-> "idle"]
  /\ job = [a \in Actors |-> NoJob]
  /\ issued = {} /\ used = {} /\ lost = {}

Goto(a, step) == pc' = [pc EXCEPT ![a] = step]

\* Mutant: an exit path that does not unlock.
EndHeld(a) ==
  /\ pc' = [pc EXCEPT ![a] = "idle"]
  /\ job' = [job EXCEPT ![a] = NoJob]
  /\ UNCHANGED holder

\* Returning, raising and dying all release the lock.
End(a) ==
  /\ pc' = [pc EXCEPT ![a] = "idle"]
  /\ job' = [job EXCEPT ![a] = NoJob]
  /\ holder' = IF holder = a THEN None ELSE holder

Path(a) == Target[job[a].cmd]
Use(a) == <<job[a].grant, Path(a)>>

\* A command that ends without its event, over the files f it leaves: what it
\* wrote is gone, or stands unrecorded.
Abandon(a, f) ==
  /\ End(a)
  /\ used' = IF job[a].wrote /\ f[Path(a)] # job[a].text THEN used \ {Use(a)} ELSE used
  /\ lost' = IF job[a].wrote /\ f[Path(a)] = job[a].text THEN lost \cup {Use(a)} ELSE lost
  /\ UNCHANGED issued

\* A refusal behind the first `cargo metadata` puts Cargo.lock back.
Unlocked(a) == IF job[a].cmd = "crate" THEN [file EXCEPT !["lock"] = job[a].kept] ELSE file

Refuse(a) ==
  /\ file' = Unlocked(a)
  /\ Abandon(a, file')
  /\ UNCHANGED <<ledger, clock, declared>>

-----------------------------------------------------------------------------
(* The surroundings.                                                       *)

Tick ==
  /\ clock < MaxClock
  /\ clock' = clock + 1
  /\ UNCHANGED <<ledger, file, declared, holder, pc, job, history>>

Writable == \A a \in Actors : pc[a] \in EditSteps \cup {"idle"}

HandEdit(f, text) ==
  /\ Writable
  /\ <<f, text>> \in Editable /\ file[f] # text
  /\ file' = [file EXCEPT ![f] = text]
  /\ UNCHANGED <<ledger, clock, declared, holder, pc, job, history>>

EditDescriptor(whitelist) ==
  /\ Writable
  /\ whitelist \in Declarable /\ whitelist # declared
  /\ declared' = whitelist
  /\ UNCHANGED <<ledger, file, clock, holder, pc, job, history>>

-----------------------------------------------------------------------------
(* authorize-write.                                                        *)

\* The window may open in the past, not in the future; a replay is refused.
AuthorizeRead(a, request, moment) ==
  /\ pc[a] = "idle" /\ Len(ledger) < MaxLines
  /\ WellBound(request) /\ Issuable(request, declared)
  /\ moment <= clock
  /\ GrantOf(request, moment) \notin Recorded(ledger)
  /\ Goto(a, "record")
  /\ job' = [job EXCEPT ![a] = [NoJob EXCEPT !.grant = GrantOf(request, moment)]]
  /\ UNCHANGED <<shared, holder, history>>

AuthorizeAppend(a) ==
  /\ pc[a] = "record"
  /\ ledger' = Appended(ledger, <<job[a].grant>>)
  /\ issued' = issued \cup {job[a].grant}
  /\ End(a)
  /\ UNCHANGED <<file, clock, declared, used, lost>>

\* Before, within or behind the write: a failing fsync leaves the line.
AuthorizeFails(a) ==
  /\ pc[a] = "record" /\ "record" \in FailPoints
  /\ \/ UNCHANGED <<ledger, issued>>
     \/ "partial" \in FailPoints /\ ledger' = Append(ledger, Fragment) /\ UNCHANGED issued
     \/ ledger' = Appended(ledger, <<job[a].grant>>) /\ issued' = issued \cup {job[a].grant}
  /\ End(a)
  /\ UNCHANGED <<file, clock, declared, used, lost>>

-----------------------------------------------------------------------------
(* The locked writers: up to the decision.                                 *)

\* configure-crate reads its manifest before it waits for the lock.
Begin(a, cmd, issue, text) ==
  /\ pc[a] = "idle" /\ Len(ledger) < MaxLines
  /\ cmd \in Locked \cap Commands /\ text \in TextsOf(cmd)
  /\ cmd # "generate" => file[Target[cmd]] # None
  /\ Goto(a, "acquire")
  /\ job' = [job EXCEPT ![a] =
       [NoJob EXCEPT !.cmd = cmd, !.issue = issue, !.declared = declared, !.text = text,
                     !.source = IF cmd = "crate" THEN file["crate"] ELSE None]]
  /\ UNCHANGED <<shared, holder, history>>

\* Mutant: nobody takes the lock.
AcquireUnlocked(a) ==
  /\ pc[a] = "acquire"
  /\ holder' = a
  /\ Goto(a, "judge")
  /\ job' = [job EXCEPT ![a].mark = Len(ledger)]
  /\ UNCHANGED <<shared, history>>

\* The size the ledger is rolled back to is taken before it is read.
Acquire(a) ==
  /\ pc[a] = "acquire" /\ holder = None
  /\ holder' = a
  /\ Goto(a, "judge")
  /\ job' = [job EXCEPT ![a].mark = Len(ledger)]
  /\ UNCHANGED <<shared, history>>

EventLines(cmd) ==
  {k \in DOMAIN ledger : ledger[k] \notin {Fragment, Damaged} /\ ledger[k].event = cmd}

\* What the ledger says of the grant was done under it before: any event for a
\* generation, a change under a one-shot grant for a profile.
SpentOn(cmd, g) ==
  \E k \in EventLines(cmd) :
    /\ ledger[k].grant = g
    /\ cmd # "generate" => g.request.oneShot /\ ledger[k].result = "changed"

LastPin ==
  LET last == {k \in EventLines("crate") : \A l \in EventLines("crate") : l <= k} IN
  IF last = {} THEN None ELSE ledger[CHOOSE k \in last : TRUE].text

\* The lines that authorize a's write of its target now, when --grant-id names
\* the grant `asked` or none: generate-work-package takes the last that is live
\* and wants it to be the one asked for, the profile writers look among those.
AuthorityLines(a, asked) ==
  LET lines == ExactLines(ledger, Path(a), job[a].issue, job[a].declared, clock)
      wanted == {k \in lines : asked \in {None, ledger[k]}} IN
  IF job[a].cmd = "generate"
    THEN {k \in wanted : IsLast(k, lines)} ELSE {k \in wanted : IsLast(k, wanted)}

Asked == Recorded(ledger) \cup {None}

\* The grant a's write is authorized by, in a set.  A line that does not parse
\* refuses the ledger.  configure-cargo-profile refuses a spent one-shot grant
\* here, even if nothing were to change.
Authority(a, asked) ==
  {ledger[k] : k \in
     {l \in AuthorityLines(a, asked) :
        /\ Readable(ledger)
        /\ job[a].cmd = "generate" => ~Replayed(ledger, Path(a))
        /\ job[a].cmd = "cargo" => ~SpentOn("cargo", ledger[l])}}

JudgeGrants(a) ==
  /\ pc[a] = "judge"
  /\ \E asked \in Asked : \E g \in Authority(a, asked) :
       job' = [job EXCEPT ![a] =
         [@ EXCEPT !.grant = g, !.at = clock, !.spent = SpentOn(job[a].cmd, g),
                   !.prior = LastPin]]
  /\ Goto(a, "inspect")
  /\ UNCHANGED <<shared, holder, history>>

JudgeRefuses(a) ==
  /\ pc[a] = "judge"
  /\ \E asked \in Asked : Authority(a, asked) = {}
  /\ End(a)
  /\ UNCHANGED <<shared, history>>

\* An existing manifest is kept if it is the rendering and refused otherwise;
\* a grant that generated one before does not bring it back.
InspectManifest(a) ==
  LET there == file["manifest"] IN
  /\ pc[a] = "inspect" /\ job[a].cmd = "generate"
  /\ IF there = job[a].text \/ (there = None /\ ~job[a].spent)
       THEN /\ Goto(a, IF there = None THEN "write" ELSE "verify")
            /\ job' = [job EXCEPT ![a].source = there]
            /\ UNCHANGED <<shared, holder, history>>
       ELSE Refuse(a)

InspectRoot(a) ==
  /\ pc[a] = "inspect" /\ job[a].cmd = "cargo"
  /\ IF file["root"] \in Settings
       THEN /\ Goto(a, "recheck")
            /\ job' = [job EXCEPT ![a].source = file["root"]]
            /\ UNCHANGED <<shared, holder, history>>
       ELSE Refuse(a)

\* _candidate_manifest: a first pin needs no event, a changed one the event of
\* the pin it changes; a pin that was removed has drifted.
Repins(source, prior, pin) ==
  \/ source = pin
  \/ source \in Pins /\ prior = source
  \/ source = Bare /\ prior = None

\* The other manifests and Cargo.lock are remembered; cargo metadata, which may
\* fail, may rewrite Cargo.lock, and a refusal puts it back.
InspectCrate(a) ==
  /\ pc[a] = "inspect" /\ job[a].cmd = "crate"
  /\ \/ /\ Repins(job[a].source, job[a].prior, job[a].text)
        /\ \E text \in LockTexts : file' = [file EXCEPT !["lock"] = text]
        /\ Goto(a, "recheck")
        /\ job' = [job EXCEPT ![a] = [@ EXCEPT !.root = file["root"], !.kept = file["lock"]]]
        /\ UNCHANGED <<ledger, clock, declared, holder, history>>
     \/ End(a) /\ UNCHANGED <<shared, history>>

-----------------------------------------------------------------------------
(* The locked writers: the write, its validation and its event.            *)

\* Mutant: the manifest is not compared with what was read.
RecheckTrusting(a) ==
  /\ pc[a] = "recheck"
  /\ IF job[a].text = job[a].source \/ ~job[a].spent
       THEN /\ Goto(a, IF job[a].text = job[a].source THEN "validate" ELSE "write")
            /\ UNCHANGED <<shared, holder, job, history>>
       ELSE Refuse(a)

\* Nothing changed since the manifest was read, and a one-shot grant has
\* changed nothing yet.
Recheck(a) ==
  /\ pc[a] = "recheck"
  /\ IF /\ file[Path(a)] = job[a].source
        /\ job[a].text = job[a].source \/ ~job[a].spent
       THEN /\ Goto(a, IF job[a].text = job[a].source THEN "validate" ELSE "write")
            /\ UNCHANGED <<shared, holder, job, history>>
       ELSE Refuse(a)

Write(a) ==
  /\ pc[a] = "write"
  /\ file' = [file EXCEPT ![Path(a)] = job[a].text]
  /\ used' = used \cup {Use(a)}
  /\ job' = [job EXCEPT ![a].wrote = TRUE]
  /\ Goto(a, IF job[a].cmd = "generate" THEN "verify" ELSE "validate")
  /\ UNCHANGED <<ledger, clock, declared, holder, issued, lost>>

\* write_atomically raises with the destination untouched; or, when it is
\* os.chmod that raises, with the destination replaced and nobody the wiser.
WriteFails(a) ==
  /\ pc[a] = "write" /\ "write" \in FailPoints
  /\ \/ Refuse(a)
     \/ /\ "chmod" \in FailPoints
        /\ file' = [Unlocked(a) EXCEPT ![Path(a)] = job[a].text]
        /\ used' = used \cup {Use(a)} /\ lost' = lost \cup {Use(a)}
        /\ End(a)
        /\ UNCHANGED <<ledger, clock, declared, issued>>

\* Bytes that are not the rendering are unlinked if this process created the
\* file, whoever wrote them.
Verify(a) ==
  /\ pc[a] = "verify"
  /\ IF file["manifest"] = job[a].text
       THEN Goto(a, "audit") /\ UNCHANGED <<shared, holder, job, history>>
       ELSE /\ file' = [file EXCEPT !["manifest"] = IF job[a].wrote THEN None ELSE @]
            /\ Abandon(a, file')
            /\ UNCHANGED <<ledger, clock, declared>>

\* Reading the target raises: before the write nothing is done yet; the
\* generator unlinks what it created, and configure-cargo-profile restores.
ReadFails(a) ==
  /\ pc[a] \in {"inspect", "recheck", "verify", "final"} \cap FailPoints
  /\ CASE pc[a] = "inspect" -> job[a].cmd # "crate" /\ Refuse(a)
       [] pc[a] = "recheck" -> Refuse(a)
       [] pc[a] = "verify"  -> /\ file' = [file EXCEPT !["manifest"] = IF job[a].wrote THEN None ELSE @]
                               /\ Abandon(a, file')
                               /\ UNCHANGED <<ledger, clock, declared>>
       [] pc[a] = "final"   -> /\ Goto(a, "restore")
                               /\ UNCHANGED <<shared, holder, job, history>>

\* cargo metadata on the new root manifest.
ValidateRoot(a) ==
  /\ pc[a] = "validate" /\ job[a].cmd = "cargo"
  /\ Goto(a, "final") \/ Goto(a, "restore")
  /\ UNCHANGED <<shared, holder, job, history>>

\* cargo metadata, check, verus verify and build, test: they may fail, and may
\* rewrite Cargo.lock.
ValidateCrate(a) ==
  /\ pc[a] = "validate" /\ job[a].cmd = "crate"
  /\ \E text \in LockTexts, failed \in BOOLEAN :
       /\ file' = [file EXCEPT !["lock"] = text]
       /\ job' = [job EXCEPT ![a].failed = failed]
  /\ Goto(a, "relock")
  /\ UNCHANGED <<ledger, clock, declared, holder, history>>

\* The root manifest as validated is the merged one.
Final(a) ==
  /\ pc[a] = "final"
  /\ IF file["root"] = job[a].text
       THEN Goto(a, "audit") /\ UNCHANGED <<shared, holder, job, history>>
       ELSE Refuse(a)

\* Cargo.lock goes back, and no manifest but the target may have changed.
Relock(a) ==
  /\ pc[a] = "relock"
  /\ file' = Unlocked(a)
  /\ Goto(a, IF ~job[a].failed /\ file["crate"] = job[a].text /\ file["root"] = job[a].root
               THEN "audit" ELSE "restore")
  /\ UNCHANGED <<ledger, clock, declared, holder, job, history>>

\* The outer handler tries again; raising there it skips the manifest.
RelockFails(a) ==
  /\ pc[a] = "relock" /\ "relock" \in FailPoints
  /\ \/ /\ file' = Unlocked(a)
        /\ Goto(a, "restore")
        /\ UNCHANGED <<ledger, clock, declared, holder, job, history>>
     \/ /\ End(a)
        /\ used' = IF job[a].wrote /\ file["crate"] # job[a].text THEN used \ {Use(a)} ELSE used
        /\ lost' = lost \cup {<<None, "lock">>} \cup
                     (IF job[a].wrote /\ file["crate"] = job[a].text THEN {Use(a)} ELSE {})
        /\ UNCHANGED <<shared, issued>>

\* Mutant: the event holds the content before the change.
EventOfBefore(a) ==
  [event |-> job[a].cmd, grant |-> job[a].grant, text |-> job[a].source,
   result |-> IF job[a].text = job[a].source THEN "unchanged" ELSE "changed"]

EventOf(a) ==
  [event |-> job[a].cmd, grant |-> job[a].grant, text |-> job[a].text,
   result |-> IF job[a].text = job[a].source THEN "unchanged" ELSE "changed"]

Audit(a) ==
  /\ pc[a] = "audit"
  /\ ledger' = Appended(ledger, <<EventOf(a)>>)
  /\ End(a)
  /\ UNCHANGED <<file, clock, declared, history>>

\* Mutant: the file is left as it was written.
AuditFailsKeeping(a) ==
  /\ pc[a] = "audit" /\ "audit" \in FailPoints
  /\ ledger' = TruncatedTo(ledger, job[a].mark)
  /\ End(a)
  /\ UNCHANGED <<file, clock, declared, history>>

\* The profile writers truncate the ledger to the size they found; the
\* generator leaves what it wrote of its line, all of it if fsync raises.
AuditFails(a) ==
  /\ pc[a] = "audit" /\ "audit" \in FailPoints
  /\ IF job[a].cmd = "generate"
       THEN ledger' \in {ledger, Appended(ledger, <<EventOf(a)>>)} \cup
              (IF "partial" \in FailPoints THEN {Append(ledger, Fragment)} ELSE {})
       ELSE ledger' = TruncatedTo(ledger, job[a].mark)
  /\ Goto(a, "restore")
  /\ UNCHANGED <<file, clock, declared, holder, job, history>>

\* The old bytes return if the new ones are still there, and Cargo.lock once
\* more.
Restored(a) ==
  IF job[a].wrote /\ file[Path(a)] = job[a].text
    THEN [Unlocked(a) EXCEPT ![Path(a)] = job[a].source] ELSE Unlocked(a)

Restore(a) ==
  /\ pc[a] = "restore"
  /\ file' = Restored(a)
  /\ Abandon(a, file')
  /\ UNCHANGED <<ledger, clock, declared>>

RestoreFails(a) ==
  /\ pc[a] = "restore" /\ "restore" \in FailPoints
  /\ Abandon(a, file)
  /\ UNCHANGED shared

-----------------------------------------------------------------------------
(* scaffold-crate: no lock, no event.                                      *)

ScaffoldStart(a, issue) ==
  /\ pc[a] = "idle" /\ "scaffold" \in Commands
  /\ Goto(a, "grant")
  /\ job' = [job EXCEPT ![a] = [NoJob EXCEPT !.issue = issue, !.declared = declared]]
  /\ UNCHANGED <<shared, holder, history>>

\* Any active grant over the manifest, a pattern included, but the one asked for
\* if one is; lines that do not parse are passed over.
ScaffoldGrant(a) ==
  LET lines == CoveringLines(ledger, "crate", job[a].issue, job[a].declared, clock) IN
  /\ pc[a] = "grant"
  /\ \/ /\ Goto(a, "look")
        /\ \E k \in lines :
             /\ IsLast(k, lines)
             /\ job' = [job EXCEPT ![a] = [@ EXCEPT !.grant = ledger[k], !.at = clock]]
        /\ UNCHANGED holder
     \/ /\ \E asked \in Asked : ~\E k \in lines : IsLast(k, lines) /\ asked \in {None, ledger[k]}
        /\ End(a)
  /\ UNCHANGED <<shared, history>>

\* A manifest with other content is refused, and src/lib.rs kept if there is one.
ScaffoldLook(a) ==
  /\ pc[a] = "look"
  /\ IF file["crate"] \in {None, Bare}
       THEN /\ Goto(a, IF file["crate"] = None THEN "put" ELSE "skeleton")
            /\ job' = [job EXCEPT ![a].kept = file["source"]]
            /\ UNCHANGED holder
       ELSE End(a)
  /\ UNCHANGED <<shared, history>>

ScaffoldPut(a) ==
  /\ pc[a] = "put"
  /\ file' = [file EXCEPT !["crate"] = Bare]
  /\ Goto(a, "skeleton")
  /\ UNCHANGED <<ledger, clock, declared, holder, job, history>>

ScaffoldSkeleton(a) ==
  /\ pc[a] = "skeleton"
  /\ file' = IF job[a].kept = None THEN [file EXCEPT !["source"] = Skeleton] ELSE file
  /\ End(a)
  /\ UNCHANGED <<ledger, clock, declared, history>>

ScaffoldFails(a) ==
  /\ pc[a] \in {"put", "skeleton"} \cap FailPoints
  /\ End(a)
  /\ UNCHANGED <<shared, history>>

-----------------------------------------------------------------------------

\* The process dies between two operations; the kernel drops its lock.
Crash(a) ==
  /\ pc[a] \in CrashPoints
  /\ \/ UNCHANGED ledger
     \/ /\ pc[a] \in {"record", "audit"} /\ "partial" \in CrashPoints
        /\ ledger' = Append(ledger, Fragment)
  /\ IF job[a].cmd \in Locked
       THEN LET stands == job[a].wrote /\ file[Path(a)] = job[a].text
                drifted == /\ job[a].cmd = "crate" /\ pc[a] \in HeldSteps \ {"judge", "inspect"}
                           /\ file["lock"] # job[a].kept IN
            /\ used' = IF job[a].wrote /\ ~stands THEN used \ {Use(a)} ELSE used
            /\ lost' = lost \cup (IF stands THEN {Use(a)} ELSE {})
                            \cup (IF drifted THEN {<<None, "lock">>} ELSE {})
       ELSE UNCHANGED <<used, lost>>
  /\ End(a)
  /\ UNCHANGED <<file, clock, declared, issued>>

Authorize(a) ==
  \/ \E request \in Requests, moment \in 0..MaxClock : AuthorizeRead(a, request, moment)
  \/ AuthorizeAppend(a)
  \/ AuthorizeFails(a)

LockedStep(a) ==
  \/ Acquire(a)
  \/ JudgeGrants(a) \/ JudgeRefuses(a)
  \/ InspectManifest(a) \/ InspectRoot(a) \/ InspectCrate(a)
  \/ Recheck(a)
  \/ Write(a) \/ WriteFails(a)
  \/ Verify(a) \/ ReadFails(a)
  \/ ValidateRoot(a) \/ ValidateCrate(a)
  \/ Final(a)
  \/ Relock(a) \/ RelockFails(a)
  \/ Audit(a) \/ AuditFails(a)
  \/ Restore(a) \/ RestoreFails(a)

Scaffold(a) ==
  \/ \E issue \in Issues : ScaffoldStart(a, issue)
  \/ ScaffoldGrant(a)
  \/ ScaffoldLook(a)
  \/ ScaffoldPut(a) \/ ScaffoldSkeleton(a) \/ ScaffoldFails(a)

Next ==
  \/ Tick
  \/ \E edit \in Editable : HandEdit(edit[1], edit[2])
  \/ \E whitelist \in Declarable : EditDescriptor(whitelist)
  \/ \E a \in Actors :
       \/ Authorize(a)
       \/ \E cmd \in Commands, issue \in Issues, text \in Texts : Begin(a, cmd, issue, text)
       \/ LockedStep(a)
       \/ Scaffold(a)
       \/ Crash(a)

Spec == Init /\ [][Next]_vars

\* The operating system runs a process that can run, and flock grants the lock
\* to every process that keeps waiting for it.
Fairness ==
  \A a \in Actors :
    /\ WF_vars(LockedStep(a))
    /\ SF_vars(Acquire(a))

FairSpec == Spec /\ Fairness

-----------------------------------------------------------------------------
(* Properties.                                                             *)

Job == [cmd : Locked \cup {None}, issue : Issues \cup {None},
        declared : SUBSET Supervisors, grant : Grant \cup {None}, at : Nat,
        source : Texts, text : Texts, wrote : BOOLEAN, mark : Nat,
        prior : Texts, spent : BOOLEAN, root : Texts, kept : Texts, failed : BOOLEAN]

\* The recorded grants are grants, the events are those of the locked writers,
\* every process is at a step of its command.
TypeOK ==
  /\ ledger \in Seq(Line)
  /\ file \in [Files -> Texts]
  /\ clock \in Nat
  /\ declared \in SUBSET Supervisors
  /\ holder \in Actors \cup {None}
  /\ pc \in [Actors -> Steps \cup {"idle"}]
  /\ job \in [Actors -> Job]
  /\ issued \subseteq Grant

AtRest == \A a \in Actors : pc[a] = "idle"

\* A protected file changes, by a command, only under a recorded write grant
\* that names it, of the command's issue, that was live when the command looked.
ChangedUnderGrant ==
  [][\A f \in Protected : file'[f] # file[f] /\ pc' # pc =>
       \E a \in Actors :
         LET g == job[a].grant IN
         /\ pc'[a] # pc[a]
         /\ g \in issued /\ Covers(g, f)
         /\ g.request.issue = job[a].issue
         /\ g.issuedAt <= job[a].at /\ job[a].at < g.issuedAt + g.request.ttl]_vars

\* A one-shot grant changes its file once, and a grant generates its manifest
\* once, unless the event of the first change is lost with the process that
\* was to write it.
ChangedOnce ==
  [][\A a \in Actors :
       /\ pc[a] = "write" /\ file' # file /\ file'[Path(a)] = job[a].text
       /\ job[a].cmd = "generate" \/ job[a].grant.request.oneShot
       => Use(a) \notin used \ lost]_vars

\* What a locked writer changed and did not take back has its event, at the
\* latest when the writer is done; and Cargo.lock, which no event is about, is
\* what it was whenever no configure-crate runs.
ChangesAudited ==
  /\ AtRest => \A use \in used \ lost :
       \E k \in DOMAIN ledger :
         /\ ledger[k] \notin {Fragment, Damaged} \cup issued
         /\ <<ledger[k].grant, Target[ledger[k].event]>> = use
  /\ (\A a \in Actors : job[a].cmd # "crate") =>
       file["lock"] = Initial["lock"] \/ <<None, "lock">> \in lost

\* An event stands behind the grant it names: no rollback takes a grant away
\* from under the event of a change it licensed.
EventsGrounded ==
  \A k \in DOMAIN ledger : ledger[k] \in Event =>
    \E l \in 1..(k - 1) : ledger[l] = ledger[k].grant

\* As long as the ledger parses, it holds every grant that was reported as
\* recorded.
GrantsKept == Readable(ledger) => issued \subseteq Recorded(ledger)

\* The pin in a crate manifest is the pin of the last event, which is what a
\* later repin has to rest on.
PinRecorded ==
  AtRest /\ file["crate"] \in Pins =>
    \/ file["crate"] = LastPin
    \/ \E use \in lost : use[2] = "crate"

\* A locked writer replaces the content it read, not one another writer left
\* since; only the manifest of a scaffold-crate can come in between.
ReplacesWhatItRead ==
  [][\A a \in Actors : pc[a] = "write" /\ file'[Path(a)] # file[Path(a)] =>
       \/ file[Path(a)] = job[a].source
       \/ job[a].cmd = "crate" /\ file["crate"] = Bare]_vars

\* A writer that waits for the lock gets it and ends.
Served == \A a \in Actors : pc[a] = "acquire" ~> pc[a] = "idle"
=============================================================================

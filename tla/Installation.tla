---------------------------- MODULE Installation ----------------------------
(***************************************************************************)
(* What `ligature init`, `migrate` and `accept-policy` do to a workspace,  *)
(* one file operation at a time, and what `doctor` says of the result      *)
(* (ligature_install.py).  A file is identified with its contents, so a    *)
(* recorded hash is the contents it was taken of.  Every command snapshots *)
(* the executable that runs it: executables are swapped between commands.  *)
(***************************************************************************)
EXTENDS Integers, Sequences

CONSTANTS
  Actors,      \* CLI processes
  None,        \* no file, no record, no hash
  Managed,     \* product-owned paths
  Owned,       \* paths whose template belongs to the project once installed
  Normative,   \* the owned paths that are reviewed policy documents
  Skill,       \* the managed path with an authority region
  Pinned,      \* the managed paths of gate_integrity
  Order,       \* the paths in the order of file_registry
  Versions,    \* builds of the product
  Rendered,    \* [Versions -> [Paths -> text]], None for a path not installed
  Identity,    \* [Versions -> content hash], None for a source checkout
  Region,      \* [texts -> authority region]
  Declared,    \* [texts -> the authority hash a skill text declares]
  Stamp,       \* [texts -> the text `--version` makes of it], None if refused
  Stamped,     \* texts with exactly one well-formed `Policy version:` line
  HandTexts,   \* [Paths -> texts people write there]
  Hand,        \* the writer of such a text
  ForceLists,  \* sequences of paths given to --force
  EditSteps,   \* steps of a running command during which people write files
  StopSteps    \* steps at which a command may fail or die

Paths == Managed \cup Owned

Texts == {Rendered[v][p] : v \in Versions, p \in Paths}
           \cup UNION {HandTexts[p] : p \in Paths}
           \cup {Stamp[t] : t \in DOMAIN Stamp} \cup {None}

ASSUME InstallationAssumption ==
  /\ Managed \cap Owned = {} /\ Normative \subseteq Owned
  /\ Skill \in Managed /\ Pinned \subseteq Managed
  /\ \A p \in Paths : \E i \in DOMAIN Order : Order[i] = p
  /\ \A v \in Versions, p \in {Skill} \cup Pinned \cup Normative : Rendered[v][p] # None
  /\ \A v \in Versions : Region[Rendered[v][Skill]] # None
  /\ None \notin Stamped
  /\ Hand \notin Versions

VARIABLES
  disk,      \* [Paths -> text]
  manifest,  \* ci/manifest/installation.json
  running,   \* the build on the PATH
  cmd,       \* the command of each process
  author,    \* history: who wrote the bytes of each managed path
  torn       \* history: managed paths written, and recorded by no command since

history == <<author, torn>>
vars == <<disk, manifest, running, cmd, author, torn>>

Idle == [step |-> "idle"]

\* No installation: nothing is recorded.
NoManifest == [files |-> <<>>, gates |-> <<>>, pin |-> None, product |-> None, skill |-> None]

-----------------------------------------------------------------------------
(* Reading the workspace.                                                  *)

Registry(v) == {p \in Paths : Rendered[v][p] # None}

AuthorityHash(v, p) == IF p = Skill THEN Region[Rendered[v][p]] ELSE None

Records(m) == DOMAIN m.files
Base(m, p) == IF p \in Records(m) THEN m.files[p].base ELSE None

\* A managed path a manifest records and the running build does not install.
Obsolete(m, v) == (Records(m) \cap Managed) \ Registry(v)

ManagedOutcome(absent, base, p, v) ==
  CASE disk[p] = None -> absent
    [] disk[p] = Rendered[v][p] -> "unchanged"
    [] disk[p] # Rendered[v][p] /\ disk[p] # None /\ base # None /\ disk[p] = base -> "upgrade"
    [] OTHER -> "conflict"

OwnedOutcome(absent, base, p) ==
  CASE disk[p] = None -> absent
    [] disk[p] # None /\ p \in Normative /\ base # None /\ disk[p] # base -> "drifted"
    [] OTHER -> "user-owned"

\* Mutant: the merge base is forgotten.
OutcomeNoBase(absent, m, p, v) ==
  IF p \in Owned THEN OwnedOutcome(absent, Base(m, p), p)
  ELSE IF disk[p] = None THEN absent
  ELSE IF disk[p] = Rendered[v][p] THEN "unchanged" ELSE "upgrade"

Outcome(absent, m, p, v) ==
  IF p \in Owned THEN OwnedOutcome(absent, Base(m, p), p)
                 ELSE ManagedOutcome(absent, Base(m, p), p, v)

Plan(m, v) ==
  [p \in Registry(v) |->
     LET o == Outcome("create", m, p, v)
         w == IF o \in {"create", "upgrade"} THEN Rendered[v][p] ELSE None
     IN  [outcome |-> o,
          content |-> w,
          base |-> IF p \in Managed \/ Base(m, p) # None THEN Base(m, p)
                   ELSE IF w # None THEN w ELSE disk[p]]]

\* What the plan writes.
Writes(plan) == {p \in DOMAIN plan : plan[p].content # None}

\* The path of S that comes first in the registry.
Position(p) == CHOOSE i \in DOMAIN Order : Order[i] = p
First(S, p) == p \in S /\ \A q \in S : Position(p) <= Position(q)

AuthorityVerdict(m, v) ==
  LET recorded == IF Skill \in Records(m) THEN m.files[Skill].authority ELSE None
      current == Region[disk[Skill]]
  IN  IF disk[Skill] = None THEN "missing"
      ELSE IF \/ Outcome("missing", m, Skill, v) = "conflict"
              \/ current = None
              \/ recorded # None /\ recorded # current
              \/ recorded = None /\ Declared[disk[Skill]] # current
           THEN "drifted" ELSE "verified"

OverallStatus(m, v) ==
  LET is(p, o) == Outcome("missing", m, p, v) = o
      mine == Managed \cap Registry(v)
  IN  IF (\E p \in mine : is(p, "conflict")) \/ AuthorityVerdict(m, v) = "drifted"
      THEN "conflict"
      ELSE IF \/ \E p \in mine : is(p, "missing")
              \/ \E p \in Normative \cap Registry(v) : is(p, "missing") \/ is(p, "drifted")
      THEN "drifted"
      ELSE IF \E p \in mine : is(p, "upgrade") THEN "upgradable" ELSE "current"

PinState(m, v) ==
  CASE m = NoManifest -> "not-installed"
    [] m # NoManifest /\ m.pin = None ->
         IF Identity[v] = None /\ m.product = v THEN "pinned" ELSE "unattested"
    [] m # NoManifest /\ m.pin # None /\ Identity[v] = None -> "unattested"
    [] OTHER -> IF m.pin = Identity[v] THEN "pinned" ELSE "mismatch"

\* A normative document on which no promotion receipt can rest.
Unfilled == {p \in Normative : disk[p] # None /\ disk[p] \notin Stamped}

\* doctor exits 0, the executable being attested and the descriptor valid.
Healthy(m, v) ==
  /\ m # NoManifest
  /\ PinState(m, v) = "pinned"
  /\ OverallStatus(m, v) \notin {"conflict", "drifted"}
  /\ Unfilled = {}

-----------------------------------------------------------------------------
(* init and migrate.                                                       *)

Begin(a, c) ==
  /\ cmd[a] = Idle
  /\ cmd' = [cmd EXCEPT ![a] = c]
  /\ UNCHANGED <<disk, manifest, running, history>>

\* Another build than the one pinned: nothing is upgraded.
Refused(v) == manifest # NoManifest /\ manifest.pin # Identity[v]

Frozen(plan, refused) ==
  [p \in DOMAIN plan |->
     IF refused /\ plan[p].outcome = "upgrade" THEN [plan[p] EXCEPT !.content = None] ELSE plan[p]]

Init_(a) ==
  LET v == running
      plan == Frozen(Plan(manifest, v), Refused(v))
  IN  Begin(a, [step |-> "apply", kind |-> "init", ver |-> v, read |-> manifest,
                frozen |-> Refused(v), plan |-> plan, obsolete |-> Obsolete(manifest, v),
                todo |-> Writes(plan), force |-> <<>>, prune |-> FALSE])

\* --upgrade writes its plan and --force its paths before the manifest is
\* looked at again; --prune alone goes straight to the obsolete files.
Migrate(a, upgrade, force, prune) ==
  /\ manifest # NoManifest
  /\ upgrade \/ force # <<>> \/ prune
  /\ Begin(a, [step |-> IF upgrade \/ force # <<>> THEN "stage" ELSE "scan",
               kind |-> "migrate", ver |-> running, read |-> manifest, frozen |-> FALSE,
               plan |-> <<>>, obsolete |-> {},
               todo |-> IF upgrade THEN Writes(Plan(manifest, running)) ELSE {},
               force |-> force, prune |-> prune])

Put(p, t, who) ==
  /\ disk' = [disk EXCEPT ![p] = t]
  /\ author' = [q \in Managed |-> IF q = p THEN who ELSE author[q]]

\* One atomic write of what a plan holds, in the order of the registry.
Write(a) ==
  LET c == cmd[a] IN
  /\ c.step \in {"stage", "apply"}
  /\ \E p \in c.todo :
       /\ First(c.todo, p)
       /\ Put(p, Rendered[c.ver][p], c.ver)
       /\ torn' = torn \cup ({p} \cap Managed)
       /\ cmd' = [cmd EXCEPT ![a].todo = @ \ {p}]
  /\ UNCHANGED <<manifest, running>>

\* The next path --force names, whatever it holds.
Forcing(a) == cmd[a].step = "stage" /\ cmd[a].todo = {} /\ cmd[a].force # <<>>
Forceable(a) == Head(cmd[a].force) \in Managed \cap Registry(cmd[a].ver)

WriteForced(a) ==
  LET c == cmd[a] p == Head(c.force) IN
  /\ Forcing(a) /\ Forceable(a)
  /\ Put(p, Rendered[c.ver][p], c.ver)
  /\ torn' = torn \cup {p}
  /\ cmd' = [cmd EXCEPT ![a].force = Tail(@)]
  /\ UNCHANGED <<manifest, running>>

\* --force names something else: what was written stays, unrecorded.
ForceRefused(a) ==
  /\ Forcing(a) /\ ~Forceable(a)
  /\ cmd' = [cmd EXCEPT ![a] = Idle]
  /\ UNCHANGED <<disk, manifest, running, history>>

\* migrate plans again over what it wrote, every upgrade included.
Replan(a) ==
  LET c == cmd[a] plan == Plan(manifest, c.ver) IN
  /\ c.step = "stage" /\ c.todo = {} /\ c.force = <<>>
  /\ cmd' = [cmd EXCEPT ![a].step = "apply", ![a].plan = plan,
                        ![a].obsolete = Obsolete(manifest, c.ver), ![a].todo = Writes(plan)]
  /\ UNCHANGED <<disk, manifest, running, history>>

\* Mutant: a conflicting file is recorded as it is.
BaseAdopted(plan, p) ==
  IF p \in Normative /\ plan[p].base # None THEN plan[p].base ELSE disk[p]

\* Mutant: a policy document is re-based to what is on disk.
BaseRebased(plan, p) == IF plan[p].outcome = "conflict" THEN plan[p].base ELSE disk[p]

\* Mutant: the base is the one that was planned with.
BaseStale(plan, p) == plan[p].base

NewBase(plan, p) ==
  IF plan[p].outcome = "conflict" \/ (p \in Normative /\ plan[p].base # None)
  THEN plan[p].base ELSE disk[p]

\* Mutant: the authority hash of the record it replaces is kept.
FilesAuthorityKept(c) ==
  [p \in DOMAIN c.plan \cup c.obsolete |->
     IF p \in c.obsolete THEN [base |-> Base(c.read, p), authority |-> None]
     ELSE [base |-> NewBase(c.plan, p),
           authority |-> IF p \in Records(c.read) THEN c.read.files[p].authority
                         ELSE AuthorityHash(c.ver, p)]]

NewFiles(c) ==
  [p \in DOMAIN c.plan \cup c.obsolete |->
     IF p \in c.obsolete THEN [base |-> Base(c.read, p), authority |-> None]
     ELSE [base |-> NewBase(c.plan, p), authority |-> AuthorityHash(c.ver, p)]]

\* The pin of a conflicting file survives, if it had one.
NewGates(c) ==
  LET fresh(p) == (p \notin DOMAIN c.plan \/ c.plan[p].outcome # "conflict")
      kept(p) == ~fresh(p) /\ p \in DOMAIN c.read.gates
  IN  [p \in {q \in Pinned : (fresh(q) /\ disk[q] # None) \/ kept(q)} |->
         IF kept(p) THEN c.read.gates[p] ELSE disk[p]]

NewManifest(c) ==
  [files |-> NewFiles(c),
   gates |-> NewGates(c),
   pin |-> IF c.frozen THEN c.read.pin ELSE Identity[c.ver],
   product |-> IF c.frozen THEN c.read.product ELSE c.ver,
   skill |-> c.ver]

\* Hash what is there now, and write the manifest.
Record(a) ==
  LET c == cmd[a] IN
  /\ c.step = "apply" /\ c.todo = {}
  /\ manifest' = NewManifest(c)
  /\ torn' = {p \in torn : p \in DOMAIN c.plan => c.plan[p].outcome = "conflict"}
  /\ cmd' = [cmd EXCEPT ![a] = IF c.prune THEN [c EXCEPT !.step = "scan"] ELSE Idle]
  /\ UNCHANGED <<disk, running, author>>

\* --prune loads the manifest again.
Scan(a) ==
  LET c == cmd[a] IN
  /\ c.step = "scan"
  /\ cmd' = [cmd EXCEPT ![a] = [c EXCEPT !.step = "prune", !.read = manifest, !.plan = <<>>,
                                 !.obsolete = {}, !.todo = Obsolete(manifest, c.ver)]]
  /\ UNCHANGED <<disk, manifest, running, history>>

\* A file whose record has no base is removed whatever it holds.
Prunable(p, base) == base = None \/ disk[p] = base \/ disk[p] = None

\* Remove one obsolete file and forget it; an edited one stays, recorded.
PruneFile(a) ==
  LET c == cmd[a] IN
  /\ c.step = "prune"
  /\ \E p \in c.todo :
       LET go == Prunable(p, Base(c.read, p)) IN
       /\ First(c.todo, p)
       /\ IF go /\ disk[p] # None THEN Put(p, None, c.ver) ELSE UNCHANGED <<disk, author>>
       /\ cmd' = [cmd EXCEPT ![a].todo = @ \ {p},
                             ![a].obsolete = IF go THEN @ \cup {p} ELSE @]
  /\ UNCHANGED <<manifest, running, torn>>

PruneRecord(a) ==
  LET c == cmd[a] IN
  /\ c.step = "prune" /\ c.todo = {}
  /\ manifest' = [c.read EXCEPT !.files = [p \in DOMAIN @ \ c.obsolete |-> @[p]]]
  /\ cmd' = [cmd EXCEPT ![a] = Idle]
  /\ UNCHANGED <<disk, running, history>>

-----------------------------------------------------------------------------
(* accept-policy.                                                          *)

Acceptable(t) == t \in Stamped

\* The document is read once, and stamped in memory.
Accept(a, p, stamp) ==
  LET t == IF stamp THEN Stamp[disk[p]] ELSE disk[p] IN
  /\ p \in Records(manifest) /\ p \in Registry(running)
  /\ disk[p] # None /\ t # None
  /\ (stamp /\ t # disk[p]) \/ Acceptable(t)
  /\ Begin(a, [step |-> IF t = disk[p] THEN "accept" ELSE "stamp", kind |-> "accept",
               ver |-> running, read |-> manifest, path |-> p, text |-> t])

AcceptStamp(a) ==
  LET c == cmd[a] IN
  /\ c.step = "stamp"
  /\ Put(c.path, c.text, Hand)
  /\ cmd' = [cmd EXCEPT ![a] = IF Acceptable(c.text) THEN [c EXCEPT !.step = "accept"] ELSE Idle]
  /\ UNCHANGED <<manifest, running, torn>>

\* The document is hashed anew, whatever was read of it before.
AcceptRecord(a) ==
  LET c == cmd[a] IN
  /\ c.step = "accept" /\ disk[c.path] # None
  /\ manifest' = [c.read EXCEPT !.files[c.path].base = disk[c.path]]
  /\ cmd' = [cmd EXCEPT ![a] = Idle]
  /\ UNCHANGED <<disk, running, history>>

-----------------------------------------------------------------------------
(* The surroundings, and the specification.                                *)

\* An operation raises, or the process dies: every write is atomic.
Stop(a) ==
  /\ cmd[a].step \in StopSteps
  /\ cmd' = [cmd EXCEPT ![a] = Idle]
  /\ UNCHANGED <<disk, manifest, running, history>>

Swap(v) ==
  /\ v # running
  /\ running' = v
  /\ UNCHANGED <<disk, manifest, cmd, history>>

Editable == \A a \in Actors : cmd[a].step \in EditSteps \cup {"idle"}

HandEdit(p, t) ==
  /\ Editable
  /\ t # disk[p]
  /\ Put(p, t, Hand)
  /\ UNCHANGED <<manifest, running, cmd, torn>>

Init ==
  /\ disk \in [Paths -> Texts]
  /\ \A p \in Paths : disk[p] \in HandTexts[p] \cup {None}
  /\ manifest = NoManifest
  /\ running \in Versions
  /\ cmd = [a \in Actors |-> Idle]
  /\ author = [p \in Managed |-> Hand]
  /\ torn = {}

Step(a) ==
  \/ Init_(a)
  \/ \E u, d \in BOOLEAN, f \in ForceLists : Migrate(a, u, f, d)
  \/ Write(a) \/ WriteForced(a) \/ ForceRefused(a) \/ Replan(a) \/ Record(a)
  \/ Scan(a) \/ PruneFile(a) \/ PruneRecord(a)
  \/ \E p \in Normative, s \in BOOLEAN : Accept(a, p, s)
  \/ AcceptStamp(a) \/ AcceptRecord(a)
  \/ Stop(a)

Next ==
  \/ \E a \in Actors : Step(a)
  \/ \E v \in Versions : Swap(v)
  \/ \E p \in Paths : \E t \in HandTexts[p] \cup {None} : HandEdit(p, t)

Spec == Init /\ [][Next]_vars

-----------------------------------------------------------------------------
(* Properties.                                                             *)

Quiet == \A a \in Actors : cmd[a] = Idle

ProductTexts(p) == {Rendered[v][p] : v \in Versions} \ {None}

\* The merge base and the gate pin of a managed file are texts the product
\* rendered for it: bytes somebody else wrote never become what the next
\* upgrade may replace, nor a trusted pin (apply_plan keeps both of a conflict).
BasesAreRendered ==
  \A p \in Managed :
    /\ p \in DOMAIN manifest.files => manifest.files[p].base \in ProductTexts(p) \cup {None}
    /\ p \in DOMAIN manifest.gates => manifest.gates[p] \in ProductTexts(p)

\* "A locally modified managed file is a `conflict`, never silently
\* overwritten": a command replaces or removes bytes the product never
\* rendered only where --force names the file, over any sequence of builds and
\* failures; --prune removes a retired one whose record has no base.
EditsKept ==
  [][\A p \in Managed :
       disk[p] \notin ProductTexts(p) \cup {None} /\ disk'[p] # disk[p]
         => \/ author'[p] = Hand
            \/ \E a \in Actors :
                 \/ Forcing(a) /\ Head(cmd[a].force) = p
                 \/ cmd[a].step = "prune" /\ Base(cmd[a].read, p) = None /\ disk'[p] = None]_vars

\* Between commands a managed file is in conflict only if somebody edited
\* it, or a command stopped between writing it and recording it.
ConflictMeansEdited ==
  Quiet /\ manifest # NoManifest =>
    \A p \in Managed \cap Registry(running) :
      Outcome("missing", manifest, p, running) = "conflict" => author[p] = Hand \/ p \in torn

\* The base of a policy document moves, once recorded, only to the reviewed
\* bytes on disk, whose version line is well-formed (accept_policy), never
\* by init or migrate.
PolicyMovesByAcceptance ==
  [][\A p \in Normative :
       LET was == Base(manifest, p) is == Base(manifest', p) IN
       was # None /\ is # was =>
         /\ is = disk[p] /\ is \in Stamped
         /\ \E a \in Actors : cmd[a].step = "accept"]_vars

\* Where nobody's edit and no interrupted write stands, the policy is
\* reviewed and its version stamped, a `migrate --upgrade` that ends leaves
\* a workspace doctor calls healthy: plan_install, apply_plan and inspect,
\* which classify files each on their own, agree.
UpgradeEndsHealthy ==
  [][\A a \in Actors :
       /\ cmd[a] # Idle /\ cmd'[a] = Idle /\ manifest' # manifest
       /\ cmd[a].kind = "migrate" /\ cmd[a].step = "apply"
       /\ cmd[a].ver = running /\ Identity[running] # None
       /\ \A p \in Managed \cap Registry(running) : author[p] # Hand /\ p \notin torn'
       /\ \A p \in Normative : disk[p] = Base(manifest', p) /\ disk[p] \in Stamped
       => Healthy(manifest', running)]_vars

=============================================================================

-------------------------- MODULE InstallationProofs --------------------------
(***************************************************************************)
(* For any builds, paths and sequences of commands, any number of them at    *)
(* once, stopping anywhere: as long as nobody edits files while an init or   *)
(* migrate is between its plan and its record, an edited managed file is     *)
(* replaced only where --force or a record without a base allows it, and a   *)
(* merge base is never bytes that somebody else wrote.                       *)
(*                                                                          *)
(* The two need each other.  An upgrade replaces a file that equals its      *)
(* merge base; were the base not a rendered text, that could be an edit.     *)
(* And a base is the hash of what is on disk when the command records it,    *)
(* long after the file was classified.  So the invariant follows a file the  *)
(* plan does not call a conflict from the plan to the record.                *)
(*                                                                          *)
(* What holds of one command at a time comes last: a conflict is an edit or  *)
(* an interrupted write, a policy moves by its acceptance, and an upgrade    *)
(* that ends leaves what doctor calls healthy.                               *)
(***************************************************************************)
EXTENDS Installation, TLAPS

\* A file as the product left it: removed, or with a text it rendered.
Own(p) == ProductTexts(p) \cup {None}

\* The bases and pins of a manifest.
Based(m) ==
  /\ DOMAIN m = {"files", "gates", "pin", "product", "skill"}
  /\ \A p \in Managed :
       /\ p \in DOMAIN m.files => m.files[p].base \in Own(p)
       /\ p \in DOMAIN m.gates => m.gates[p] \in ProductTexts(p)

\* A command that runs: init or migrate, or accept-policy.
IsRun(c) ==
  /\ DOMAIN c = {"step", "kind", "ver", "read", "frozen", "plan", "obsolete", "todo", "force",
                 "prune"}
  /\ c.step \in {"stage", "apply", "scan", "prune"}
IsAccept(c) ==
  /\ DOMAIN c = {"step", "kind", "ver", "read", "path", "text"}
  /\ c.step \in {"stamp", "accept"}

\* What a running init or migrate holds, over the files d.
RunInv(c, d) ==
  /\ IsRun(c) /\ c.ver \in Versions
  /\ Based(c.read)
  /\ c.step \in {"stage", "apply"} => \A p \in c.todo \cap Managed : d[p] \in Own(p)
  /\ c.step = "apply" =>
       /\ DOMAIN c.plan = Registry(c.ver)
       /\ \A p \in Managed \cap DOMAIN c.plan :
            /\ c.plan[p].base \in Own(p)
            /\ c.plan[p].outcome # "conflict" => d[p] \in Own(p)

AcceptInv(c) ==
  /\ IsAccept(c) /\ c.path \in Normative
  /\ Based(c.read)

CommandInv(c, d) == c = Idle \/ RunInv(c, d) \/ AcceptInv(c)

IInv ==
  /\ DOMAIN disk = Paths /\ running \in Versions /\ DOMAIN cmd = Actors
  /\ Based(manifest)
  /\ \A a \in Actors : CommandInv(cmd[a], disk)

\* A step leaves each managed file, or makes it the product's.
DiskKept ==
  /\ DOMAIN disk' = Paths
  /\ \A p \in Managed : disk'[p] = disk[p] \/ disk'[p] \in Own(p)

-----------------------------------------------------------------------------
\* A command that another one runs beside holds what it held.
LEMMA OthersHold ==
  ASSUME DiskKept, NEW c, CommandInv(c, disk)
  PROVE  CommandInv(c, disk')
  BY DEF DiskKept, CommandInv, RunInv, AcceptInv

\* A step of one command, all the others being where they were.
LEMMA StepHolds ==
  ASSUME IInv, NEW a \in Actors, NEW c, cmd' = [cmd EXCEPT ![a] = c], running' = running,
         DiskKept, CommandInv(c, disk'), Based(manifest')
  PROVE  IInv'
<1>1. DOMAIN cmd' = Actors /\ cmd'[a] = c /\ \A b \in Actors \ {a} : cmd'[b] = cmd[b]
  BY DEF IInv
<1>2. ASSUME NEW b \in Actors \ {a}
      PROVE  CommandInv(cmd'[b], disk')
  <2>1. CommandInv(cmd[b], disk)
    BY DEF IInv
  <2>2. CommandInv(cmd[b], disk')
    BY <2>1, OthersHold
  <2> QED BY <1>1, <2>2
<1>3. DOMAIN disk' = Paths
  BY DEF DiskKept
<1> QED BY <1>1, <1>2, <1>3 DEF IInv

-----------------------------------------------------------------------------
\* What a plan holds: what is to be written over is the product's own, and so
\* is every file that is not in conflict.
LEMMA PlanHolds ==
  ASSUME IInv, NEW v \in Versions
  PROVE  LET plan == Plan(manifest, v) IN
         /\ DOMAIN plan = Registry(v)
         /\ \A p \in Managed \cap DOMAIN plan :
              /\ plan[p].base \in Own(p)
              /\ plan[p].outcome # "conflict" => disk[p] \in Own(p)
         /\ \A p \in Managed \cap Writes(plan) : disk[p] \in Own(p)
<1> DEFINE plan == Plan(manifest, v)
<1>1. DOMAIN plan = Registry(v)
  BY DEF Plan
<1>2. ASSUME NEW p \in Managed \cap Registry(v)
      PROVE  /\ plan[p].base \in Own(p)
             /\ plan[p].outcome # "conflict" => disk[p] \in Own(p)
             /\ plan[p].content # None => plan[p].outcome # "conflict"
  <2>1. Base(manifest, p) \in Own(p)
    BY DEF IInv, Based, Base, Records, Own
  <2>2. plan[p].base = Base(manifest, p)
    BY DEF Plan
  <2>3. plan[p].outcome = ManagedOutcome("create", Base(manifest, p), p, v)
    BY InstallationAssumption DEF Plan, Outcome
  <2>4. Rendered[v][p] \in Own(p)
    BY DEF Own, ProductTexts
  <2>5. ManagedOutcome("create", Base(manifest, p), p, v) # "conflict" => disk[p] \in Own(p)
    BY <2>1, <2>4 DEF ManagedOutcome, Own
  <2>6. plan[p].content # None => plan[p].outcome # "conflict"
    BY DEF Plan
  <2> QED BY <2>1, <2>2, <2>3, <2>5, <2>6
<1> QED BY <1>1, <1>2 DEF Writes

\* A step of a command that leaves the files and the manifest alone.
LEMMA StillHolds ==
  ASSUME IInv, NEW a \in Actors, NEW c, cmd' = [cmd EXCEPT ![a] = c],
         UNCHANGED <<disk, manifest, running>>, CommandInv(c, disk)
  PROVE  IInv'
<1>1. DiskKept
  BY DEF IInv, DiskKept
<1> QED BY <1>1, StepHolds DEF IInv

LEMMA InitHolds ==
  ASSUME IInv, NEW a \in Actors, Init_(a)
  PROVE  IInv'
<1> DEFINE v == running
           plan == Frozen(Plan(manifest, v), Refused(v))
           c == [step |-> "apply", kind |-> "init", ver |-> v, read |-> manifest,
                 frozen |-> Refused(v), plan |-> plan, obsolete |-> Obsolete(manifest, v),
                 todo |-> Writes(plan), force |-> <<>>, prune |-> FALSE]
<1>1. cmd' = [cmd EXCEPT ![a] = c] /\ UNCHANGED <<disk, manifest, running>>
  BY DEF Init_, Begin, history
<1>2. v \in Versions
  BY DEF IInv
<1>3. /\ DOMAIN plan = DOMAIN Plan(manifest, v)
      /\ \A p \in DOMAIN plan : /\ plan[p].base = Plan(manifest, v)[p].base
                                /\ plan[p].outcome = Plan(manifest, v)[p].outcome
                                /\ plan[p].content \in {None, Plan(manifest, v)[p].content}
  BY DEF Frozen, Plan
<1>4. Writes(plan) \subseteq Writes(Plan(manifest, v))
  BY <1>3 DEF Writes
<1>5. RunInv(c, disk)
  <2> HIDE DEF plan
  <2>1. IsRun(c)
    BY DEF IsRun
  <2> QED BY <1>2, <1>3, <1>4, <2>1, PlanHolds DEF RunInv, IInv
<1> HIDE DEF c
<1> QED BY <1>1, <1>5, StillHolds DEF CommandInv

LEMMA MigrateHolds ==
  ASSUME IInv, NEW a \in Actors, NEW upgrade \in BOOLEAN, NEW force, NEW prune,
         Migrate(a, upgrade, force, prune)
  PROVE  IInv'
<1> DEFINE c == [step |-> IF upgrade \/ force # <<>> THEN "stage" ELSE "scan",
                 kind |-> "migrate", ver |-> running, read |-> manifest, frozen |-> FALSE,
                 plan |-> <<>>, obsolete |-> {},
                 todo |-> IF upgrade THEN Writes(Plan(manifest, running)) ELSE {},
                 force |-> force, prune |-> prune]
<1>1. cmd' = [cmd EXCEPT ![a] = c] /\ UNCHANGED <<disk, manifest, running>>
  BY DEF Migrate, Begin, history
<1>2. RunInv(c, disk)
  <2>1. IsRun(c) /\ c.step \in {"stage", "scan"}
    BY DEF IsRun
  <2>2. \A p \in c.todo \cap Managed : disk[p] \in Own(p)
    BY PlanHolds DEF IInv
  <2> QED BY <2>1, <2>2 DEF RunInv, IInv
<1> HIDE DEF c
<1> QED BY <1>1, <1>2, StillHolds DEF CommandInv

-----------------------------------------------------------------------------
\* A command at a step of init or migrate is one.
LEMMA Running ==
  ASSUME IInv, NEW a \in Actors, cmd[a].step \in {"stage", "apply", "scan", "prune"}
  PROVE  RunInv(cmd[a], disk)
<1>1. CommandInv(cmd[a], disk)
  BY DEF IInv
<1> QED BY <1>1 DEF CommandInv, AcceptInv, IsAccept, Idle

LEMMA Accepting ==
  ASSUME IInv, NEW a \in Actors, cmd[a].step \in {"stamp", "accept"}
  PROVE  AcceptInv(cmd[a])
<1>1. CommandInv(cmd[a], disk)
  BY DEF IInv
<1> QED BY <1>1 DEF CommandInv, RunInv, IsRun, Idle

\* A command that ends.
LEMMA EndHolds ==
  ASSUME IInv, NEW a \in Actors, cmd' = [cmd EXCEPT ![a] = Idle], running' = running,
         DiskKept, Based(manifest')
  PROVE  IInv'
  BY StepHolds DEF CommandInv

\* Writing what a build renders makes a managed file the product's.
LEMMA PutRendered ==
  ASSUME IInv, NEW v \in Versions, NEW p, disk' = [disk EXCEPT ![p] = Rendered[v][p]]
  PROVE  DiskKept
  BY DEF IInv, DiskKept, Own, ProductTexts

LEMMA WriteHolds ==
  ASSUME IInv, NEW a \in Actors, Write(a)
  PROVE  IInv'
<1>1. PICK p \in cmd[a].todo : /\ disk' = [disk EXCEPT ![p] = Rendered[cmd[a].ver][p]]
                               /\ cmd' = [cmd EXCEPT ![a].todo = @ \ {p}]
  BY DEF Write, Put
<1> DEFINE c == [cmd[a] EXCEPT !.todo = @ \ {p}]
<1>2. cmd[a].step \in {"stage", "apply"} /\ UNCHANGED <<manifest, running>>
  BY DEF Write
<1>3. RunInv(cmd[a], disk)
  BY <1>2, Running
<1>4. DiskKept
  BY <1>1, <1>3, PutRendered DEF RunInv
<1>5. RunInv(cmd[a], disk')
  BY <1>3, <1>4 DEF RunInv, DiskKept
<1>6. RunInv(c, disk')
  <2>1. /\ IsRun(c) /\ c.step = cmd[a].step /\ c.ver = cmd[a].ver /\ c.read = cmd[a].read
        /\ c.plan = cmd[a].plan /\ c.todo = cmd[a].todo \ {p}
    BY <1>5 DEF RunInv, IsRun
  <2> HIDE DEF c
  <2> QED BY <1>5, <2>1 DEF RunInv
<1>7. cmd' = [cmd EXCEPT ![a] = c]
  BY <1>1 DEF IInv
<1> HIDE DEF c
<1> QED BY <1>2, <1>3, <1>4, <1>6, <1>7, StepHolds DEF CommandInv, IInv

LEMMA WriteForcedHolds ==
  ASSUME IInv, NEW a \in Actors, WriteForced(a)
  PROVE  IInv'
<1> DEFINE p == Head(cmd[a].force)
           c == [cmd[a] EXCEPT !.force = Tail(@)]
<1>1. /\ disk' = [disk EXCEPT ![p] = Rendered[cmd[a].ver][p]]
      /\ cmd[a].step = "stage" /\ UNCHANGED <<manifest, running>>
  BY DEF WriteForced, Put, Forcing
<1>2. cmd' = [cmd EXCEPT ![a] = c]
  BY DEF WriteForced, IInv
<1>3. RunInv(cmd[a], disk)
  BY <1>1, Running
<1>4. DiskKept
  BY <1>1, <1>3, PutRendered DEF RunInv
<1>5. RunInv(cmd[a], disk')
  BY <1>3, <1>4 DEF RunInv, DiskKept
<1>6. RunInv(c, disk')
  BY <1>5 DEF RunInv, IsRun
<1> HIDE DEF c
<1> QED BY <1>1, <1>2, <1>3, <1>4, <1>6, StepHolds DEF CommandInv, IInv

LEMMA ReplanHolds ==
  ASSUME IInv, NEW a \in Actors, Replan(a)
  PROVE  IInv'
<1> DEFINE plan == Plan(manifest, cmd[a].ver)
           c == [cmd[a] EXCEPT !.step = "apply", !.plan = plan,
                               !.obsolete = Obsolete(manifest, cmd[a].ver), !.todo = Writes(plan)]
<1>1. cmd[a].step = "stage" /\ UNCHANGED <<disk, manifest, running>>
  BY DEF Replan, history
<1>2. cmd' = [cmd EXCEPT ![a] = c]
  BY DEF Replan, IInv
<1>3. RunInv(cmd[a], disk)
  BY <1>1, Running
<1> HIDE DEF plan
<1>4. RunInv(c, disk)
  <2>0. IsRun(cmd[a])
    BY <1>3 DEF RunInv
  <2>1. /\ IsRun(c) /\ c.ver = cmd[a].ver /\ c.read = cmd[a].read /\ c.step = "apply"
        /\ c.plan = plan /\ c.todo = Writes(plan)
    BY <2>0 DEF IsRun
  <2>2. cmd[a].ver \in Versions
    BY <1>3 DEF RunInv
  <2> HIDE DEF c
  <2> QED BY <1>3, <2>1, <2>2, PlanHolds DEF RunInv, plan
<1> HIDE DEF c
<1> QED BY <1>1, <1>2, <1>3, <1>4, StillHolds DEF CommandInv, IInv

\* What a command records are bases and pins.
LEMMA RecordBased ==
  ASSUME NEW c, RunInv(c, disk), c.step = "apply"
  PROVE  Based(NewManifest(c))
<1> DEFINE m == NewManifest(c)
<1>1. m = [files |-> NewFiles(c), gates |-> NewGates(c), pin |-> m.pin, product |-> m.product,
           skill |-> m.skill]
  BY DEF NewManifest
<1>2. ASSUME NEW p \in Managed, p \in DOMAIN NewFiles(c)
      PROVE  NewFiles(c)[p].base \in Own(p)
  <2>1. CASE p \in c.obsolete
    <3>1. NewFiles(c)[p].base = Base(c.read, p)
      BY <1>2, <2>1 DEF NewFiles
    <3> QED BY <3>1 DEF RunInv, Based, Base, Records, Own
  <2>2. CASE p \notin c.obsolete
    <3>1. p \in DOMAIN c.plan /\ NewFiles(c)[p].base = NewBase(c.plan, p)
      BY <1>2, <2>2 DEF NewFiles
    <3>2. p \notin Normative
      BY InstallationAssumption
    <3> QED BY <3>1, <3>2 DEF NewBase, RunInv
  <2> QED BY <2>1, <2>2
<1>3. ASSUME NEW p \in Managed, p \in DOMAIN NewGates(c)
      PROVE  NewGates(c)[p] \in ProductTexts(p)
  <2>1. p \in Pinned
    BY <1>3 DEF NewGates
  <2>2. p \in DOMAIN c.plan
    BY <2>1, InstallationAssumption DEF RunInv, Registry, Paths
  <2>3. CASE c.plan[p].outcome # "conflict"
    <3>1. NewGates(c)[p] = disk[p] /\ disk[p] # None
      BY <1>3, <2>2, <2>3 DEF NewGates
    <3> QED BY <2>2, <2>3, <3>1 DEF RunInv, Own
  <2>4. CASE c.plan[p].outcome = "conflict"
    <3>1. p \in DOMAIN c.read.gates /\ NewGates(c)[p] = c.read.gates[p]
      BY <1>3, <2>2, <2>4 DEF NewGates
    <3> QED BY <3>1 DEF RunInv, Based
  <2> QED BY <2>3, <2>4
<1> QED BY <1>1, <1>2, <1>3 DEF Based

LEMMA RecordHolds ==
  ASSUME IInv, NEW a \in Actors, Record(a)
  PROVE  IInv'
<1> DEFINE c == cmd[a]
           d == IF c.prune THEN [c EXCEPT !.step = "scan"] ELSE Idle
<1>1. /\ c.step = "apply" /\ manifest' = NewManifest(c) /\ UNCHANGED <<disk, running>>
      /\ cmd' = [cmd EXCEPT ![a] = d]
  BY DEF Record
<1>2. RunInv(c, disk)
  BY <1>1, Running
<1>3. DiskKept
  BY <1>1 DEF IInv, DiskKept
<1>4. Based(manifest')
  BY <1>1, <1>2, RecordBased
<1>5. CASE c.prune
  <2>1. /\ DOMAIN d = DOMAIN c /\ d.step = "scan" /\ d.ver = c.ver /\ d.read = c.read
    BY <1>2, <1>5 DEF RunInv, IsRun
  <2> HIDE DEF d, c
  <2>2. RunInv(d, disk')
    BY <1>2, <2>1 DEF RunInv, IsRun
  <2> QED BY <1>1, <1>3, <1>4, <2>2, StepHolds DEF CommandInv
<1>6. CASE ~c.prune
  BY <1>1, <1>3, <1>4, <1>6, EndHolds
<1> QED BY <1>5, <1>6

LEMMA ScanHolds ==
  ASSUME IInv, NEW a \in Actors, Scan(a)
  PROVE  IInv'
<1> DEFINE c == cmd[a]
           d == [c EXCEPT !.step = "prune", !.read = manifest, !.plan = <<>>,
                          !.obsolete = {}, !.todo = Obsolete(manifest, c.ver)]
<1>1. c.step = "scan" /\ UNCHANGED <<disk, manifest, running>> /\ cmd' = [cmd EXCEPT ![a] = d]
  BY DEF Scan, history
<1>2. RunInv(c, disk)
  BY <1>1, Running
<1>3. DOMAIN d = DOMAIN c /\ d.step = "prune" /\ d.ver = c.ver /\ d.read = manifest
  BY <1>2 DEF RunInv, IsRun
<1> HIDE DEF d, c
<1>4. RunInv(d, disk)
  BY <1>2, <1>3 DEF RunInv, IsRun, IInv
<1> QED BY <1>1, <1>4, StillHolds DEF CommandInv

LEMMA PruneFileHolds ==
  ASSUME IInv, NEW a \in Actors, PruneFile(a)
  PROVE  IInv'
<1> DEFINE c == cmd[a]
<1>1. c.step = "prune" /\ UNCHANGED <<manifest, running>>
  BY DEF PruneFile
<1>2. RunInv(c, disk)
  BY <1>1, Running
<1>3. PICK p, obsolete :
        /\ disk' = [disk EXCEPT ![p] = None] \/ disk' = disk
        /\ cmd' = [cmd EXCEPT ![a].todo = @ \ {p}, ![a].obsolete = obsolete]
  BY DEF PruneFile, Put
<1> DEFINE d == [c EXCEPT !.todo = @ \ {p}, !.obsolete = obsolete]
<1>4. cmd' = [cmd EXCEPT ![a] = d]
  BY <1>3 DEF IInv
<1>5. DiskKept
  <2>1. DOMAIN disk = Paths /\ Managed \subseteq Paths
    BY DEF IInv, Paths
  <2>2. \A q \in Managed : None \in Own(q)
    BY DEF Own
  <2> QED BY <1>3, <2>1, <2>2 DEF DiskKept
<1>6. DOMAIN d = DOMAIN c /\ d.step = "prune" /\ d.ver = c.ver /\ d.read = c.read
  BY <1>1, <1>2 DEF RunInv, IsRun
<1> HIDE DEF d, c
<1>7. RunInv(d, disk')
  BY <1>2, <1>6 DEF RunInv, IsRun
<1> QED BY <1>1, <1>4, <1>5, <1>7, StepHolds DEF CommandInv, IInv

LEMMA PruneRecordHolds ==
  ASSUME IInv, NEW a \in Actors, PruneRecord(a)
  PROVE  IInv'
<1> DEFINE c == cmd[a]
<1>1. /\ c.step = "prune" /\ UNCHANGED <<disk, running>> /\ cmd' = [cmd EXCEPT ![a] = Idle]
      /\ manifest' = [c.read EXCEPT !.files = [p \in DOMAIN @ \ c.obsolete |-> @[p]]]
  BY DEF PruneRecord, history
<1>2. Based(c.read)
  BY <1>1, Running DEF RunInv
<1>3. /\ DOMAIN manifest' = DOMAIN c.read /\ manifest'.gates = c.read.gates
      /\ manifest'.files = [p \in DOMAIN c.read.files \ c.obsolete |-> c.read.files[p]]
  BY <1>1, <1>2 DEF Based
<1>4. Based(manifest')
  BY <1>2, <1>3 DEF Based
<1>5. DiskKept
  BY <1>1 DEF IInv, DiskKept
<1> QED BY <1>1, <1>4, <1>5, EndHolds

LEMMA AcceptHolds ==
  ASSUME IInv, NEW a \in Actors, NEW p \in Normative, NEW stamp \in BOOLEAN, Accept(a, p, stamp)
  PROVE  IInv'
<1> DEFINE t == IF stamp THEN Stamp[disk[p]] ELSE disk[p]
           c == [step |-> IF t = disk[p] THEN "accept" ELSE "stamp", kind |-> "accept",
                 ver |-> running, read |-> manifest, path |-> p, text |-> t]
<1>1. cmd' = [cmd EXCEPT ![a] = c] /\ UNCHANGED <<disk, manifest, running>>
  BY DEF Accept, Begin, history
<1>2. AcceptInv(c)
  <2> HIDE DEF t
  <2> QED BY DEF AcceptInv, IsAccept, IInv
<1> HIDE DEF c
<1> QED BY <1>1, <1>2, StillHolds DEF CommandInv

LEMMA AcceptStampHolds ==
  ASSUME IInv, NEW a \in Actors, AcceptStamp(a)
  PROVE  IInv'
<1> DEFINE c == cmd[a]
           d == IF Acceptable(c.text) THEN [c EXCEPT !.step = "accept"] ELSE Idle
<1>1. /\ c.step = "stamp" /\ UNCHANGED <<manifest, running>> /\ cmd' = [cmd EXCEPT ![a] = d]
      /\ disk' = [disk EXCEPT ![c.path] = c.text]
  BY DEF AcceptStamp, Put
<1>2. AcceptInv(c)
  BY <1>1, Accepting
<1>3. c.path \notin Managed
  BY <1>2, InstallationAssumption DEF AcceptInv
<1>4. DiskKept
  BY <1>1, <1>3 DEF IInv, DiskKept, Paths
<1>5. CASE Acceptable(c.text)
  <2>1. DOMAIN d = DOMAIN c /\ d.step = "accept" /\ d.path = c.path /\ d.read = c.read
    BY <1>2, <1>5 DEF AcceptInv, IsAccept
  <2> HIDE DEF d, c
  <2>2. AcceptInv(d)
    BY <1>2, <2>1 DEF AcceptInv, IsAccept
  <2> QED BY <1>1, <1>4, <2>2, StepHolds DEF CommandInv, IInv
<1>6. CASE ~Acceptable(c.text)
  BY <1>1, <1>4, <1>6, EndHolds DEF IInv
<1> QED BY <1>5, <1>6

LEMMA AcceptRecordHolds ==
  ASSUME IInv, NEW a \in Actors, AcceptRecord(a)
  PROVE  IInv'
<1> DEFINE c == cmd[a]
<1>1. /\ c.step = "accept" /\ UNCHANGED <<disk, running>> /\ cmd' = [cmd EXCEPT ![a] = Idle]
      /\ manifest' = [c.read EXCEPT !.files[c.path].base = disk[c.path]]
  BY DEF AcceptRecord, history
<1>2. AcceptInv(c)
  BY <1>1, Accepting
<1>3. c.path \notin Managed
  BY <1>2, InstallationAssumption DEF AcceptInv
<1>4. /\ DOMAIN manifest' = DOMAIN c.read /\ manifest'.gates = c.read.gates
      /\ DOMAIN manifest'.files = DOMAIN c.read.files
      /\ \A p \in DOMAIN c.read.files \ {c.path} : manifest'.files[p] = c.read.files[p]
  BY <1>1, <1>2 DEF AcceptInv, Based
<1>5. Based(manifest')
  BY <1>2, <1>3, <1>4 DEF AcceptInv, Based
<1>6. DiskKept
  BY <1>1 DEF IInv, DiskKept
<1> QED BY <1>1, <1>5, <1>6, EndHolds

-----------------------------------------------------------------------------
LEMMA InitIInv == Init => IInv
<1> SUFFICES ASSUME Init PROVE IInv
  OBVIOUS
<1>1. Based(manifest)
  BY DEF Init, Based, NoManifest
<1>2. \A a \in Actors : cmd[a] = Idle
  BY DEF Init
<1> QED BY <1>1, <1>2 DEF Init, IInv, CommandInv

LEMMA NextIInv ==
  ASSUME EditSteps \cap {"stage", "apply"} = {}
  PROVE  IInv /\ [Next]_vars => IInv'
<1> SUFFICES ASSUME IInv, [Next]_vars PROVE IInv'
  OBVIOUS
<1>1. ASSUME NEW a \in Actors, Step(a) PROVE IInv'
  <2>1. CASE Init_(a)
    BY <2>1, InitHolds
  <2>2. ASSUME NEW u \in BOOLEAN, NEW d \in BOOLEAN, NEW f \in ForceLists, Migrate(a, u, f, d)
        PROVE  IInv'
    BY <2>2, MigrateHolds
  <2>3. CASE Write(a)
    BY <2>3, WriteHolds
  <2>4. CASE WriteForced(a)
    BY <2>4, WriteForcedHolds
  <2>5. CASE ForceRefused(a) \/ Stop(a)
    <3>1. cmd' = [cmd EXCEPT ![a] = Idle] /\ UNCHANGED <<disk, manifest, running>>
      BY <2>5 DEF ForceRefused, Stop, history
    <3> QED BY <3>1, StillHolds DEF CommandInv
  <2>6. CASE Replan(a)
    BY <2>6, ReplanHolds
  <2>7. CASE Record(a)
    BY <2>7, RecordHolds
  <2>8. CASE Scan(a)
    BY <2>8, ScanHolds
  <2>9. CASE PruneFile(a)
    BY <2>9, PruneFileHolds
  <2>10. CASE PruneRecord(a)
    BY <2>10, PruneRecordHolds
  <2>11. ASSUME NEW p \in Normative, NEW s \in BOOLEAN, Accept(a, p, s) PROVE IInv'
    BY <2>11, AcceptHolds
  <2>12. CASE AcceptStamp(a)
    BY <2>12, AcceptStampHolds
  <2>13. CASE AcceptRecord(a)
    BY <2>13, AcceptRecordHolds
  <2> QED BY <1>1, <2>1, <2>2, <2>3, <2>4, <2>5, <2>6, <2>7, <2>8, <2>9, <2>10, <2>11, <2>12,
             <2>13 DEF Step
<1>2. ASSUME NEW v \in Versions, Swap(v) PROVE IInv'
  BY <1>2 DEF Swap, IInv
<1>3. ASSUME NEW p \in Paths, NEW t, HandEdit(p, t) PROVE IInv'
  <2>1. \A a \in Actors : cmd[a].step \notin {"stage", "apply"}
    BY <1>3 DEF HandEdit, Editable
  <2>2. \A a \in Actors : CommandInv(cmd[a], disk')
    BY <2>1 DEF IInv, CommandInv, RunInv
  <2>3. DOMAIN disk' = Paths /\ UNCHANGED <<manifest, running, cmd>>
    BY <1>3 DEF HandEdit, Put, IInv
  <2> QED BY <2>2, <2>3 DEF IInv
<1>4. CASE UNCHANGED vars
  BY <1>4 DEF vars, IInv
<1> QED BY <1>1, <1>2, <1>3, <1>4 DEF Next

-----------------------------------------------------------------------------
\* A step that rewrites what the product did not render.
Overwritten(p) == disk[p] \notin Own(p) /\ disk'[p] # disk[p]

\* It is an edit, forced, or the removal of a file without a base.
Allowed(p) ==
  \/ author'[p] = Hand
  \/ \E a \in Actors :
       \/ Forcing(a) /\ Head(cmd[a].force) = p
       \/ cmd[a].step = "prune" /\ Base(cmd[a].read, p) = None /\ disk'[p] = None

LEMMA OverwritesAllowed ==
  ASSUME IInv, [Next]_vars, NEW p \in Managed, Overwritten(p)
  PROVE  Allowed(p)
<1>1. DOMAIN disk = Paths /\ p \in Paths
  BY DEF IInv, Paths
<1>2. ASSUME NEW a \in Actors, Write(a) PROVE FALSE
  <2>1. PICK q \in cmd[a].todo : disk' = [disk EXCEPT ![q] = Rendered[cmd[a].ver][q]]
    BY <1>2 DEF Write, Put
  <2>2. p = q
    BY <1>1, <2>1 DEF Overwritten
  <2>3. RunInv(cmd[a], disk) /\ cmd[a].step \in {"stage", "apply"}
    BY <1>2, Running DEF Write
  <2> QED BY <2>1, <2>2, <2>3 DEF RunInv, Overwritten
<1>3. ASSUME NEW a \in Actors, WriteForced(a) PROVE Allowed(p)
  <2>1. disk' = [disk EXCEPT ![Head(cmd[a].force)] = Rendered[cmd[a].ver][Head(cmd[a].force)]]
    BY <1>3 DEF WriteForced, Put
  <2>2. p = Head(cmd[a].force)
    BY <1>1, <2>1 DEF Overwritten
  <2> QED BY <1>3, <2>2 DEF WriteForced, Allowed
<1>4. ASSUME NEW a \in Actors, PruneFile(a) PROVE Allowed(p)
  <2>1. PICK q \in cmd[a].todo :
          /\ disk' = IF Prunable(q, Base(cmd[a].read, q)) /\ disk[q] # None
                      THEN [disk EXCEPT ![q] = None] ELSE disk
    BY <1>4 DEF PruneFile, Put
  <2>2. p = q /\ disk'[p] = None /\ Prunable(p, Base(cmd[a].read, p)) /\ disk[p] # None
    BY <1>1, <2>1 DEF Overwritten
  <2>3. RunInv(cmd[a], disk) /\ cmd[a].step = "prune"
    BY <1>4, Running DEF PruneFile
  <2>4. Base(cmd[a].read, p) \in Own(p)
    BY <2>3 DEF RunInv, Based, Base, Records, Own
  <2>5. Base(cmd[a].read, p) = None
    BY <2>2, <2>4 DEF Prunable, Overwritten
  <2> QED BY <2>2, <2>3, <2>5 DEF Allowed
<1>5. ASSUME NEW a \in Actors, AcceptStamp(a) PROVE FALSE
  <2>1. disk' = [disk EXCEPT ![cmd[a].path] = cmd[a].text] /\ cmd[a].step = "stamp"
    BY <1>5 DEF AcceptStamp, Put
  <2>2. cmd[a].path \in Normative
    BY <2>1, Accepting DEF AcceptInv
  <2> QED BY <1>1, <2>1, <2>2, InstallationAssumption DEF Overwritten
<1>6. ASSUME NEW q \in Paths, NEW t, HandEdit(q, t) PROVE Allowed(p)
  <2>1. /\ disk' = [disk EXCEPT ![q] = t]
        /\ author' = [r \in Managed |-> IF r = q THEN Hand ELSE author[r]]
    BY <1>6 DEF HandEdit, Put
  <2>2. p = q
    BY <1>1, <2>1 DEF Overwritten
  <2> QED BY <2>1, <2>2 DEF Allowed
<1>7. ASSUME NEW a \in Actors, Step(a) PROVE Allowed(p)
  <2>1. disk' # disk
    BY DEF Overwritten
  <2>2. Write(a) \/ WriteForced(a) \/ PruneFile(a) \/ AcceptStamp(a)
    BY <1>7, <2>1 DEF Step, Init_, Migrate, Begin, ForceRefused, Replan, Record, Scan, PruneRecord,
                      Accept, AcceptRecord, Stop, history
  <2> QED BY <1>2, <1>3, <1>4, <1>5, <2>2
<1>8. disk' # disk
  BY DEF Overwritten
<1> QED BY <1>6, <1>7, <1>8 DEF Next, Swap, vars

-----------------------------------------------------------------------------
\* Where nobody edits files between a plan and its record, a merge base and a
\* pin stay texts the product rendered, whatever commands run at once, stop
\* or are repeated, and whatever builds they belong to (apply_plan).
THEOREM BasesRendered ==
  ASSUME EditSteps \cap {"stage", "apply"} = {}
  PROVE  Spec => []BasesAreRendered
<1>1. IInv /\ [Next]_vars => IInv'
  BY NextIInv
<1>2. IInv => BasesAreRendered
  BY DEF IInv, Based, BasesAreRendered, Own
<1> QED BY InitIInv, <1>1, <1>2, PTL DEF Spec

\* "A locally modified managed file is a `conflict`, never silently
\* overwritten", for every sequence of commands and builds: where nobody edits
\* files between a plan and its record, no command replaces an edited managed
\* file unless --force names it, or removes it unless its record has no base.
THEOREM EditsSurvive ==
  ASSUME EditSteps \cap {"stage", "apply"} = {}
  PROVE  Spec => EditsKept
<1>1. IInv /\ [Next]_vars => IInv'
  BY NextIInv
<1>2. IInv /\ [Next]_vars =>
        [\A p \in Managed :
           disk[p] \notin ProductTexts(p) \cup {None} /\ disk'[p] # disk[p]
             => \/ author'[p] = Hand
                \/ \E a \in Actors :
                     \/ Forcing(a) /\ Head(cmd[a].force) = p
                     \/ cmd[a].step = "prune" /\ Base(cmd[a].read, p) = None /\ disk'[p] = None]_vars
  BY OverwritesAllowed DEF Overwritten, Allowed, Own
<1> QED BY InitIInv, <1>1, <1>2, PTL DEF Spec, EditsKept

-----------------------------------------------------------------------------
(* One command at a time.  What is recorded is what was planned, because      *)
(* nobody else writes the manifest in between; and a managed file is either   *)
(* accounted for by the manifest, absent, written by hand, or torn: written   *)
(* by a command that has not recorded it.  People may edit files at any step. *)

\* One command at a time: the one process starts its next when the last ended.
OneCommand == \A a, b \in Actors : a = b

\* A file no hand has touched since a command wrote it, and that is recorded
\* or on its way to be.
Traced(p) == author[p] = Hand \/ p \in torn

\* What a running init or migrate knows of the files and of the manifest, which
\* nobody else writes.
RunKnows(c) ==
  /\ IsRun(c) /\ c.ver \in Versions
  /\ c.step # "scan" => c.read = manifest
  /\ c.kind = "migrate" => ~c.frozen
  /\ c.step \in {"stage", "apply"} => c.todo \subseteq Registry(c.ver)
  /\ c.step = "apply" =>
       /\ c.obsolete = Obsolete(manifest, c.ver)
       /\ DOMAIN c.plan = Registry(c.ver)
       /\ \A p \in Managed \cap DOMAIN c.plan :
            /\ c.plan[p].base = Base(manifest, p)
            /\ c.plan[p].outcome = "conflict" => Traced(p)
            /\ c.kind = "migrate" /\ c.plan[p].outcome # "conflict" =>
                 author[p] = Hand \/ p \in c.todo \/ disk[p] = Rendered[c.ver][p]
       /\ \A p \in Normative \cap DOMAIN c.plan :
            Base(manifest, p) # None => c.plan[p].base = Base(manifest, p)
  /\ c.step = "prune" =>
       /\ c.todo \subseteq Managed /\ c.obsolete \subseteq Managed
       /\ \A p \in c.obsolete : author[p] = Hand \/ disk[p] = None

\* What a running accept-policy does.
AcceptKnows(c) ==
  /\ IsAccept(c) /\ c.kind = "accept" /\ c.path \in Normative
  /\ c.read = manifest /\ c.path \in Records(manifest)
  /\ c.step = "accept" /\ "accept" \notin EditSteps =>
       disk[c.path] = c.text /\ Acceptable(c.text)

\* The manifest of an installation, and what it says of the files.
Manifest ==
  /\ DOMAIN manifest = {"files", "gates", "pin", "product", "skill"}
  /\ \A p \in Records(manifest) : DOMAIN manifest.files[p] = {"base", "authority"}
Accounted(p) == Traced(p) \/ disk[p] = None \/ disk[p] = Base(manifest, p)
Knows(a) == cmd[a] = Idle \/ RunKnows(cmd[a]) \/ AcceptKnows(cmd[a])

SInv ==
  /\ DOMAIN disk = Paths /\ DOMAIN author = Managed /\ DOMAIN cmd = Actors
  /\ running \in Versions
  /\ Manifest
  /\ \A p \in Managed : Accounted(p)
  /\ \A a \in Actors : Knows(a)

-----------------------------------------------------------------------------
\* A step of the one command.
LEMMA OneMoves ==
  ASSUME OneCommand, SInv, NEW a \in Actors, DOMAIN cmd' = Actors, Knows(a)',
         DOMAIN disk' = Paths, DOMAIN author' = Managed, running' = running, Manifest',
         \A p \in Managed : Accounted(p)'
  PROVE  SInv'
<1>1. \A b \in Actors : b = a
  BY DEF OneCommand
<1>2. \A b \in Actors : Knows(b)'
  BY <1>1
<1> QED BY <1>2 DEF SInv

\* One that leaves the files and the manifest alone.
LEMMA OnlyCommandMoves ==
  ASSUME OneCommand, SInv, NEW a \in Actors, NEW STATE c, cmd' = [cmd EXCEPT ![a] = c], Knows(a)',
         UNCHANGED <<disk, manifest, running, author, torn>>
  PROVE  SInv'
<1>1. DOMAIN cmd' = Actors
  BY DEF SInv
<1>2. DOMAIN disk' = Paths /\ DOMAIN author' = Managed
  BY DEF SInv
<1>3. Manifest' /\ \A p \in Managed : Accounted(p)'
  BY DEF SInv, Manifest, Accounted, Traced, Records, Base
<1> QED BY <1>1, <1>2, <1>3, OneMoves

\* A command at a step of init or migrate is one.
LEMMA RunStep ==
  ASSUME SInv, NEW a \in Actors, cmd[a].step \in {"stage", "apply", "scan", "prune"}
  PROVE  RunKnows(cmd[a])
<1>1. Knows(a)
  BY DEF SInv
<1> QED BY <1>1 DEF Knows, AcceptKnows, IsAccept, Idle

LEMMA AcceptStep ==
  ASSUME SInv, NEW a \in Actors, cmd[a].step \in {"stamp", "accept"}
  PROVE  AcceptKnows(cmd[a])
<1>1. Knows(a)
  BY DEF SInv
<1> QED BY <1>1 DEF Knows, RunKnows, IsRun, Idle

\* What a plan says of the files it is made over.
LEMMA PlanKnows ==
  ASSUME SInv, NEW v \in Versions
  PROVE  LET plan == Plan(manifest, v) IN
         /\ DOMAIN plan = Registry(v) /\ Writes(plan) \subseteq Registry(v)
         /\ \A p \in Managed \cap DOMAIN plan :
              /\ plan[p].base = Base(manifest, p)
              /\ plan[p].outcome = "conflict" => Traced(p)
              /\ plan[p].outcome # "conflict" => p \in Writes(plan) \/ disk[p] = Rendered[v][p]
         /\ \A p \in Normative \cap DOMAIN plan :
              Base(manifest, p) # None => plan[p].base = Base(manifest, p)
<1> DEFINE plan == Plan(manifest, v)
<1>1. DOMAIN plan = Registry(v)
  BY DEF Plan
<1>2. Writes(plan) \subseteq Registry(v)
  BY <1>1 DEF Writes
<1>3. ASSUME NEW p \in Managed \cap Registry(v)
      PROVE  /\ plan[p].base = Base(manifest, p)
             /\ plan[p].outcome = "conflict" => Traced(p)
             /\ plan[p].outcome # "conflict" => p \in Writes(plan) \/ disk[p] = Rendered[v][p]
  <2>1. plan[p].base = Base(manifest, p)
    BY DEF Plan
  <2>2. plan[p].outcome = ManagedOutcome("create", Base(manifest, p), p, v)
    BY InstallationAssumption DEF Plan, Outcome
  <2>3. Accounted(p)
    BY DEF SInv
  <2>4. plan[p].outcome = "conflict" => Traced(p)
    BY <2>2, <2>3 DEF ManagedOutcome, Accounted
  <2>5. plan[p].content = IF plan[p].outcome \in {"create", "upgrade"} THEN Rendered[v][p] ELSE None
    BY DEF Plan
  <2>6. Rendered[v][p] # None
    BY DEF Registry
  <2>7. plan[p].outcome \in {"create", "upgrade"} => p \in Writes(plan)
    BY <1>1, <2>5, <2>6 DEF Writes
  <2>8. \/ plan[p].outcome \in {"create", "upgrade", "conflict"}
        \/ disk[p] = Rendered[v][p]
    BY <2>2 DEF ManagedOutcome
  <2> QED BY <2>1, <2>4, <2>7, <2>8
<1>4. \A p \in Normative \cap Registry(v) :
        Base(manifest, p) # None => plan[p].base = Base(manifest, p)
  BY DEF Plan
<1> QED BY <1>1, <1>2, <1>3, <1>4

LEMMA InitKnows ==
  ASSUME OneCommand, SInv, NEW a \in Actors, Init_(a)
  PROVE  SInv'
<1> DEFINE v == running
           plan == Frozen(Plan(manifest, v), Refused(v))
           c == [step |-> "apply", kind |-> "init", ver |-> v, read |-> manifest,
                 frozen |-> Refused(v), plan |-> plan, obsolete |-> Obsolete(manifest, v),
                 todo |-> Writes(plan), force |-> <<>>, prune |-> FALSE]
<1>1. cmd' = [cmd EXCEPT ![a] = c] /\ UNCHANGED <<disk, manifest, running, author, torn>>
  BY DEF Init_, Begin, history
<1>2. v \in Versions /\ DOMAIN cmd = Actors
  BY DEF SInv
<1>3. /\ DOMAIN plan = DOMAIN Plan(manifest, v)
      /\ \A p \in DOMAIN plan : /\ plan[p].base = Plan(manifest, v)[p].base
                                /\ plan[p].outcome = Plan(manifest, v)[p].outcome
                                /\ plan[p].content \in {None, Plan(manifest, v)[p].content}
  BY DEF Frozen, Plan
<1>4. Writes(plan) \subseteq Writes(Plan(manifest, v))
  BY <1>3 DEF Writes
<1>5. /\ IsRun(c) /\ c.ver = v /\ c.step = "apply" /\ c.kind = "init" /\ c.read = manifest
      /\ c.todo = Writes(plan) /\ c.obsolete = Obsolete(manifest, v) /\ c.plan = plan
  BY DEF IsRun
<1> HIDE DEF plan, c
<1>6. RunKnows(c)
  BY <1>2, <1>3, <1>4, <1>5, PlanKnows DEF RunKnows
<1>7. cmd'[a] = c
  BY <1>1, <1>2
<1>8. RunKnows(cmd[a])'
  BY <1>1, <1>6, <1>7 DEF RunKnows, Traced, Obsolete, Records, Base
<1> QED BY <1>1, <1>8, OnlyCommandMoves DEF Knows

LEMMA MigrateKnows ==
  ASSUME OneCommand, SInv, NEW a \in Actors, NEW upgrade \in BOOLEAN, NEW force, NEW prune,
         Migrate(a, upgrade, force, prune)
  PROVE  SInv'
<1> DEFINE c == [step |-> IF upgrade \/ force # <<>> THEN "stage" ELSE "scan",
                 kind |-> "migrate", ver |-> running, read |-> manifest, frozen |-> FALSE,
                 plan |-> <<>>, obsolete |-> {},
                 todo |-> IF upgrade THEN Writes(Plan(manifest, running)) ELSE {},
                 force |-> force, prune |-> prune]
<1>1. cmd' = [cmd EXCEPT ![a] = c] /\ UNCHANGED <<disk, manifest, running, author, torn>>
  BY DEF Migrate, Begin, history
<1>2. running \in Versions /\ DOMAIN cmd = Actors
  BY DEF SInv
<1>3. /\ IsRun(c) /\ c.ver = running /\ c.step \in {"stage", "scan"} /\ c.kind = "migrate"
      /\ c.read = manifest /\ c.frozen = FALSE
  BY DEF IsRun
<1>4. c.todo \subseteq Registry(running)
  BY <1>2, PlanKnows
<1> HIDE DEF c
<1>5. RunKnows(c)
  BY <1>2, <1>3, <1>4 DEF RunKnows
<1>6. cmd'[a] = c
  BY <1>1, <1>2
<1>7. RunKnows(cmd[a])'
  BY <1>1, <1>5, <1>6 DEF RunKnows, Traced, Obsolete, Records, Base
<1> QED BY <1>1, <1>7, OnlyCommandMoves DEF Knows

\* A command writes a file its build renders: what it wrote is torn until it
\* is recorded.
LEMMA PutKnows ==
  ASSUME SInv, NEW p \in Paths, NEW t, NEW who, Put(p, t, who), UNCHANGED manifest,
         torn' = torn \cup ({p} \cap Managed)
  PROVE  /\ DOMAIN disk' = Paths /\ DOMAIN author' = Managed /\ Manifest'
         /\ disk'[p] = t /\ \A q \in Paths \ {p} : disk'[q] = disk[q]
         /\ \A q \in Managed \ {p} : author'[q] = author[q]
         /\ \A q \in Managed : Accounted(q)' /\ (Traced(q) => Traced(q)')
         /\ p \in Managed => Traced(p)'
<1>1. DOMAIN disk = Paths /\ DOMAIN author = Managed /\ Manifest
  BY DEF SInv
<1>2. Managed \subseteq Paths
  BY DEF Paths
<1>3. /\ DOMAIN disk' = Paths /\ disk'[p] = t /\ \A q \in Paths \ {p} : disk'[q] = disk[q]
      /\ DOMAIN author' = Managed /\ \A q \in Managed \ {p} : author'[q] = author[q]
  BY <1>1 DEF Put
<1>4. Manifest'
  BY <1>1 DEF Manifest, Records
<1>5. p \in Managed => Traced(p)'
  BY DEF Traced
<1>6. ASSUME NEW q \in Managed
      PROVE  Accounted(q)' /\ (Traced(q) => Traced(q)')
  <2>1. Accounted(q)
    BY DEF SInv
  <2>2. Traced(q) => Traced(q)'
    BY <1>3, <1>5 DEF Traced
  <2>3. CASE q = p
    BY <1>5, <2>2, <2>3 DEF Accounted
  <2>4. CASE q # p
    <3>1. disk'[q] = disk[q]
      BY <1>2, <1>3, <2>4
    <3>2. Base(manifest, q)' = Base(manifest, q)
      BY DEF Base, Records
    <3> QED BY <2>1, <2>2, <3>1, <3>2 DEF Accounted
  <2> QED BY <2>2, <2>3, <2>4
<1> QED BY <1>3, <1>4, <1>5, <1>6

LEMMA WriteKnows ==
  ASSUME OneCommand, SInv, NEW a \in Actors, Write(a)
  PROVE  SInv'
<1> DEFINE c == cmd[a]
<1>1. PICK p \in c.todo : /\ Put(p, Rendered[c.ver][p], c.ver)
                          /\ torn' = torn \cup ({p} \cap Managed)
                          /\ cmd' = [cmd EXCEPT ![a].todo = @ \ {p}]
  BY DEF Write
<1>2. c.step \in {"stage", "apply"} /\ UNCHANGED <<manifest, running>>
  BY DEF Write
<1>3. RunKnows(c) /\ DOMAIN cmd = Actors
  BY <1>2, RunStep DEF SInv
<1>4. p \in Paths
  BY <1>2, <1>3 DEF RunKnows, Registry
<1>5. /\ cmd'[a] = [c EXCEPT !.todo = @ \ {p}] /\ DOMAIN cmd' = Actors
  BY <1>1, <1>3
<1>6. /\ IsRun(cmd'[a]) /\ cmd'[a].step = c.step /\ cmd'[a].ver = c.ver /\ cmd'[a].read = c.read
      /\ cmd'[a].kind = c.kind /\ cmd'[a].frozen = c.frozen /\ cmd'[a].plan = c.plan
      /\ cmd'[a].obsolete = c.obsolete /\ cmd'[a].todo = c.todo \ {p}
  BY <1>3, <1>5 DEF RunKnows, IsRun
<1> HIDE DEF c
<1>7. /\ DOMAIN disk' = Paths /\ DOMAIN author' = Managed /\ Manifest'
      /\ disk'[p] = Rendered[c.ver][p] /\ \A q \in Paths \ {p} : disk'[q] = disk[q]
      /\ \A q \in Managed \ {p} : author'[q] = author[q]
      /\ \A q \in Managed : Accounted(q)' /\ (Traced(q) => Traced(q)')
      /\ p \in Managed => Traced(p)'
  BY <1>1, <1>2, <1>4, PutKnows
<1>8. Managed \subseteq Paths
  BY DEF Paths
<1>9. ASSUME c.step = "apply", NEW q \in Managed \cap DOMAIN c.plan, c.kind = "migrate",
             c.plan[q].outcome # "conflict"
      PROVE  author'[q] = Hand \/ q \in c.todo \ {p} \/ disk'[q] = Rendered[c.ver][q]
  <2>1. author[q] = Hand \/ q \in c.todo \/ disk[q] = Rendered[c.ver][q]
    BY <1>3, <1>9 DEF RunKnows
  <2> QED BY <1>7, <1>8, <2>1
<1>10. RunKnows(cmd[a])'
  <2>1. c.step = "apply" =>
          \A q \in Managed \cap DOMAIN c.plan : c.plan[q].outcome = "conflict" => Traced(q)'
    BY <1>3, <1>7 DEF RunKnows
  <2>2. /\ Obsolete(manifest', cmd'[a].ver) = Obsolete(manifest, c.ver)
        /\ \A q : Base(manifest', q) = Base(manifest, q)
    BY <1>2, <1>6
  <2> QED BY <1>2, <1>3, <1>6, <1>9, <2>1, <2>2 DEF RunKnows
<1> QED BY <1>2, <1>5, <1>7, <1>10, OneMoves DEF Knows

LEMMA WriteForcedKnows ==
  ASSUME OneCommand, SInv, NEW a \in Actors, WriteForced(a)
  PROVE  SInv'
<1> DEFINE c == cmd[a]
           p == Head(c.force)
<1>1. /\ Put(p, Rendered[c.ver][p], c.ver) /\ p \in Managed /\ torn' = torn \cup {p}
      /\ c.step = "stage" /\ UNCHANGED <<manifest, running>>
      /\ cmd' = [cmd EXCEPT ![a].force = Tail(@)]
  BY DEF WriteForced, Forcing, Forceable
<1>2. RunKnows(c) /\ DOMAIN cmd = Actors
  BY <1>1, RunStep DEF SInv
<1>3. cmd'[a] = [c EXCEPT !.force = Tail(@)] /\ DOMAIN cmd' = Actors
  BY <1>1, <1>2
<1>4. /\ IsRun(cmd'[a]) /\ cmd'[a].step = "stage" /\ cmd'[a].ver = c.ver /\ cmd'[a].read = c.read
      /\ cmd'[a].kind = c.kind /\ cmd'[a].frozen = c.frozen /\ cmd'[a].todo = c.todo
  BY <1>1, <1>2, <1>3 DEF RunKnows, IsRun
<1>5. p \in Paths /\ torn' = torn \cup ({p} \cap Managed)
  BY <1>1 DEF Paths
<1> HIDE DEF c, p
<1>6. RunKnows(cmd[a])'
  BY <1>1, <1>2, <1>4 DEF RunKnows
<1>7. /\ DOMAIN disk' = Paths /\ DOMAIN author' = Managed /\ Manifest'
      /\ \A q \in Managed : Accounted(q)'
  BY <1>1, <1>5, PutKnows
<1> QED BY <1>1, <1>3, <1>6, <1>7, OneMoves DEF Knows

LEMMA ReplanKnows ==
  ASSUME OneCommand, SInv, NEW a \in Actors, Replan(a)
  PROVE  SInv'
<1> DEFINE c == cmd[a]
           plan == Plan(manifest, c.ver)
           d == [c EXCEPT !.step = "apply", !.plan = plan,
                          !.obsolete = Obsolete(manifest, c.ver), !.todo = Writes(plan)]
<1>1. c.step = "stage" /\ UNCHANGED <<disk, manifest, running, author, torn>>
  BY DEF Replan, history
<1>2. RunKnows(c) /\ DOMAIN cmd = Actors
  BY <1>1, RunStep DEF SInv
<1>3. cmd' = [cmd EXCEPT ![a] = d]
  BY <1>2 DEF Replan
<1>4. cmd'[a] = d
  BY <1>2, <1>3
<1> HIDE DEF plan
<1>5. /\ IsRun(d) /\ d.step = "apply" /\ d.ver = c.ver /\ d.read = c.read
      /\ d.kind = c.kind /\ d.frozen = c.frozen /\ d.plan = plan
      /\ d.obsolete = Obsolete(manifest, c.ver) /\ d.todo = Writes(plan)
  BY <1>2 DEF RunKnows, IsRun
<1> HIDE DEF d, c
<1>6. c.ver \in Versions /\ c.read = manifest /\ (c.kind = "migrate" => ~c.frozen)
  BY <1>1, <1>2 DEF RunKnows
<1>7. RunKnows(d)
  BY <1>5, <1>6, PlanKnows DEF RunKnows, plan
<1>8. RunKnows(cmd[a])'
  BY <1>1, <1>4, <1>7 DEF RunKnows, Traced, Obsolete, Records, Base
<1> QED BY <1>1, <1>3, <1>8, OnlyCommandMoves DEF Knows

\* A record accounts for every file the plan does not call a conflict.
LEMMA RecordAccounts ==
  ASSUME SInv, NEW a \in Actors, Record(a), NEW q \in Managed
  PROVE  Accounted(q)'
<1> DEFINE c == cmd[a]
<1>1. /\ c.step = "apply" /\ manifest' = NewManifest(c) /\ UNCHANGED <<disk, author>>
      /\ torn' = {p \in torn : p \in DOMAIN c.plan => c.plan[p].outcome = "conflict"}
  BY DEF Record
<1>2. RunKnows(c) /\ Accounted(q)
  BY <1>1, RunStep DEF SInv
<1>3. /\ c.read = manifest /\ c.obsolete = Obsolete(manifest, c.ver)
      /\ DOMAIN c.plan = Registry(c.ver)
      /\ q \in DOMAIN c.plan /\ c.plan[q].outcome = "conflict" => Traced(q)
  BY <1>1, <1>2 DEF RunKnows
<1> HIDE DEF c
<1>4. manifest'.files = NewFiles(c)
  BY <1>1 DEF NewManifest
<1>5. CASE q \in DOMAIN c.plan /\ c.plan[q].outcome = "conflict"
  BY <1>1, <1>3, <1>5 DEF Accounted, Traced
<1>6. CASE q \in DOMAIN c.plan /\ c.plan[q].outcome # "conflict"
  <2>1. q \notin c.obsolete /\ q \notin Normative
    BY <1>3, <1>6, InstallationAssumption DEF Obsolete
  <2>2. q \in DOMAIN NewFiles(c) /\ NewFiles(c)[q].base = NewBase(c.plan, q)
    BY <1>6, <2>1 DEF NewFiles
  <2>3. NewBase(c.plan, q) = disk[q]
    BY <1>6, <2>1 DEF NewBase
  <2>4. Base(manifest', q) = disk'[q]
    BY <1>1, <1>4, <2>2, <2>3 DEF Base, Records
  <2> QED BY <2>4 DEF Accounted
<1>7. CASE q \notin DOMAIN c.plan
  <2>1. Traced(q) => Traced(q)'
    BY <1>1, <1>7 DEF Traced
  <2>2. CASE q \in Records(manifest)
    <3>1. q \in c.obsolete
      BY <1>3, <1>7, <2>2 DEF Obsolete
    <3>2. q \in DOMAIN NewFiles(c) /\ NewFiles(c)[q].base = Base(manifest, q)
      BY <1>3, <3>1 DEF NewFiles
    <3>3. Base(manifest', q) = Base(manifest, q)
      BY <1>4, <3>2 DEF Base, Records
    <3> QED BY <1>1, <1>2, <2>1, <3>3 DEF Accounted
  <2>3. CASE q \notin Records(manifest)
    <3>1. Base(manifest, q) = None
      BY <2>3 DEF Base
    <3> QED BY <1>1, <1>2, <2>1, <3>1 DEF Accounted
  <2> QED BY <2>2, <2>3
<1> QED BY <1>5, <1>6, <1>7

LEMMA RecordKnows ==
  ASSUME OneCommand, SInv, NEW a \in Actors, Record(a)
  PROVE  SInv'
<1> DEFINE c == cmd[a]
           d == IF c.prune THEN [c EXCEPT !.step = "scan"] ELSE Idle
<1>1. /\ c.step = "apply" /\ manifest' = NewManifest(c) /\ UNCHANGED <<disk, running, author>>
      /\ cmd' = [cmd EXCEPT ![a] = d]
  BY DEF Record
<1>2. RunKnows(c) /\ DOMAIN cmd = Actors /\ DOMAIN disk = Paths /\ DOMAIN author = Managed
  BY <1>1, RunStep DEF SInv
<1>3. cmd'[a] = d /\ DOMAIN cmd' = Actors
  BY <1>1, <1>2
<1>4. Manifest'
  <2>1. manifest' = [files |-> NewFiles(c), gates |-> NewGates(c), pin |-> manifest'.pin,
                     product |-> manifest'.product, skill |-> manifest'.skill]
    BY <1>1 DEF NewManifest
  <2>2. \A p \in DOMAIN NewFiles(c) : DOMAIN NewFiles(c)[p] = {"base", "authority"}
    BY DEF NewFiles
  <2> HIDE DEF c
  <2>3. DOMAIN manifest' = {"files", "gates", "pin", "product", "skill"}
    BY <2>1
  <2>4. manifest'.files = NewFiles(c)
    BY <1>1 DEF NewManifest
  <2> QED BY <2>2, <2>3, <2>4 DEF Manifest, Records
<1>5. \A q \in Managed : Accounted(q)'
  BY RecordAccounts
<1>6. Knows(a)'
  <2>1. CASE c.prune
    <3>1. /\ IsRun(d) /\ d.step = "scan" /\ d.ver = c.ver /\ d.kind = c.kind /\ d.frozen = c.frozen
      BY <1>2, <2>1 DEF RunKnows, IsRun
    <3> HIDE DEF d, c
    <3>2. RunKnows(cmd[a])'
      BY <1>2, <1>3, <3>1 DEF RunKnows
    <3> QED BY <3>2 DEF Knows
  <2>2. CASE ~c.prune
    BY <1>3, <2>2 DEF Knows
  <2> QED BY <2>1, <2>2
<1> HIDE DEF c, d
<1> QED BY <1>1, <1>2, <1>3, <1>4, <1>5, <1>6, OneMoves

LEMMA ScanKnows ==
  ASSUME OneCommand, SInv, NEW a \in Actors, Scan(a)
  PROVE  SInv'
<1> DEFINE c == cmd[a]
           d == [c EXCEPT !.step = "prune", !.read = manifest, !.plan = <<>>,
                          !.obsolete = {}, !.todo = Obsolete(manifest, c.ver)]
<1>1. /\ c.step = "scan" /\ UNCHANGED <<disk, manifest, running, author, torn>>
      /\ cmd' = [cmd EXCEPT ![a] = d]
  BY DEF Scan, history
<1>2. RunKnows(c) /\ DOMAIN cmd = Actors
  BY <1>1, RunStep DEF SInv
<1>3. cmd'[a] = d
  BY <1>1, <1>2
<1>4. /\ IsRun(d) /\ d.step = "prune" /\ d.ver = c.ver /\ d.kind = c.kind /\ d.frozen = c.frozen
      /\ d.read = manifest /\ d.todo \subseteq Managed /\ d.obsolete = {}
  BY <1>2 DEF RunKnows, IsRun, Obsolete
<1> HIDE DEF c, d
<1>5. RunKnows(cmd[a])'
  BY <1>1, <1>2, <1>3, <1>4 DEF RunKnows
<1> QED BY <1>1, <1>5, OnlyCommandMoves DEF Knows

LEMMA PruneFileKnows ==
  ASSUME OneCommand, SInv, NEW a \in Actors, PruneFile(a)
  PROVE  SInv'
<1> DEFINE c == cmd[a]
<1>1. c.step = "prune" /\ UNCHANGED <<manifest, running, torn>>
  BY DEF PruneFile
<1>2. PICK p \in c.todo :
        LET go == Prunable(p, Base(c.read, p)) IN
        /\ IF go /\ disk[p] # None THEN Put(p, None, c.ver) ELSE UNCHANGED <<disk, author>>
        /\ cmd' = [cmd EXCEPT ![a].todo = @ \ {p},
                              ![a].obsolete = IF go THEN @ \cup {p} ELSE @]
  BY DEF PruneFile
<1> DEFINE go == Prunable(p, Base(c.read, p))
           gone == IF go THEN c.obsolete \cup {p} ELSE c.obsolete
<1>3. /\ RunKnows(c) /\ DOMAIN cmd = Actors /\ DOMAIN disk = Paths /\ DOMAIN author = Managed
      /\ Manifest
  BY <1>1, RunStep DEF SInv
<1>4. p \in Managed /\ Managed \subseteq Paths /\ c.obsolete \subseteq Managed
      /\ \A q \in c.obsolete : author[q] = Hand \/ disk[q] = None
  BY <1>1, <1>3 DEF RunKnows, Paths
<1>5. cmd'[a] = [c EXCEPT !.todo = @ \ {p}, !.obsolete = gone] /\ DOMAIN cmd' = Actors
  BY <1>2, <1>3
<1>6. /\ IsRun(cmd'[a]) /\ cmd'[a].step = "prune" /\ cmd'[a].ver = c.ver /\ cmd'[a].kind = c.kind
      /\ cmd'[a].frozen = c.frozen /\ cmd'[a].read = c.read
      /\ cmd'[a].todo = c.todo \ {p} /\ cmd'[a].obsolete = gone
  <2> HIDE DEF gone
  <2> QED BY <1>1, <1>3, <1>5 DEF RunKnows, IsRun
<1>7. /\ DOMAIN disk' = Paths /\ DOMAIN author' = Managed
      /\ \A q \in Managed : \/ disk'[q] = disk[q] /\ author'[q] = author[q]
                            \/ q = p /\ disk'[q] = None
      /\ go => disk'[p] = None
  <2>1. CASE go /\ disk[p] # None
    BY <1>2, <1>3, <1>4, <2>1 DEF Put
  <2>2. CASE ~(go /\ disk[p] # None)
    BY <1>2, <1>3, <2>2
  <2> QED BY <2>1, <2>2
<1> HIDE DEF c, go
<1>8. \A q \in Managed : Accounted(q)'
  <2>1. \A q \in Managed : Accounted(q)
    BY DEF SInv
  <2>2. \A q \in Managed : Base(manifest', q) = Base(manifest, q)
    BY <1>1
  <2> QED BY <1>1, <1>7, <2>1, <2>2 DEF Accounted, Traced
<1>9. gone \subseteq Managed /\ \A q \in gone : author'[q] = Hand \/ disk'[q] = None
  BY <1>4, <1>7
<1> HIDE DEF gone
<1>10. RunKnows(cmd[a])'
  BY <1>1, <1>3, <1>6, <1>9 DEF RunKnows
<1>11. Manifest'
  BY <1>1, <1>3 DEF Manifest, Records
<1> QED BY <1>1, <1>5, <1>7, <1>8, <1>10, <1>11, OneMoves DEF Knows

\* What is forgotten had no file, or its file is somebody's.
LEMMA PruneRecordKnows ==
  ASSUME OneCommand, SInv, NEW a \in Actors, PruneRecord(a)
  PROVE  SInv'
<1> DEFINE c == cmd[a]
<1>1. /\ c.step = "prune" /\ cmd' = [cmd EXCEPT ![a] = Idle]
      /\ manifest' = [c.read EXCEPT !.files = [p \in DOMAIN @ \ c.obsolete |-> @[p]]]
      /\ UNCHANGED <<disk, running, author, torn>>
  BY DEF PruneRecord, history
<1>2. /\ RunKnows(c) /\ DOMAIN cmd = Actors /\ DOMAIN disk = Paths /\ DOMAIN author = Managed
      /\ Manifest
  BY <1>1, RunStep DEF SInv
<1>3. c.read = manifest /\ \A q \in c.obsolete : author[q] = Hand \/ disk[q] = None
  BY <1>1, <1>2 DEF RunKnows
<1> HIDE DEF c
<1>4. /\ DOMAIN manifest' = DOMAIN manifest
      /\ manifest'.files = [p \in Records(manifest) \ c.obsolete |-> manifest.files[p]]
  BY <1>1, <1>2, <1>3 DEF Manifest, Records
<1>5. Manifest'
  BY <1>2, <1>4 DEF Manifest, Records
<1>6. ASSUME NEW q \in Managed PROVE Accounted(q)'
  <2>1. Accounted(q)
    BY DEF SInv
  <2>2. CASE q \in c.obsolete
    BY <1>1, <1>3, <2>2 DEF Accounted, Traced
  <2>3. CASE q \notin c.obsolete
    <3>1. Base(manifest', q) = Base(manifest, q)
      BY <1>4, <2>3 DEF Base, Records
    <3> QED BY <1>1, <2>1, <3>1 DEF Accounted, Traced
  <2> QED BY <2>2, <2>3
<1>7. cmd'[a] = Idle /\ DOMAIN cmd' = Actors
  BY <1>1, <1>2
<1> QED BY <1>1, <1>2, <1>5, <1>6, <1>7, OneMoves DEF Knows

LEMMA AcceptBeginKnows ==
  ASSUME OneCommand, SInv, NEW a \in Actors, NEW p \in Normative, NEW stamp \in BOOLEAN,
         Accept(a, p, stamp)
  PROVE  SInv'
<1> DEFINE t == IF stamp THEN Stamp[disk[p]] ELSE disk[p]
           c == [step |-> IF t = disk[p] THEN "accept" ELSE "stamp", kind |-> "accept",
                 ver |-> running, read |-> manifest, path |-> p, text |-> t]
<1>1. /\ cmd' = [cmd EXCEPT ![a] = c] /\ UNCHANGED <<disk, manifest, running, author, torn>>
      /\ p \in Records(manifest) /\ (t = disk[p] => Acceptable(t))
  BY DEF Accept, Begin, history
<1>2. DOMAIN cmd = Actors
  BY DEF SInv
<1> HIDE DEF t
<1>3. /\ IsAccept(c) /\ c.kind = "accept" /\ c.path = p /\ c.read = manifest /\ c.text = t
      /\ c.step = "accept" => t = disk[p]
  BY DEF IsAccept
<1> HIDE DEF c
<1>4. cmd'[a] = c
  BY <1>1, <1>2
<1>5. AcceptKnows(cmd[a])'
  BY <1>1, <1>3, <1>4 DEF AcceptKnows, Records
<1> QED BY <1>1, <1>5, OnlyCommandMoves DEF Knows

\* Writing a policy document leaves the managed files.
LEMMA AcceptStampKnows ==
  ASSUME OneCommand, SInv, NEW a \in Actors, AcceptStamp(a)
  PROVE  SInv'
<1> DEFINE c == cmd[a]
           d == IF Acceptable(c.text) THEN [c EXCEPT !.step = "accept"] ELSE Idle
<1>1. /\ c.step = "stamp" /\ UNCHANGED <<manifest, running, torn>> /\ cmd' = [cmd EXCEPT ![a] = d]
      /\ Put(c.path, c.text, Hand)
  BY DEF AcceptStamp
<1>2. /\ AcceptKnows(c) /\ DOMAIN cmd = Actors /\ DOMAIN disk = Paths /\ DOMAIN author = Managed
      /\ Manifest
  BY <1>1, AcceptStep DEF SInv
<1>3. c.path \notin Managed /\ c.path \in Paths /\ Managed \subseteq Paths
  BY <1>2, InstallationAssumption DEF AcceptKnows, Paths
<1>4. cmd'[a] = d /\ DOMAIN cmd' = Actors
  BY <1>1, <1>2
<1>5. Knows(a)'
  <2>1. CASE Acceptable(c.text)
    <3>1. /\ IsAccept(d) /\ d.step = "accept" /\ d.path = c.path /\ d.read = c.read
          /\ d.kind = c.kind /\ d.text = c.text
      BY <1>2, <2>1 DEF AcceptKnows, IsAccept
    <3>2. disk'[c.path] = c.text
      BY <1>1, <1>2, <1>3 DEF Put
    <3> HIDE DEF c, d
    <3>3. AcceptKnows(cmd[a])'
      BY <1>1, <1>2, <1>4, <2>1, <3>1, <3>2 DEF AcceptKnows, Records, Acceptable
    <3> QED BY <3>3 DEF Knows
  <2>2. CASE ~Acceptable(c.text)
    BY <1>4, <2>2 DEF Knows
  <2> QED BY <2>1, <2>2
<1> HIDE DEF c, d
<1>6. /\ DOMAIN disk' = Paths /\ DOMAIN author' = Managed
      /\ \A q \in Managed : disk'[q] = disk[q] /\ author'[q] = author[q]
  BY <1>1, <1>2, <1>3 DEF Put
<1>7. \A q \in Managed : Accounted(q)'
  <2>1. \A q \in Managed : Accounted(q) /\ Base(manifest', q) = Base(manifest, q)
    BY <1>1 DEF SInv
  <2> QED BY <1>1, <1>6, <2>1 DEF Accounted, Traced
<1>8. Manifest'
  BY <1>1, <1>2 DEF Manifest, Records
<1> QED BY <1>1, <1>4, <1>5, <1>6, <1>7, <1>8, OneMoves

\* An acceptance changes the base of its document, and nothing else.
LEMMA AcceptRecords ==
  ASSUME SInv, NEW a \in Actors, AcceptRecord(a)
  PROVE  /\ AcceptKnows(cmd[a]) /\ cmd[a].step = "accept" /\ Manifest'
         /\ Base(manifest', cmd[a].path) = disk[cmd[a].path]
         /\ \A q \in Paths \ {cmd[a].path} : Base(manifest', q) = Base(manifest, q)
<1> DEFINE c == cmd[a]
<1>1. /\ c.step = "accept"
      /\ manifest' = [c.read EXCEPT !.files[c.path].base = disk[c.path]]
  BY DEF AcceptRecord
<1>2. AcceptKnows(c) /\ Manifest
  BY <1>1, AcceptStep DEF SInv
<1>3. c.read = manifest /\ c.path \in Records(manifest)
  BY <1>2 DEF AcceptKnows
<1> HIDE DEF c
<1>4. /\ DOMAIN manifest' = DOMAIN manifest /\ DOMAIN manifest'.files = DOMAIN manifest.files
      /\ manifest'.files[c.path] = [manifest.files[c.path] EXCEPT !.base = disk[c.path]]
      /\ \A q \in Records(manifest) \ {c.path} : manifest'.files[q] = manifest.files[q]
  BY <1>1, <1>2, <1>3 DEF Manifest, Records
<1>5. /\ DOMAIN manifest'.files[c.path] = {"base", "authority"}
      /\ manifest'.files[c.path].base = disk[c.path]
  BY <1>2, <1>3, <1>4 DEF Manifest
<1>6. Manifest'
  BY <1>2, <1>4, <1>5 DEF Manifest, Records
<1>7. Base(manifest', c.path) = disk[c.path]
  BY <1>3, <1>4, <1>5 DEF Base, Records
<1>8. \A q \in Paths \ {c.path} : Base(manifest', q) = Base(manifest, q)
  BY <1>4 DEF Base, Records
<1> QED BY <1>1, <1>2, <1>6, <1>7, <1>8 DEF c

LEMMA AcceptRecordKnows ==
  ASSUME OneCommand, SInv, NEW a \in Actors, AcceptRecord(a)
  PROVE  SInv'
<1>1. cmd' = [cmd EXCEPT ![a] = Idle] /\ UNCHANGED <<disk, running, author, torn>>
  BY DEF AcceptRecord, history
<1>2. DOMAIN cmd = Actors /\ DOMAIN disk = Paths /\ DOMAIN author = Managed
  BY DEF SInv
<1>3. cmd[a].path \notin Managed /\ Managed \subseteq Paths
  BY AcceptRecords, InstallationAssumption DEF AcceptKnows, Paths
<1>4. ASSUME NEW q \in Managed PROVE Accounted(q)'
  <2>1. Accounted(q)
    BY DEF SInv
  <2>2. Base(manifest', q) = Base(manifest, q)
    BY <1>3, AcceptRecords
  <2> QED BY <1>1, <2>1, <2>2 DEF Accounted, Traced
<1>5. cmd'[a] = Idle /\ DOMAIN cmd' = Actors
  BY <1>1, <1>2
<1>6. Knows(a)'
  BY <1>5 DEF Knows
<1> QED BY <1>1, <1>2, <1>4, <1>5, <1>6, AcceptRecords, OneMoves

\* What people write is theirs.
LEMMA HandEditKnows ==
  ASSUME SInv, NEW p \in Paths, NEW t, HandEdit(p, t)
  PROVE  SInv'
<1>1. /\ DOMAIN disk = Paths /\ DOMAIN author = Managed /\ DOMAIN cmd = Actors
      /\ running \in Versions /\ Manifest /\ Managed \subseteq Paths
  BY DEF SInv, Paths
<1>2. UNCHANGED <<manifest, running, cmd, torn>>
  BY DEF HandEdit
<1>3. /\ DOMAIN disk' = Paths /\ DOMAIN author' = Managed
      /\ \A q \in Managed : author'[q] = Hand \/ (author'[q] = author[q] /\ disk'[q] = disk[q])
  BY <1>1 DEF HandEdit, Put
<1>4. \A q \in Managed : Accounted(q)' /\ (Traced(q) => Traced(q)')
  <2>1. \A q \in Managed : Accounted(q) /\ Base(manifest', q) = Base(manifest, q)
    BY <1>2 DEF SInv
  <2> QED BY <1>2, <1>3, <2>1 DEF Accounted, Traced
<1>5. ASSUME NEW b \in Actors PROVE Knows(b)'
  <2>1. Knows(b) /\ cmd'[b] = cmd[b]
    BY <1>2 DEF SInv
  <2>2. CASE cmd[b] = Idle
    BY <2>1, <2>2 DEF Knows
  <2>3. CASE RunKnows(cmd[b])
    <3> DEFINE c == cmd[b]
    <3>1. RunKnows(c) /\ cmd'[b] = c
      BY <2>1, <2>3
    <3> HIDE DEF c
    <3>2. c.step = "apply" =>
            \A q \in Managed \cap DOMAIN c.plan :
              /\ c.plan[q].outcome = "conflict" => Traced(q)'
              /\ c.kind = "migrate" /\ c.plan[q].outcome # "conflict" =>
                   author'[q] = Hand \/ q \in c.todo \/ disk'[q] = Rendered[c.ver][q]
      BY <1>3, <1>4, <3>1 DEF RunKnows
    <3>3. c.step = "prune" => \A q \in c.obsolete : author'[q] = Hand \/ disk'[q] = None
      BY <1>3, <3>1 DEF RunKnows
    <3>4. RunKnows(cmd[b])'
      BY <1>2, <3>1, <3>2, <3>3 DEF RunKnows, Obsolete, Records, Base
    <3> QED BY <3>4 DEF Knows
  <2>4. CASE AcceptKnows(cmd[b])
    <3>1. ~(cmd[b].step = "accept" /\ "accept" \notin EditSteps)
      BY DEF HandEdit, Editable
    <3>2. AcceptKnows(cmd[b])'
      BY <1>2, <2>4, <3>1 DEF AcceptKnows, Records
    <3> QED BY <3>2 DEF Knows
  <2> QED BY <2>1, <2>2, <2>3, <2>4 DEF Knows
<1>6. Manifest' /\ running' \in Versions /\ DOMAIN cmd' = Actors
  BY <1>1, <1>2 DEF Manifest, Records
<1> QED BY <1>3, <1>4, <1>5, <1>6 DEF SInv

-----------------------------------------------------------------------------
LEMMA InitSInv == Init => SInv
<1> SUFFICES ASSUME Init PROVE SInv
  OBVIOUS
<1>1. Manifest
  BY DEF Init, Manifest, NoManifest, Records
<1>2. \A p \in Managed : Accounted(p)
  BY DEF Init, Accounted, Traced
<1>3. \A a \in Actors : Knows(a)
  BY DEF Init, Knows
<1> QED BY <1>1, <1>2, <1>3 DEF Init, SInv

LEMMA StepKnows ==
  ASSUME OneCommand, SInv, NEW a \in Actors, Step(a)
  PROVE  SInv'
<1>1. ASSUME ForceRefused(a) \/ Stop(a) PROVE SInv'
  <2>1. cmd' = [cmd EXCEPT ![a] = Idle] /\ UNCHANGED <<disk, manifest, running, author, torn>>
    BY <1>1 DEF ForceRefused, Stop, history
  <2>2. cmd'[a] = Idle
    BY <2>1 DEF SInv
  <2>3. Knows(a)'
    BY <2>2 DEF Knows
  <2> QED BY <2>1, <2>3, OnlyCommandMoves
<1>2. ASSUME NEW u \in BOOLEAN, NEW d \in BOOLEAN, NEW f \in ForceLists, Migrate(a, u, f, d)
      PROVE  SInv'
  BY <1>2, MigrateKnows
<1>3. ASSUME NEW p \in Normative, NEW s \in BOOLEAN, Accept(a, p, s) PROVE SInv'
  BY <1>3, AcceptBeginKnows
<1>4. CASE Init_(a) \/ Write(a) \/ WriteForced(a) \/ Replan(a)
  BY <1>4, InitKnows, WriteKnows, WriteForcedKnows, ReplanKnows
<1>5. CASE Record(a) \/ Scan(a) \/ PruneFile(a) \/ PruneRecord(a)
  BY <1>5, RecordKnows, ScanKnows, PruneFileKnows, PruneRecordKnows
<1>6. CASE AcceptStamp(a) \/ AcceptRecord(a)
  BY <1>6, AcceptStampKnows, AcceptRecordKnows
<1> QED BY <1>1, <1>2, <1>3, <1>4, <1>5, <1>6 DEF Step

\* A step that leaves the files, the manifest and the commands.
LEMMA AsideKnows ==
  ASSUME SInv, UNCHANGED <<disk, manifest, cmd, author, torn>>, running' \in Versions
  PROVE  SInv'
<1>1. DOMAIN disk' = Paths /\ DOMAIN author' = Managed /\ DOMAIN cmd' = Actors
  BY DEF SInv
<1>2. Manifest' /\ \A p \in Managed : Accounted(p)'
  BY DEF SInv, Manifest, Records, Accounted, Traced, Base
<1>3. \A b \in Actors : Knows(b)'
  BY DEF SInv, Knows, RunKnows, AcceptKnows, Traced, Obsolete, Records, Base
<1> QED BY <1>1, <1>2, <1>3 DEF SInv

LEMMA NextSInv ==
  ASSUME OneCommand
  PROVE  SInv /\ [Next]_vars => SInv'
<1> SUFFICES ASSUME SInv, [Next]_vars PROVE SInv'
  OBVIOUS
<1>1. ASSUME NEW v \in Versions, Swap(v) PROVE SInv'
  BY <1>1, AsideKnows DEF Swap, history
<1>2. CASE UNCHANGED vars
  <2>1. UNCHANGED <<disk, manifest, cmd, author, torn>> /\ running' \in Versions
    BY <1>2 DEF vars, SInv
  <2> QED BY <2>1, AsideKnows
<1> QED BY <1>1, <1>2, StepKnows, HandEditKnows DEF Next

\* Only three steps write the manifest.
LEMMA WritesManifest ==
  ASSUME [Next]_vars, manifest' # manifest
  PROVE  \E a \in Actors : Record(a) \/ PruneRecord(a) \/ AcceptRecord(a)
<1>1. PICK a \in Actors : Step(a)
  BY DEF Next, Swap, HandEdit, vars
<1> QED BY <1>1 DEF Step, Init_, Migrate, Begin, Write, WriteForced, ForceRefused, Replan, Scan,
                    PruneFile, Accept, AcceptStamp, Stop

LEMMA PolicyMoves ==
  ASSUME "accept" \notin EditSteps, SInv, [Next]_vars, NEW p \in Normative,
         Base(manifest, p) # None, Base(manifest', p) # Base(manifest, p)
  PROVE  /\ Base(manifest', p) = disk[p] /\ disk[p] \in Stamped
         /\ \E a \in Actors : cmd[a].step = "accept"
<1>1. p \in Paths /\ p \notin Managed
  BY InstallationAssumption DEF Paths
<1>2. ASSUME NEW a \in Actors, Record(a) PROVE FALSE
  <2> DEFINE c == cmd[a]
  <2>1. c.step = "apply" /\ manifest' = NewManifest(c)
    BY <1>2 DEF Record
  <2>2. RunKnows(c)
    BY <2>1, RunStep
  <2>3. c.ver \in Versions /\ DOMAIN c.plan = Registry(c.ver) /\ c.obsolete \subseteq Managed
    BY <2>1, <2>2 DEF RunKnows, Obsolete
  <2>4. p \in DOMAIN c.plan /\ p \notin c.obsolete
    BY <1>1, <2>3, InstallationAssumption DEF Registry
  <2>5. c.plan[p].base = Base(manifest, p)
    BY <2>1, <2>2, <2>4 DEF RunKnows
  <2> HIDE DEF c
  <2>6. manifest'.files = NewFiles(c)
    BY <2>1 DEF NewManifest
  <2>7. p \in DOMAIN NewFiles(c) /\ NewFiles(c)[p].base = NewBase(c.plan, p)
    BY <2>4 DEF NewFiles
  <2>8. NewBase(c.plan, p) = Base(manifest, p)
    BY <2>5 DEF NewBase
  <2>9. Base(manifest', p) = Base(manifest, p)
    BY <2>6, <2>7, <2>8 DEF Base, Records
  <2> QED BY <2>9
<1>3. ASSUME NEW a \in Actors, PruneRecord(a) PROVE FALSE
  <2> DEFINE c == cmd[a]
  <2>1. /\ c.step = "prune"
        /\ manifest' = [c.read EXCEPT !.files = [q \in DOMAIN @ \ c.obsolete |-> @[q]]]
    BY <1>3 DEF PruneRecord
  <2>2. RunKnows(c) /\ Manifest
    BY <2>1, RunStep DEF SInv
  <2>3. c.read = manifest /\ p \notin c.obsolete
    BY <1>1, <2>1, <2>2 DEF RunKnows
  <2> HIDE DEF c
  <2>4. manifest'.files = [q \in Records(manifest) \ c.obsolete |-> manifest.files[q]]
    BY <2>1, <2>2, <2>3 DEF Manifest, Records
  <2>5. Base(manifest', p) = Base(manifest, p)
    BY <2>3, <2>4 DEF Base, Records
  <2> QED BY <2>5
<1>4. ASSUME NEW a \in Actors, AcceptRecord(a)
      PROVE  Base(manifest', p) = disk[p] /\ disk[p] \in Stamped /\ cmd[a].step = "accept"
  <2>1. cmd[a].path = p
    BY <1>1, <1>4, AcceptRecords
  <2>2. AcceptKnows(cmd[a]) /\ cmd[a].step = "accept" /\ Base(manifest', p) = disk[p]
    BY <1>4, <2>1, AcceptRecords
  <2>3. disk[p] \in Stamped
    BY <2>1, <2>2 DEF AcceptKnows, Acceptable
  <2> QED BY <2>2, <2>3
<1> QED BY <1>2, <1>3, <1>4, WritesManifest

\* A managed file that is in conflict was written by hand or is torn.
LEMMA ConflictTraced ==
  ASSUME SInv
  PROVE  ConflictMeansEdited
<1> SUFFICES ASSUME NEW p \in Managed \cap Registry(running),
                    Outcome("missing", manifest, p, running) = "conflict"
             PROVE  author[p] = Hand \/ p \in torn
  BY DEF ConflictMeansEdited
<1>1. Accounted(p)
  BY DEF SInv
<1>2. ManagedOutcome("missing", Base(manifest, p), p, running) = "conflict"
  BY InstallationAssumption DEF Outcome
<1> QED BY <1>1, <1>2 DEF ManagedOutcome, Accounted, Traced

\* The upgrade that ends: what it wrote is there, and what it recorded.
LEMMA UpgradeHealthy ==
  ASSUME SInv, NEW a \in Actors, Record(a), cmd[a].kind = "migrate",
         cmd[a].ver = running, Identity[running] # None,
         \A p \in Managed \cap Registry(running) : author[p] # Hand /\ p \notin torn',
         \A p \in Normative : disk[p] = Base(manifest', p) /\ disk[p] \in Stamped
  PROVE  Healthy(manifest', running)
<1> DEFINE c == cmd[a]
           m == manifest'
           v == running
<1>1. /\ c.step = "apply" /\ c.todo = {} /\ m = NewManifest(c)
      /\ torn' = {p \in torn : p \in DOMAIN c.plan => c.plan[p].outcome = "conflict"}
  BY DEF Record
<1>2. RunKnows(c) /\ v \in Versions
  BY <1>1, RunStep DEF SInv
<1>3. /\ ~c.frozen /\ DOMAIN c.plan = Registry(v) /\ c.obsolete = Obsolete(manifest, v)
  BY <1>1, <1>2 DEF RunKnows
<1>4. ASSUME NEW p \in Managed \cap Registry(v)
      PROVE  disk[p] = Rendered[v][p]
  <2>1. author[p] # Hand /\ p \notin torn'
    OBVIOUS
  <2>2. c.plan[p].outcome = "conflict" => p \in torn
    BY <1>1, <1>2, <1>3, <2>1 DEF RunKnows, Traced
  <2>3. c.plan[p].outcome # "conflict"
    BY <1>1, <2>1, <2>2
  <2> QED BY <1>1, <1>2, <1>3, <2>1, <2>3 DEF RunKnows
<1>5. m.files = NewFiles(c) /\ m.pin = Identity[v]
  BY <1>1, <1>3 DEF NewManifest
<1> HIDE DEF c, m
<1>6. m # NoManifest
  BY <1>5 DEF NoManifest
<1>7. PinState(m, v) = "pinned"
  BY <1>5, <1>6 DEF PinState
<1>8. ASSUME NEW p \in Managed \cap Registry(v)
      PROVE  Outcome("missing", m, p, v) = "unchanged"
  <2>1. disk[p] = Rendered[v][p] /\ disk[p] # None
    BY <1>4 DEF Registry
  <2>2. ManagedOutcome("missing", Base(m, p), p, v) = "unchanged"
    BY <2>1 DEF ManagedOutcome
  <2> QED BY <2>2, InstallationAssumption DEF Outcome
<1>9. ASSUME NEW p \in Normative
      PROVE  Outcome("missing", m, p, v) = "user-owned"
  <2>1. disk[p] = Base(m, p) /\ disk[p] # None
    BY InstallationAssumption DEF m
  <2>2. OwnedOutcome("missing", Base(m, p), p) = "user-owned"
    BY <2>1 DEF OwnedOutcome
  <2> QED BY <2>2, InstallationAssumption DEF Outcome
<1>10. AuthorityVerdict(m, v) # "drifted"
  <2>1. Skill \in Managed \cap Registry(v) /\ Skill \notin c.obsolete
    BY <1>2, <1>3, InstallationAssumption DEF Registry, Paths, Obsolete
  <2>2. /\ disk[Skill] = Rendered[v][Skill] /\ Outcome("missing", m, Skill, v) = "unchanged"
        /\ Region[disk[Skill]] # None
    BY <1>2, <1>4, <1>8, <2>1, InstallationAssumption
  <2>3. /\ Skill \in DOMAIN NewFiles(c)
        /\ NewFiles(c)[Skill].authority = AuthorityHash(c.ver, Skill)
    BY <1>3, <2>1 DEF NewFiles
  <2>4. Skill \in Records(m) /\ m.files[Skill].authority = Region[disk[Skill]]
    BY <1>5, <2>2, <2>3 DEF Records, AuthorityHash, c
  <2> QED BY <2>2, <2>4 DEF AuthorityVerdict
<1>11. OverallStatus(m, v) \notin {"conflict", "drifted"}
  BY <1>8, <1>9, <1>10 DEF OverallStatus
<1>12. Unfilled = {}
  BY DEF Unfilled
<1> QED BY <1>6, <1>7, <1>11, <1>12 DEF Healthy, m

-----------------------------------------------------------------------------
\* With one command at a time, stopping anywhere, whatever builds follow one
\* another and whenever people edit, even under a running command: a conflict
\* that `check` reports is an edit or an interrupted write, never something
\* that plan, record and prune made of a file between them.
THEOREM ConflictsAreEdits ==
  ASSUME OneCommand
  PROVE  Spec => []ConflictMeansEdited
<1>1. SInv /\ [Next]_vars => SInv'
  BY NextSInv
<1>2. SInv => ConflictMeansEdited
  BY ConflictTraced
<1> QED BY InitSInv, <1>1, <1>2, PTL DEF Spec

\* With one command at a time and nobody writing the document between its
\* validation and its hash: the base of a policy document moves only by
\* accept-policy, to the bytes on disk, which carry a well-formed version
\* line; init, migrate and --prune keep it whatever they do to the manifest.
THEOREM PolicyMovesAccepted ==
  ASSUME OneCommand, "accept" \notin EditSteps
  PROVE  Spec => PolicyMovesByAcceptance
<1>1. SInv /\ [Next]_vars => SInv'
  BY NextSInv
<1>2. SInv /\ [Next]_vars =>
        [\A p \in Normative :
           LET was == Base(manifest, p) is == Base(manifest', p) IN
           was # None /\ is # was =>
             /\ is = disk[p] /\ is \in Stamped
             /\ \E a \in Actors : cmd[a].step = "accept"]_vars
  BY PolicyMoves
<1> QED BY InitSInv, <1>1, <1>2, PTL DEF Spec, PolicyMovesByAcceptance

\* With one command at a time: an upgrade that ends with no edit and no
\* interrupted write standing, and the policy reviewed, leaves a workspace
\* doctor calls healthy (plan_install, apply_plan and inspect agree).
THEOREM UpgradesEndHealthy ==
  ASSUME OneCommand
  PROVE  Spec => UpgradeEndsHealthy
<1>1. SInv /\ [Next]_vars => SInv'
  BY NextSInv
<1>2. ASSUME SInv, [Next]_vars, NEW a \in Actors, manifest' # manifest, cmd[a].step = "apply",
             cmd'[a] = Idle, cmd[a].kind = "migrate", cmd[a].ver = running,
             Identity[running] # None,
             \A p \in Managed \cap Registry(running) : author[p] # Hand /\ p \notin torn',
             \A p \in Normative : disk[p] = Base(manifest', p) /\ disk[p] \in Stamped
      PROVE  Healthy(manifest', running)
  <2>1. PICK b \in Actors : Record(b) \/ PruneRecord(b) \/ AcceptRecord(b)
    BY <1>2, WritesManifest
  <2>2. b = a
    BY DEF OneCommand
  <2>3. Record(a)
    BY <1>2, <2>1, <2>2 DEF PruneRecord, AcceptRecord
  <2> QED BY <1>2, <2>3, UpgradeHealthy
<1>3. SInv /\ [Next]_vars =>
        [\A a \in Actors :
           /\ cmd[a] # Idle /\ cmd'[a] = Idle /\ manifest' # manifest
           /\ cmd[a].kind = "migrate" /\ cmd[a].step = "apply"
           /\ cmd[a].ver = running /\ Identity[running] # None
           /\ \A p \in Managed \cap Registry(running) : author[p] # Hand /\ p \notin torn'
           /\ \A p \in Normative : disk[p] = Base(manifest', p) /\ disk[p] \in Stamped
           => Healthy(manifest', running)]_vars
  BY <1>2
<1> QED BY InitSInv, <1>1, <1>3, PTL DEF Spec, UpgradeEndsHealthy
=============================================================================

-------------------------- MODULE WorkPackageProofs --------------------------
(***************************************************************************)
(* For any artifacts, plans and projects and any number of edits, wherever   *)
(* between the reads of a generation they fall: what a manifest took from an *)
(* accepted interaction is what was accepted, and what is derived from files *)
(* nobody edited meanwhile is what validate-work-package accepts.            *)
(*                                                                          *)
(* An edit may restore an earlier content, so neither hash of the receipts   *)
(* carries it alone.  A file nobody edited since the first hash was loaded   *)
(* as it was accepted; one nobody edited since the loading, and that has the *)
(* accepted content when it is hashed again, was loaded with it.  The        *)
(* invariant says both of the content a generation loaded, as long as it     *)
(* holds it; what escapes them is edited in both windows.                    *)
(*                                                                          *)
(* And, for any patterns: what an agent may write under a manifest it may    *)
(* write under the descriptor.  That rests on what the walks over patterns   *)
(* find: two patterns that read one path are found to overlap, and one that  *)
(* is found to be within another reads no path the other does not.  Each is  *)
(* shown from the readings themselves, by a least counterexample: the place  *)
(* nearest to the end at which the search is lost, or the first letter at    *)
(* which it has lost track of a reading.                                     *)
(***************************************************************************)
EXTENDS WorkPackage, TLAPS, FiniteSetTheorems, WellFoundedInduction

\* An interaction was read with the content its receipt states, but for one
\* edited since the first hashing which has another content to this day or
\* was edited again since it was loaded.
ReadAccepted(read) ==
  \A receipt \in project.receipts : \A i \in DOMAIN receipt \cap DOMAIN read.interactions :
    \/ read.interactions[i] = receipt[i]
    \/ i \in touched.hashed /\ (i \in touched.loaded \/ file[i] # receipt[i])

\* A generation holding what it loaded.
Loaded(step, plan, read, since) ==
  [step |-> step, plan |-> plan, read |-> read, since |-> since]
Read(boundaries, interactions, bridges) ==
  [boundaries |-> boundaries, interactions |-> interactions, bridges |-> bridges]

\* What m took from an accepted interaction is what was accepted.
Faithful(m) ==
  \A i \in (m.sources \cap DOMAIN m.artifacts) \ (touched.hashed \cap touched.loaded) :
    \A r \in m.artifacts[i].reliances :
      \A part \in {m.provided, m.required} :
        r.obligation \in DOMAIN part => part[r.obligation] = r.assurance

FilesInv ==
  /\ project \in Projects
  /\ DOMAIN file = DOMAIN project.files
  /\ edits \in 0..MaxEdits
  /\ touched = [hashed |-> touched.hashed, loaded |-> touched.loaded]

\* What was hashed and not edited since is what was accepted.
HashedInv ==
  job.step = "specs" =>
    \A receipt \in project.receipts : \A p \in DOMAIN receipt \ touched.hashed : file[p] = receipt[p]

LoadedInv ==
  job.step \in {"bridges", "derive"} =>
    \E plan, boundaries, interactions, bridges : \E since \in 0..edits :
      /\ job = Loaded(job.step, plan, Read(boundaries, interactions, bridges), since)
      /\ ReadAccepted(job.read)
      /\ since = edits => boundaries = Contents(Valid(Boundaries))

DerivedInv ==
  /\ job.step \in {"validate", "write"} => Faithful(job.manifest)
  /\ job.step = "validate" => job.since \in 0..edits

IInv == FilesInv /\ HashedInv /\ LoadedInv /\ DerivedInv /\ ContentIsAccepted /\ DerivedIsValid

-----------------------------------------------------------------------------
\* What an edit adds to the history, and what it leaves.
LEMMA EditTouches ==
  ASSUME FilesInv, NEW f, NEW content, Edit(f, content)
  PROVE  /\ touched' = [hashed |-> touched'.hashed, loaded |-> touched'.loaded]
         /\ touched.hashed \subseteq touched'.hashed /\ touched.loaded \subseteq touched'.loaded
         /\ job.step = "specs" => f \in touched'.hashed
         /\ job.step \in {"bridges", "derive"} => f \in touched'.loaded
         /\ job.step \notin {"specs", "bridges", "derive"} => touched' = touched
         /\ \A g \in DOMAIN file \ {f} : file'[g] = file[g]
<1>1. touched' = [w \in DOMAIN touched |-> IF w \in Window THEN touched[w] \cup {f} ELSE touched[w]]
  BY DEF Edit
<1>2. DOMAIN touched = {"hashed", "loaded"}
  BY DEF FilesInv
<1>3. /\ touched'.hashed = (IF "hashed" \in Window THEN touched.hashed \cup {f} ELSE touched.hashed)
      /\ touched'.loaded = (IF "loaded" \in Window THEN touched.loaded \cup {f} ELSE touched.loaded)
      /\ touched' = [hashed |-> touched'.hashed, loaded |-> touched'.loaded]
  BY <1>1, <1>2
<1>4. /\ job.step = "specs" => "hashed" \in Window
      /\ job.step \in {"bridges", "derive"} => "loaded" \in Window
      /\ job.step \notin {"specs", "bridges", "derive"} => Window = {}
  BY DEF Window
<1>5. job.step \notin {"specs", "bridges", "derive"} => touched' = touched
  BY <1>3, <1>4 DEF FilesInv
<1>6. \A g \in DOMAIN file \ {f} : file'[g] = file[g]
  BY DEF Edit
<1> QED BY <1>3, <1>4, <1>5, <1>6

LEMMA EditKeeps ==
  ASSUME FilesInv, NEW f, NEW content, Edit(f, content), job.step \in {"bridges", "derive"},
         NEW read, ReadAccepted(read)
  PROVE  ReadAccepted(read)'
<1>1. project' = project
  BY DEF Edit
<1> SUFFICES ASSUME NEW receipt \in project.receipts,
                    NEW i \in DOMAIN receipt \cap DOMAIN read.interactions,
                    read.interactions[i] # receipt[i]
             PROVE  i \in touched'.hashed /\ (i \in touched'.loaded \/ file'[i] # receipt[i])
  BY <1>1 DEF ReadAccepted
<1>2. i \in DOMAIN file
  BY ReceiptAssumption DEF FilesInv
<1>3. i \in touched.hashed /\ (i \in touched.loaded \/ file[i] # receipt[i])
  BY DEF ReadAccepted
<1> QED BY <1>2, <1>3, EditTouches

\* One obligation has one assurance: the one any reliance on it states.
LEMMA StatedOnce ==
  ASSUME NEW read, NEW o, Single(Stated(read, o)), NEW m \in Matching(read, o)
  PROVE  Assurance(read, o) = m[2].assurance
<1>1. PICK x \in Stated(read, o) : Stated(read, o) = {x}
  BY DEF Single
<1>2. m[2].assurance \in Stated(read, o)
  BY DEF Stated
<1>3. Assurance(read, o) \in Stated(read, o)
  BY <1>1 DEF Assurance
<1> QED BY <1>1, <1>2, <1>3

\* What is derived from accepted files that were read as they were accepted
\* is what was accepted.
LEMMA DerivedFaithful ==
  ASSUME NEW plan, NEW read, ReadAccepted(read), Derivable(plan, read)
  PROVE  Faithful(Derived(plan, read))
<1> DEFINE m == Derived(plan, read)
<1>1. PICK receipt \in project.receipts : m.artifacts = receipt
  BY DEF Derivable, Single, Derived
<1>2. Standing(receipt)
  BY DEF Derivable, ArtifactsHash
<1> SUFFICES ASSUME NEW i \in m.sources, i \in DOMAIN receipt,
                    i \notin touched.hashed \cap touched.loaded,
                    NEW r \in receipt[i].reliances,
                    NEW part \in {m.provided, m.required}, r.obligation \in DOMAIN part
             PROVE  part[r.obligation] = r.assurance
  BY <1>1 DEF Faithful
<1> DEFINE o == r.obligation
<1>3. o \in Range(plan.provides) \cup Range(plan.requires)
  BY DEF Derived
<1>4. part[o] = Assurance(read, o)
  BY DEF Derived
<1>5. Single(Stated(read, o))
  BY <1>3 DEF Derivable, ObligationsResolve, Needed, Resolves
<1>6. i \in DOMAIN read.interactions
  <2>1. \E p \in Needed(plan, read) : \E n \in Matching(read, p) : i = n[1]
    BY DEF Derived
  <2> QED BY <2>1 DEF Matching
<1>7. read.interactions[i] = receipt[i]
  BY <1>2, <1>6 DEF Standing, ReadAccepted
<1>8. <<i, r>> \in Matching(read, o)
  BY <1>6, <1>7 DEF Matching
<1> QED BY <1>4, <1>5, <1>8, StatedOnce

\* What is derived from files as they are has no finding but on mitigations.
LEMMA DerivedValid ==
  ASSUME NEW plan, NEW read, read.boundaries = Contents(Valid(Boundaries)), Derivable(plan, read)
  PROVE  Findings(Derived(plan, read)) \subseteq {"mitigation"}
<1> DEFINE m == Derived(plan, read)
<1>1. /\ m.allowed = Range(plan.allowed) /\ m.protected = Range(plan.protected)
      /\ m.runners = [r \in GateRunners |-> file[r]]
      /\ m.assumptions = Range(plan.assumptions)
  BY DEF Derived
<1>2. WritePolicyDerives(plan) /\ RunnersHash /\ AssumptionsResolve(plan, read)
  BY DEF Derivable
<1>3. WriteSetFindings(m) = {}
  BY <1>1, <1>2 DEF WriteSetFindings, WritePolicyDerives, Narrows
<1>4. IntegrityFindings(m) = {}
  BY <1>1, <1>2 DEF IntegrityFindings, RunnersHash
<1>5. RendererFindings(m) = {}
  BY <1>1, <1>2 DEF RendererFindings, WritePolicyDerives, GateRunners
<1>6. AssumptionFindings(m) = {}
  BY <1>1, <1>2 DEF AssumptionFindings, AssumptionsResolve
<1>7. MitigationFindings(m) \subseteq {"mitigation"}
  BY DEF MitigationFindings
<1> QED BY <1>3, <1>4, <1>5, <1>6, <1>7 DEF Findings

-----------------------------------------------------------------------------
LEMMA InitIInv == Init => IInv
<1> SUFFICES ASSUME Init PROVE IInv
  OBVIOUS
<1>1. FilesInv
  BY BoundAssumption DEF Init, FilesInv, Untouched
<1>2. job.step = "idle" /\ manifest = None
  BY DEF Init, Idle
<1> QED BY <1>1, <1>2 DEF IInv, HashedInv, LoadedInv, DerivedInv, ContentIsAccepted, DerivedIsValid

\* A step that leaves the files alone leaves what is said of them.
LEMMA StillFiles ==
  ASSUME IInv, UNCHANGED <<project, file, edits, touched>>
  PROVE  FilesInv'
  BY DEF IInv, FilesInv

\* Past the reads and before them nothing is claimed of what was read.
LEMMA NothingHeld ==
  ASSUME IInv, UNCHANGED <<project, file, edits, manifest, touched>>,
         job'.step \in {"idle", "receipts"}
  PROVE  IInv'
<1>1. FilesInv'
  BY StillFiles
<1> QED BY <1>1 DEF IInv, HashedInv, LoadedInv, DerivedInv, ContentIsAccepted, DerivedIsValid

LEMMA NextIInv == IInv /\ [Next]_vars => IInv'
<1> SUFFICES ASSUME IInv, [Next]_vars PROVE IInv'
  OBVIOUS
<1>1. ASSUME NEW plan \in Plans, GenStart(plan) PROVE IInv'
  <2>1. job'.step = "receipts" /\ manifest' = None
    BY <1>1 DEF GenStart
  <2>2. FilesInv'
    BY <1>1 DEF GenStart, IInv, FilesInv, Untouched
  <2> QED BY <2>1, <2>2 DEF IInv, HashedInv, LoadedInv, DerivedInv, ContentIsAccepted, DerivedIsValid
<1>2. ASSUME ReadReceipts PROVE IInv'
  <2>1. UNCHANGED <<project, file, edits, manifest, touched>>
    BY <1>2 DEF ReadReceipts
  <2>2. CASE job'.step = "idle"
    BY <2>1, <2>2, NothingHeld
  <2>3. CASE job'.step = "specs" /\ \A receipt \in project.receipts : Standing(receipt)
    <3>1. HashedInv'
      BY <2>1, <2>3 DEF HashedInv, Standing
    <3>2. FilesInv'
      BY <2>1, StillFiles
    <3> QED BY <2>1, <2>3, <3>1, <3>2 DEF IInv, LoadedInv, DerivedInv, ContentIsAccepted, DerivedIsValid
  <2>4. \/ job'.step = "idle"
        \/ job'.step = "specs" /\ \A receipt \in project.receipts : Standing(receipt)
    BY <1>2 DEF ReadReceipts, Pass, Idle
  <2> QED BY <2>2, <2>3, <2>4
<1>3. ASSUME LoadInteractions PROVE IInv'
  <2> DEFINE read == Read(Contents(Valid(Boundaries)), Contents(ValidInteractions), <<>>)
  <2>1. job' = Loaded("bridges", job.plan, read, edits)
    BY <1>3 DEF LoadInteractions, Loaded, Read
  <2>2. UNCHANGED <<project, file, edits, manifest, touched>>
    BY <1>3 DEF LoadInteractions
  <2>3. /\ job'.step = "bridges" /\ job'.read.boundaries = Contents(Valid(Boundaries))
        /\ job'.read.interactions = Contents(ValidInteractions)
    BY <2>1 DEF Loaded, Read
  <2>4. (ReadAccepted(job.read))'
    <3> SUFFICES ASSUME NEW receipt \in project.receipts,
                        NEW i \in DOMAIN receipt \cap ValidInteractions, file[i] # receipt[i]
                 PROVE  i \in touched.hashed
      BY <2>2, <2>3 DEF ReadAccepted, Contents
    <3> QED BY <1>3 DEF IInv, HashedInv, LoadInteractions
  <2>5. (Contents(Valid(Boundaries)))' = Contents(Valid(Boundaries))
    BY <2>2 DEF Contents, Valid
  <2>6. edits \in 0..edits
    BY BoundAssumption DEF IInv, FilesInv
  <2>7. LoadedInv'
    <3> HIDE DEF read
    <3>1. job' = Loaded("bridges", job.plan, Read(read.boundaries, read.interactions, read.bridges), edits)
      BY <2>1 DEF read, Read
    <3>2. read.boundaries = (Contents(Valid(Boundaries)))'
      BY <2>5 DEF read, Read
    <3> QED BY <2>2, <2>3, <2>4, <2>6, <3>1, <3>2 DEF LoadedInv
  <2>8. FilesInv'
    BY <2>2, StillFiles
  <2> QED BY <2>2, <2>3, <2>7, <2>8 DEF IInv, HashedInv, DerivedInv, ContentIsAccepted, DerivedIsValid
<1>4. ASSUME LoadBridges PROVE IInv'
  <2>1. PICK plan, boundaries, interactions, bridges : \E since \in 0..edits :
          /\ job = Loaded("bridges", plan, Read(boundaries, interactions, bridges), since)
          /\ ReadAccepted(job.read)
          /\ since = edits => boundaries = Contents(Valid(Boundaries))
    BY <1>4 DEF IInv, LoadedInv, LoadBridges
  <2>2. PICK since \in 0..edits :
          /\ job = Loaded("bridges", plan, Read(boundaries, interactions, bridges), since)
          /\ ReadAccepted(job.read)
          /\ since = edits => boundaries = Contents(Valid(Boundaries))
    BY <2>1
  <2> DEFINE read == Read(boundaries, interactions, Contents(Valid(Bridges)))
  <2>3. job' = Loaded("derive", plan, read, since)
    BY <1>4, <2>2 DEF LoadBridges, Loaded, Read
  <2>4. UNCHANGED <<project, file, edits, manifest, touched>>
    BY <1>4 DEF LoadBridges
  <2>5. job'.step = "derive" /\ job'.read.interactions = interactions /\ job.read.interactions = interactions
    BY <2>2, <2>3 DEF Loaded, Read
  <2>6. (ReadAccepted(job.read))'
    BY <2>2, <2>4, <2>5 DEF ReadAccepted
  <2>7. (Contents(Valid(Boundaries)))' = Contents(Valid(Boundaries))
    BY <2>4 DEF Contents, Valid
  <2>8. LoadedInv'
    <3> HIDE DEF read
    <3>1. PICK established : read = Read(boundaries, interactions, established)
      BY DEF read
    <3> QED BY <2>2, <2>3, <2>4, <2>5, <2>6, <2>7, <3>1 DEF LoadedInv
  <2>9. FilesInv'
    BY <2>4, StillFiles
  <2> QED BY <2>4, <2>5, <2>8, <2>9 DEF IInv, HashedInv, DerivedInv, ContentIsAccepted, DerivedIsValid
<1>5. ASSUME Derive PROVE IInv'
  <2>1. UNCHANGED <<project, file, edits, manifest, touched>>
    BY <1>5 DEF Derive
  <2>2. CASE ~Derivable(job.plan, job.read)
    BY <1>5, <2>1, <2>2, NothingHeld DEF Derive, Idle
  <2>3. CASE Derivable(job.plan, job.read)
    <3>1. /\ job'.step = "validate" /\ job'.since = job.since
          /\ job'.manifest = Derived(job.plan, job.read)
      BY <1>5, <2>3 DEF Derive
    <3>2. /\ ReadAccepted(job.read) /\ job.since \in 0..edits
          /\ job.since = edits => job.read.boundaries = Contents(Valid(Boundaries))
      BY <1>5 DEF IInv, LoadedInv, Derive, Loaded, Read
    <3>3. Faithful(job'.manifest)
      BY <2>3, <3>1, <3>2, DerivedFaithful
    <3>4. job'.since = edits => Findings(job'.manifest) \subseteq {"mitigation"}
      BY <2>3, <3>1, <3>2, DerivedValid
    <3>5. Findings(job.manifest)' = Findings(job'.manifest)
      BY <2>1 DEF Findings, WriteSetFindings, IntegrityFindings, RendererFindings,
                  AssumptionFindings, MitigationFindings, Contents, Valid
    <3>6. FilesInv'
      BY <2>1, StillFiles
    <3>7. DerivedInv' /\ DerivedIsValid'
      BY <2>1, <3>1, <3>2, <3>3, <3>4, <3>5 DEF DerivedInv, DerivedIsValid, Faithful
    <3> QED BY <2>1, <3>1, <3>6, <3>7 DEF IInv, HashedInv, LoadedInv, ContentIsAccepted
  <2> QED BY <2>2, <2>3
<1>6. ASSUME Validate PROVE IInv'
  <2>1. UNCHANGED <<project, file, edits, manifest, touched>>
    BY <1>6 DEF Validate
  <2>2. CASE job'.step = "idle"
    BY <2>1, <2>2, NothingHeld
  <2>3. CASE job'.step = "write" /\ job'.manifest = job.manifest
    <3>1. DerivedInv'
      BY <1>6, <2>3 DEF IInv, DerivedInv, Validate, Faithful
    <3>2. FilesInv'
      BY <2>1, StillFiles
    <3> QED BY <2>1, <2>3, <3>1, <3>2 DEF IInv, HashedInv, LoadedInv, ContentIsAccepted, DerivedIsValid
  <2>4. \/ job'.step = "idle"
        \/ job'.step = "write" /\ job'.manifest = job.manifest
    BY <1>6 DEF Validate, Pass, Idle
  <2> QED BY <2>2, <2>3, <2>4
<1>7. ASSUME Write PROVE IInv'
  <2>1. job'.step = "idle" /\ manifest' = job.manifest
    BY <1>7 DEF Write, Idle
  <2>2. ContentIsAccepted'
    BY <1>7, <2>1 DEF IInv, DerivedInv, Write, Faithful, ContentIsAccepted
  <2>3. FilesInv'
    BY <1>7, StillFiles DEF Write
  <2> QED BY <2>1, <2>2, <2>3 DEF IInv, HashedInv, LoadedInv, DerivedInv, DerivedIsValid
<1>8. ASSUME NEW e \in Editable, Edit(e[1], e[2]) PROVE IInv'
  <2> DEFINE f == e[1]
  <2>1. /\ touched' = [hashed |-> touched'.hashed, loaded |-> touched'.loaded]
        /\ touched.hashed \subseteq touched'.hashed /\ touched.loaded \subseteq touched'.loaded
        /\ job.step = "specs" => f \in touched'.hashed
        /\ job.step \notin {"specs", "bridges", "derive"} => touched' = touched
        /\ \A g \in DOMAIN file \ {f} : file'[g] = file[g]
    BY <1>8, EditTouches DEF IInv
  <2>2. /\ project' = project /\ job' = job /\ manifest' = manifest /\ manifest = None
        /\ edits' = edits + 1 /\ edits \in Nat
    BY <1>8, BoundAssumption DEF Edit, IInv, FilesInv
  <2>3. FilesInv'
    <3>1. DOMAIN file' = DOMAIN file /\ edits' \in 0..MaxEdits
      BY <1>8, BoundAssumption DEF IInv, FilesInv, Edit
    <3> QED BY <2>1, <2>2, <3>1 DEF IInv, FilesInv
  <2>4. HashedInv'
    <3> SUFFICES ASSUME job.step = "specs", NEW receipt \in project.receipts,
                        NEW p \in DOMAIN receipt \ touched'.hashed
                 PROVE  file'[p] = receipt[p]
      BY <2>2 DEF HashedInv
    <3>1. p \in DOMAIN file /\ p # f /\ p \notin touched.hashed
      BY <2>1, ReceiptAssumption DEF IInv, FilesInv
    <3> QED BY <2>1, <3>1 DEF IInv, HashedInv
  <2>5. ASSUME job.step \in {"bridges", "derive"} PROVE LoadedInv'
    <3>1. PICK plan, boundaries, interactions, bridges : \E since \in 0..edits :
            /\ job = Loaded(job.step, plan, Read(boundaries, interactions, bridges), since)
            /\ ReadAccepted(job.read)
      BY <2>5 DEF IInv, LoadedInv
    <3>2. ReadAccepted(job.read)'
      <4>1. \A read : ReadAccepted(read) => ReadAccepted(read)'
        BY <1>8, <2>5, EditKeeps DEF IInv
      <4> QED BY <2>2, <3>1, <4>1 DEF ReadAccepted
    <3>3. \A since \in 0..edits : since \in 0..edits' /\ since # edits'
      BY <2>2
    <3> QED BY <2>2, <3>1, <3>2, <3>3 DEF LoadedInv
  <2>6. LoadedInv'
    BY <2>2, <2>5 DEF LoadedInv
  <2>7. DerivedInv' /\ DerivedIsValid'
    BY <2>1, <2>2 DEF IInv, DerivedInv, DerivedIsValid, Faithful
  <2> QED BY <2>2, <2>3, <2>4, <2>6, <2>7 DEF IInv, ContentIsAccepted
<1>9. CASE UNCHANGED vars
  <2>1. project' = project /\ file' = file /\ job' = job /\ manifest' = manifest /\ edits' = edits /\ touched' = touched
    BY <1>9 DEF vars
  <2>2. FilesInv'
    BY <2>1, StillFiles
  <2>3. (Contents(Valid(Boundaries)))' = Contents(Valid(Boundaries))
    BY <2>1 DEF Contents, Valid
  <2>4. (ReadAccepted(job.read))' = ReadAccepted(job.read)
    BY <2>1 DEF ReadAccepted
  <2>5. LoadedInv'
    BY <2>1, <2>3, <2>4 DEF IInv, LoadedInv
  <2>6. DerivedInv' /\ ContentIsAccepted'
    BY <2>1 DEF IInv, DerivedInv, ContentIsAccepted, Faithful
  <2>9. HashedInv'
    BY <2>1 DEF IInv, HashedInv
  <2>7. Findings(job.manifest)' = Findings(job.manifest)
    BY <2>1 DEF Findings, WriteSetFindings, IntegrityFindings, RendererFindings,
                AssumptionFindings, MitigationFindings, Contents, Valid
  <2>8. DerivedIsValid'
    BY <2>1, <2>7 DEF IInv, DerivedIsValid
  <2> QED BY <2>1, <2>2, <2>5, <2>6, <2>8, <2>9 DEF IInv
<1> QED BY <1>1, <1>2, <1>3, <1>4, <1>5, <1>6, <1>7, <1>8, <1>9 DEF Next

\* However the edits of people fall between the hashing, the loading and the
\* second hashing of a generation (_load_authoritative_state,
\* _derive_artifact_set_hash), and whatever earlier content they restore, its
\* manifest states of an accepted interaction what the receipt accepted, but
\* for one changed before the loading and edited again after it.
THEOREM AcceptedContent == Spec => []ContentIsAccepted
<1>1. IInv => ContentIsAccepted
  BY DEF IInv
<1> QED BY InitIInv, NextIInv, <1>1, PTL DEF Spec

\* A manifest derived from files nobody edited meanwhile is refused by
\* validate-work-package for a witness mitigation or for nothing, whatever the
\* patterns, renderers and assumptions are.
THEOREM DerivedAgrees == Spec => []DerivedIsValid
<1>1. IInv => DerivedIsValid
  BY DEF IInv
<1> QED BY InitIInv, NextIInv, <1>1, PTL DEF Spec
-----------------------------------------------------------------------------
\* A set of numbers has a least one.
LEMMA LeastNumber ==
  ASSUME NEW T, T \subseteq Nat, T # {}
  PROVE  \E n \in T : \A k \in T : n <= k
<1>1. PICK n \in T : \A k \in T : ~(<<k, n>> \in OpToRel(<, Nat))
  BY NatLessThanWellFounded, WFMin
<1>2. ASSUME NEW k \in T PROVE n <= k
  <2>1. k \in Nat /\ n \in Nat
    OBVIOUS
  <2>2. ~(k < n)
    BY <1>1, <2>1 DEF OpToRel
  <2> QED BY <2>1, <2>2
<1> QED BY <1>2

(***************************************************************************)
(* A reading of a sequence of tokens: cut[k] letters are behind the first  *)
(* k of them, one for each token that is no star.                          *)
(***************************************************************************)
Cuts(cut, parts, star, n, len) ==
  /\ cut \in [0..n -> 0..len] /\ cut[0] = 0 /\ cut[n] = len
  /\ \A k \in 1..n : IF parts[k] = star THEN cut[k - 1] <= cut[k] ELSE cut[k] = cut[k - 1] + 1

\* More tokens, more letters.
LEMMA CutsGrow ==
  ASSUME NEW cut, NEW parts, NEW star, NEW n \in Nat, NEW len \in Nat,
         Cuts(cut, parts, star, n, len),
         NEW i \in 0..n, NEW j \in 0..n, i <= j
  PROVE  cut[i] <= cut[j]
<1> DEFINE T == {k \in i..n : cut[k] < cut[i]}
<1>1. SUFFICES ASSUME T # {} PROVE FALSE
  BY DEF Cuts
<1>2. PICK k \in T : \A l \in T : k <= l
  <2>1. T \subseteq Nat
    OBVIOUS
  <2> HIDE DEF T
  <2> QED BY <1>1, <2>1, LeastNumber
<1>3. k \in i..n /\ cut[k] < cut[i] /\ k # i
  BY <1>2 DEF Cuts
<1>4. k - 1 \in i..n /\ k - 1 \notin T /\ k \in 1..n
  BY <1>2, <1>3
<1>5. cut[i] <= cut[k - 1]
  BY <1>3, <1>4 DEF Cuts
<1>6. cut[k - 1] <= cut[k]
  <2>1. k - 1 \in 0..n /\ cut[k - 1] \in 0..len
    BY <1>4 DEF Cuts
  <2>2. cut[k - 1] <= cut[k] \/ cut[k] = cut[k - 1] + 1
    BY <1>4 DEF Cuts
  <2> QED BY <2>1, <2>2
<1> QED BY <1>3, <1>4, <1>5, <1>6 DEF Cuts

-----------------------------------------------------------------------------
(* Two languages that share a word: the search for a place where both      *)
(* patterns end finds one.                                                 *)

Grid(a, b) == (0..Len(a)) \X (0..Len(b))

\* What the search says of a place, by what it says of those behind it.
MeetStep(at, meets, a, b, star, compatible) ==
  LET i == at[1] j == at[2] IN
  \/ i = Len(a) /\ j = Len(b)
  \/ i < Len(a) /\ a[i + 1] = star /\ meets[<<i + 1, j>>]
  \/ j < Len(b) /\ b[j + 1] = star /\ meets[<<i, j + 1>>]
  \/ /\ i < Len(a) /\ j < Len(b)
     /\ ~(a[i + 1] = star /\ b[j + 1] = star)
     /\ <<i + 1, j + 1>> \in compatible
     /\ meets[<<IF a[i + 1] = star THEN i ELSE i + 1, IF b[j + 1] = star THEN j ELSE j + 1>>]

MeetsIs(meets, a, b, star, compatible) ==
  meets = [at \in (0..Len(a)) \X (0..Len(b)) |-> MeetStep(at, meets, a, b, star, compatible)]

\* The same, for a set of places.
Entered(at, X, a, b, star, compatible) ==
  \/ at[1] = Len(a) /\ at[2] = Len(b)
  \/ at[1] < Len(a) /\ a[at[1] + 1] = star /\ <<at[1] + 1, at[2]>> \in X
  \/ at[2] < Len(b) /\ b[at[2] + 1] = star /\ <<at[1], at[2] + 1>> \in X
  \/ /\ at[1] < Len(a) /\ at[2] < Len(b)
     /\ ~(a[at[1] + 1] = star /\ b[at[2] + 1] = star)
     /\ <<at[1] + 1, at[2] + 1>> \in compatible
     /\ <<IF a[at[1] + 1] = star THEN at[1] ELSE at[1] + 1,
          IF b[at[2] + 1] = star THEN at[2] ELSE at[2] + 1>> \in X

\* The search is well defined: it finds the least set that holds each place it
\* enters.
LEMMA MeetsExists ==
  ASSUME NEW a, NEW b, NEW star, NEW compatible, Len(a) \in Nat, Len(b) \in Nat
  PROVE  \E meets : MeetsIs(meets, a, b, star, compatible)
<1> DEFINE G == Grid(a, b)
           In(at, X) == Entered(at, X, a, b, star, compatible)
           Pre(X) == {at \in G : In(at, X)}
           W == {at \in G : \A X \in SUBSET G : Pre(X) \subseteq X => at \in X}
           meets == [at \in G |-> at \in W]
<1>1. ASSUME NEW X \in SUBSET G, NEW Y \in SUBSET G, X \subseteq Y, NEW at \in G, In(at, X)
      PROVE  In(at, Y)
  BY <1>1 DEF Entered
<1>2. W \in SUBSET G /\ Pre(W) \in SUBSET G
  OBVIOUS
<1>3. Pre(W) \subseteq W
  <2>1. SUFFICES ASSUME NEW at \in Pre(W), NEW X \in SUBSET G, Pre(X) \subseteq X
                 PROVE  at \in X
    OBVIOUS
  <2>2. W \subseteq X
    BY <2>1
  <2>3. In(at, X)
    BY <1>1, <1>2, <2>2
  <2> QED BY <2>1, <2>3
<1>4. W \subseteq Pre(W)
  <2>1. Pre(Pre(W)) \subseteq Pre(W)
    BY <1>1, <1>2, <1>3
  <2> HIDE DEF Pre
  <2> QED BY <1>2, <2>1
<1>5. \A at \in G : at \in W <=> In(at, W)
  BY <1>3, <1>4
<1> HIDE DEF W
<1>6. ASSUME NEW at \in G
      PROVE  MeetStep(at, meets, a, b, star, compatible) <=> In(at, W)
  <2>1. at[1] \in 0..Len(a) /\ at[2] \in 0..Len(b)
    BY DEF Grid
  <2>2. at[1] < Len(a) => <<at[1] + 1, at[2]>> \in G
    BY <2>1 DEF Grid
  <2>3. at[2] < Len(b) => <<at[1], at[2] + 1>> \in G
    BY <2>1 DEF Grid
  <2>4. at[1] < Len(a) /\ at[2] < Len(b) =>
          <<IF a[at[1] + 1] = star THEN at[1] ELSE at[1] + 1,
            IF b[at[2] + 1] = star THEN at[2] ELSE at[2] + 1>> \in G
    BY <2>1 DEF Grid
  <2>5. \A x \in G : meets[x] <=> x \in W
    OBVIOUS
  <2> HIDE DEF G, meets
  <2> QED BY <2>2, <2>3, <2>4, <2>5 DEF MeetStep, Entered
<1>7. meets = [at \in G |-> MeetStep(at, meets, a, b, star, compatible)]
  <2>1. \A at \in G : (at \in W) = MeetStep(at, meets, a, b, star, compatible)
    <3>1. \A at \in G : MeetStep(at, meets, a, b, star, compatible) \in BOOLEAN
      BY DEF MeetStep
    <3> HIDE DEF meets
    <3> QED BY <1>5, <1>6, <3>1
  <2> QED BY <2>1
<1> QED BY <1>7 DEF MeetsIs, Grid

\* p letters are read and i tokens are behind: the next one may be a star that
\* is still being read.
Reached(cut, parts, star, n, i, p) ==
  /\ i \in 0..n /\ cut[i] <= p
  /\ p = cut[i] \/ (i < n /\ parts[i + 1] = star /\ p <= cut[i + 1])

\* Two readings of a word by patterns whose tokens are compatible wherever they
\* read the same letter, or one of them is a star.
Agreeing(a, b, star, compatible, m, n, len, cutA, cutB) ==
  /\ m \in Nat /\ n \in Nat /\ len \in Nat /\ m = Len(a) /\ n = Len(b)
  /\ Cuts(cutA, a, star, m, len) /\ Cuts(cutB, b, star, n, len)
  /\ \A k \in 1..m, l \in 1..n :
       a[k] = star \/ b[l] = star \/ cutA[k] = cutB[l] => <<k, l>> \in compatible

\* A place both readings reach, from which the search finds nothing.
Stuck(meets, a, b, star, m, n, len, cutA, cutB, i, j, p) ==
  /\ i \in 0..m /\ j \in 0..n /\ p \in 0..len
  /\ Reached(cutA, a, star, m, i, p) /\ Reached(cutB, b, star, n, j, p)
  /\ ~meets[<<i, j>>]

\* Such a place further on.
StuckOn(meets, a, b, star, m, n, len, cutA, cutB, i, j, p) ==
  \E i2 \in 0..m, j2 \in 0..n, p2 \in 0..len :
    /\ Stuck(meets, a, b, star, m, n, len, cutA, cutB, i2, j2, p2)
    /\ (m - i2) + (n - j2) + (len - p2) < (m - i) + (n - j) + (len - p)

\* From a place both readings reach, the search goes on to another one, with
\* fewer tokens or letters before it.
LEMMA MeetsOn ==
  ASSUME NEW a, NEW b, NEW star, NEW compatible, NEW m, NEW n, NEW len, NEW cutA, NEW cutB,
         Agreeing(a, b, star, compatible, m, n, len, cutA, cutB),
         NEW meets, MeetsIs(meets, a, b, star, compatible),
         NEW i, NEW j, NEW p, Stuck(meets, a, b, star, m, n, len, cutA, cutB, i, j, p)
  PROVE  StuckOn(meets, a, b, star, m, n, len, cutA, cutB, i, j, p)
<1> SUFFICES ASSUME i \in 0..m, j \in 0..n, p \in 0..len,
                    Reached(cutA, a, star, m, i, p), Reached(cutB, b, star, n, j, p),
                    ~meets[<<i, j>>]
             PROVE  \E i2 \in 0..m, j2 \in 0..n, p2 \in 0..len :
                      /\ Reached(cutA, a, star, m, i2, p2) /\ Reached(cutB, b, star, n, j2, p2)
                      /\ ~meets[<<i2, j2>>]
                      /\ (m - i2) + (n - j2) + (len - p2) < (m - i) + (n - j) + (len - p)
  BY DEF Stuck, StuckOn
<1>0. /\ m \in Nat /\ n \in Nat /\ len \in Nat /\ m = Len(a) /\ n = Len(b)
      /\ Cuts(cutA, a, star, m, len) /\ Cuts(cutB, b, star, n, len)
      /\ \A k \in 1..m, l \in 1..n :
           a[k] = star \/ b[l] = star \/ cutA[k] = cutB[l] => <<k, l>> \in compatible
  BY DEF Agreeing
<1>9. m \in Nat /\ n \in Nat /\ len \in Nat
  BY DEF Agreeing
<1>1. <<i, j>> \in (0..m) \X (0..n) /\ <<i, j>>[1] = i /\ <<i, j>>[2] = j
  OBVIOUS
<1>2. ~MeetStep(<<i, j>>, meets, a, b, star, compatible)
  BY <1>0, <1>1 DEF MeetsIs
<1>3. /\ ~(i = m /\ j = n)
      /\ i < m /\ a[i + 1] = star => ~meets[<<i + 1, j>>]
      /\ j < n /\ b[j + 1] = star => ~meets[<<i, j + 1>>]
      /\ i < m /\ j < n /\ ~(a[i + 1] = star /\ b[j + 1] = star)
           /\ <<i + 1, j + 1>> \in compatible
           => ~meets[<<IF a[i + 1] = star THEN i ELSE i + 1, IF b[j + 1] = star THEN j ELSE j + 1>>]
  BY <1>0, <1>1, <1>2 DEF MeetStep
<1>4. /\ \A k \in 0..m : cutA[k] \in 0..len
      /\ \A k \in 0..n : cutB[k] \in 0..len
      /\ cutA[m] = len /\ cutB[n] = len
  BY <1>0 DEF Cuts
<1>5. /\ i < m => IF a[i + 1] = star THEN cutA[i] <= cutA[i + 1] ELSE cutA[i + 1] = cutA[i] + 1
      /\ j < n => IF b[j + 1] = star THEN cutB[j] <= cutB[j + 1] ELSE cutB[j + 1] = cutB[j] + 1
  BY <1>0 DEF Cuts
<1>6. CASE i < m /\ a[i + 1] = star /\ p = cutA[i + 1]
  <2>1. i + 1 \in 0..m /\ Reached(cutA, a, star, m, i + 1, p) /\ ~meets[<<i + 1, j>>]
    BY <1>0, <1>3, <1>4, <1>6 DEF Reached
  <2>2. (m - (i + 1)) + (n - j) + (len - p) < (m - i) + (n - j) + (len - p)
    BY <1>9
  <2> QED BY <2>1, <2>2
<1>7. CASE j < n /\ b[j + 1] = star /\ p = cutB[j + 1]
  <2>1. j + 1 \in 0..n /\ Reached(cutB, b, star, n, j + 1, p) /\ ~meets[<<i, j + 1>>]
    BY <1>0, <1>3, <1>4, <1>7 DEF Reached
  <2>2. (m - i) + (n - (j + 1)) + (len - p) < (m - i) + (n - j) + (len - p)
    BY <1>9
  <2> QED BY <2>1, <2>2
<1>8. CASE /\ ~(i < m /\ a[i + 1] = star /\ p = cutA[i + 1])
           /\ ~(j < n /\ b[j + 1] = star /\ p = cutB[j + 1])
  <2>1. i < m /\ j < n
    <3>1. CASE i = m
      <4>1. p = len /\ j < n
        BY <1>0, <1>3, <1>4, <3>1 DEF Reached
      <4>2. CASE b[j + 1] = star
        <5>1. cutB[j + 1] \in 0..len /\ p = cutB[j + 1]
          BY <1>0, <1>4, <1>5, <4>1, <4>2 DEF Reached
        <5> QED BY <1>8, <4>1, <4>2, <5>1
      <4>3. CASE b[j + 1] # star
        BY <1>0, <1>4, <1>5, <4>1, <4>3 DEF Reached
      <4> QED BY <4>2, <4>3
    <3>2. CASE j = n
      <4>1. p = len /\ i < m
        BY <1>0, <1>3, <1>4, <3>2 DEF Reached
      <4>2. CASE a[i + 1] = star
        <5>1. cutA[i + 1] \in 0..len /\ p = cutA[i + 1]
          BY <1>0, <1>4, <1>5, <4>1, <4>2 DEF Reached
        <5> QED BY <1>8, <4>1, <4>2, <5>1
      <4>3. CASE a[i + 1] # star
        BY <1>0, <1>4, <1>5, <4>1, <4>3 DEF Reached
      <4> QED BY <4>2, <4>3
    <3> QED BY <1>9, <3>1, <3>2
  <2>2. /\ i + 1 \in 0..m /\ j + 1 \in 0..n
        /\ cutA[i] \in 0..len /\ cutB[j] \in 0..len
        /\ cutA[i + 1] \in 0..len /\ cutB[j + 1] \in 0..len
    BY <1>0, <1>4, <2>1
  <2>3. /\ p < cutA[i + 1] /\ (a[i + 1] # star => p = cutA[i] /\ cutA[i + 1] = p + 1)
        /\ p < cutB[j + 1] /\ (b[j + 1] # star => p = cutB[j] /\ cutB[j + 1] = p + 1)
        /\ cutA[i] <= p /\ cutB[j] <= p
    <3>1. cutA[i] <= p /\ cutB[j] <= p
      BY <1>0 DEF Reached
    <3>2. p < cutA[i + 1] /\ (a[i + 1] # star => p = cutA[i] /\ cutA[i + 1] = p + 1)
      <4>1. CASE a[i + 1] = star
        BY <1>0, <1>5, <1>8, <2>1, <2>2, <4>1 DEF Reached
      <4>2. CASE a[i + 1] # star
        BY <1>0, <1>5, <2>1, <2>2, <4>2 DEF Reached
      <4> QED BY <4>1, <4>2
    <3>3. p < cutB[j + 1] /\ (b[j + 1] # star => p = cutB[j] /\ cutB[j + 1] = p + 1)
      <4>1. CASE b[j + 1] = star
        BY <1>0, <1>5, <1>8, <2>1, <2>2, <4>1 DEF Reached
      <4>2. CASE b[j + 1] # star
        BY <1>0, <1>5, <2>1, <2>2, <4>2 DEF Reached
      <4> QED BY <4>1, <4>2
    <3> QED BY <3>1, <3>2, <3>3
  <2>4. CASE a[i + 1] = star /\ b[j + 1] = star /\ cutA[i + 1] <= cutB[j + 1]
    <3>1. /\ Reached(cutA, a, star, m, i + 1, cutA[i + 1])
          /\ Reached(cutB, b, star, n, j, cutA[i + 1])
      BY <1>0, <2>1, <2>2, <2>3, <2>4 DEF Reached
    <3>2. (m - (i + 1)) + (n - j) + (len - cutA[i + 1]) < (m - i) + (n - j) + (len - p)
      BY <1>0, <2>2, <2>3
    <3> QED BY <1>3, <2>1, <2>2, <2>4, <3>1, <3>2
  <2>5. CASE a[i + 1] = star /\ b[j + 1] = star /\ cutB[j + 1] <= cutA[i + 1]
    <3>1. /\ Reached(cutB, b, star, n, j + 1, cutB[j + 1])
          /\ Reached(cutA, a, star, m, i, cutB[j + 1])
      BY <1>0, <2>1, <2>2, <2>3, <2>5 DEF Reached
    <3>2. (m - i) + (n - (j + 1)) + (len - cutB[j + 1]) < (m - i) + (n - j) + (len - p)
      BY <1>0, <2>2, <2>3
    <3> QED BY <1>3, <2>1, <2>2, <2>5, <3>1, <3>2
  <2>6. CASE ~(a[i + 1] = star /\ b[j + 1] = star)
    <3> DEFINE i2 == IF a[i + 1] = star THEN i ELSE i + 1
               j2 == IF b[j + 1] = star THEN j ELSE j + 1
    <3>1. i + 1 \in 1..m /\ j + 1 \in 1..n
      BY <1>0, <2>1
    <3>2. a[i + 1] = star \/ b[j + 1] = star \/ cutA[i + 1] = cutB[j + 1]
      BY <1>0, <2>3
    <3>3. <<i + 1, j + 1>> \in compatible
      BY <1>0, <3>1, <3>2
    <3>4. ~meets[<<i2, j2>>]
      BY <1>0, <1>3, <2>1, <2>6, <3>3
    <3>5. i2 \in 0..m /\ j2 \in 0..n /\ p + 1 \in 0..len /\ i <= i2 /\ j <= j2
      BY <1>0, <2>1, <2>2, <2>3
    <3>6. Reached(cutA, a, star, m, i2, p + 1)
      BY <1>0, <2>1, <2>2, <2>3 DEF Reached
    <3>7. Reached(cutB, b, star, n, j2, p + 1)
      BY <1>0, <2>1, <2>2, <2>3 DEF Reached
    <3> HIDE DEF i2, j2
    <3>8. (m - i2) + (n - j2) + (len - (p + 1)) < (m - i) + (n - j) + (len - p)
      BY <1>9, <3>5
    <3> QED BY <3>4, <3>5, <3>6, <3>7, <3>8
  <2>7. cutA[i + 1] <= cutB[j + 1] \/ cutB[j + 1] <= cutA[i + 1]
    BY <1>0, <2>2
  <2> QED BY <2>4, <2>5, <2>6, <2>7
<1> QED BY <1>6, <1>7, <1>8

\* Two patterns that both read a word are found to meet.
LEMMA MeetsFound ==
  ASSUME NEW a, NEW b, NEW star, NEW compatible, NEW m, NEW n, NEW len, NEW cutA, NEW cutB,
         Agreeing(a, b, star, compatible, m, n, len, cutA, cutB)
  PROVE  LanguagesMeet(a, b, star, compatible)
<1> DEFINE meets == CHOOSE f : MeetsIs(f, a, b, star, compatible)
<1>0. m \in Nat /\ n \in Nat /\ len \in Nat /\ m = Len(a) /\ n = Len(b)
  BY DEF Agreeing
<1>1. MeetsIs(meets, a, b, star, compatible)
  BY <1>0, MeetsExists
<1>2. LanguagesMeet(a, b, star, compatible) = meets[<<0, 0>>]
  BY DEF LanguagesMeet, MeetsIs, MeetStep
<1> HIDE DEF meets
<1> DEFINE Lost(i, j, p) == Stuck(meets, a, b, star, m, n, len, cutA, cutB, i, j, p)
           T == {r \in Nat : \E i \in 0..m, j \in 0..n, p \in 0..len :
                               Lost(i, j, p) /\ r = (m - i) + (n - j) + (len - p)}
<1>3. ASSUME NEW i \in 0..m, NEW j \in 0..n, NEW p \in 0..len, Lost(i, j, p)
      PROVE  (m - i) + (n - j) + (len - p) \in T
  <2>1. (m - i) + (n - j) + (len - p) \in Nat
    BY <1>0
  <2> HIDE DEF Lost
  <2> QED BY <1>3, <2>1
<1>4. T = {}
  <2>1. SUFFICES ASSUME T # {} PROVE FALSE
    OBVIOUS
  <2>2. PICK r \in T : \A q \in T : r <= q
    <3>1. T \subseteq Nat
      OBVIOUS
    <3> HIDE DEF T
    <3> QED BY <2>1, <3>1, LeastNumber
  <2>3. PICK i \in 0..m, j \in 0..n, p \in 0..len :
          Lost(i, j, p) /\ r = (m - i) + (n - j) + (len - p)
    BY <2>2
  <2>5. StuckOn(meets, a, b, star, m, n, len, cutA, cutB, i, j, p)
    BY <1>1, <2>3, MeetsOn
  <2> HIDE DEF T
  <2>6. PICK i2 \in 0..m, j2 \in 0..n, p2 \in 0..len :
          /\ Lost(i2, j2, p2)
          /\ (m - i2) + (n - j2) + (len - p2) < (m - i) + (n - j) + (len - p)
    BY <2>5 DEF StuckOn
  <2> HIDE DEF Lost
  <2>7. (m - i2) + (n - j2) + (len - p2) \in T
    BY <1>3, <2>6
  <2> QED BY <1>0, <2>2, <2>3, <2>6, <2>7
<1>5. meets[<<0, 0>>]
  <2>1. cutA[0] = 0 /\ cutB[0] = 0
    BY DEF Agreeing, Cuts
  <2>2. Reached(cutA, a, star, m, 0, 0) /\ Reached(cutB, b, star, n, 0, 0)
    BY <1>0, <2>1 DEF Reached
  <2>3. ~meets[<<0, 0>>] => Lost(0, 0, 0)
    BY <1>0, <2>2 DEF Stuck
  <2> HIDE DEF T, Lost
  <2> QED BY <1>0, <1>3, <1>4, <2>3
<1> QED BY <1>2, <1>5

-----------------------------------------------------------------------------
(* The segments of a pattern.                                              *)

NamedIs(read, pattern, n) ==
  read = [k \in 0..n |->
            IF k = 0 THEN <<>>
            ELSE IF pattern[k] = <<>> THEN read[k - 1] ELSE Append(read[k - 1], pattern[k])]

LEMMA NamedExists ==
  ASSUME NEW pattern, NEW n \in Nat
  PROVE  \E read : NamedIs(read, pattern, n)
<1> DEFINE T == {k \in Nat : ~\E read : NamedIs(read, pattern, k)}
<1>1. SUFFICES ASSUME T # {} PROVE FALSE
  OBVIOUS
<1>2. PICK k \in T : \A l \in T : k <= l
  <2>1. T \subseteq Nat
    OBVIOUS
  <2> HIDE DEF T
  <2> QED BY <1>1, <2>1, LeastNumber
<1>3. k # 0
  <2> DEFINE read == [i \in 0..0 |-> <<>>]
  <2>1. NamedIs(read, pattern, 0)
    BY DEF NamedIs
  <2> QED BY <1>2, <2>1
<1>4. PICK before : NamedIs(before, pattern, k - 1)
  <2>1. k - 1 \in Nat /\ ~(k <= k - 1)
    BY <1>3
  <2>2. k - 1 \notin T
    BY <1>2, <2>1
  <2> QED BY <2>1, <2>2
<1> DEFINE next == IF pattern[k] = <<>> THEN before[k - 1] ELSE Append(before[k - 1], pattern[k])
           read == [i \in 0..k |-> IF i = k THEN next ELSE before[i]]
           Step(f, i) == IF i = 0 THEN <<>>
                         ELSE IF pattern[i] = <<>> THEN f[i - 1] ELSE Append(f[i - 1], pattern[i])
<1>5. k \in Nat
  OBVIOUS
<1>6. ASSUME NEW i \in 0..k PROVE read[i] = Step(read, i)
  <2>1. CASE i = k
    <3>1. k - 1 \in 0..k /\ k - 1 # k /\ k \in 0..k
      BY <1>3, <1>5
    <3>2. read[k - 1] = before[k - 1]
      BY <3>1
    <3>3. read[k] = next
      BY <3>1
    <3> HIDE DEF read
    <3> QED BY <1>3, <2>1, <3>2, <3>3
  <2>2. CASE i # k
    <3>1. i \in 0..(k - 1) /\ (i # 0 => i - 1 \in 0..k /\ i - 1 # k)
      BY <1>3, <1>5, <2>2
    <3>2. read[i] = before[i] /\ (i # 0 => read[i - 1] = before[i - 1])
      BY <2>2, <3>1
    <3>3. before[i] = Step(before, i)
      BY <1>4, <3>1 DEF NamedIs
    <3> HIDE DEF read
    <3> QED BY <3>2, <3>3
  <2> QED BY <2>1, <2>2
<1>7. read = [i \in 0..k |-> Step(read, i)]
  <2>1. read = [i \in 0..k |-> read[i]]
    OBVIOUS
  <2> HIDE DEF read, Step
  <2> QED BY <1>6, <2>1
<1>8. NamedIs(read, pattern, k)
  BY <1>7 DEF NamedIs
<1> QED BY <1>2, <1>8

LEMMA NamedTyped ==
  ASSUME NEW S, NEW pattern \in Seq(S)
  PROVE  Named(pattern) \in Seq(S)
<1> DEFINE n == Len(pattern)
           read == CHOOSE f : NamedIs(f, pattern, n)
<1>1. n \in Nat /\ \A k \in 1..n : pattern[k] \in S
  OBVIOUS
<1>2. Named(pattern) = read[n]
  BY DEF Named, NamedIs
<1>3. NamedIs(read, pattern, n)
  BY <1>1, NamedExists
<1> HIDE DEF read, n
<1> DEFINE T == {k \in 0..n : read[k] \notin Seq(S)}
<1>4. SUFFICES ASSUME T # {} PROVE FALSE
  BY <1>1, <1>2
<1>5. PICK k \in T : \A l \in T : k <= l
  <2>1. T \subseteq Nat
    BY <1>1
  <2> HIDE DEF T
  <2> QED BY <1>4, <2>1, LeastNumber
<1>6. k \in 0..n /\ read[k] \notin Seq(S)
  OBVIOUS
<1>7. read[k] = IF k = 0 THEN <<>>
                ELSE IF pattern[k] = <<>> THEN read[k - 1] ELSE Append(read[k - 1], pattern[k])
  BY <1>3, <1>6 DEF NamedIs
<1>8. k # 0
  BY <1>6, <1>7
<1>9. k - 1 \in 0..n /\ k \in 1..n /\ ~(k <= k - 1)
  BY <1>1, <1>6, <1>8
<1>10. read[k - 1] \in Seq(S)
  BY <1>5, <1>9
<1> HIDE DEF T
<1> QED BY <1>1, <1>6, <1>7, <1>8, <1>9, <1>10

LEMMA SegmentsTyped ==
  ASSUME NEW S, NEW pattern \in Seq(S), Stars \in S
  PROVE  Segments(pattern) \in Seq(S)
<1>1. Named(pattern) \in Seq(S)
  BY NamedTyped
<1>2. (IF Len(pattern) > 1 /\ Last(pattern) = <<>> THEN <<Stars>> ELSE <<>>) \in Seq(S)
  OBVIOUS
<1> QED BY <1>1, <1>2 DEF Segments

-----------------------------------------------------------------------------
(* Patterns that share a path overlap.                                     *)

\* A reading of the letters of a name, and of the names of a path.
Reading(cut, s, w) ==
  /\ Cuts(cut, s, "*", Len(s), Len(w))
  /\ \A k \in 1..Len(s) : s[k] # "*" => s[k] \in {"?", w[cut[k]]}
PathReading(cut, a, path) ==
  /\ Cuts(cut, a, Stars, Len(a), Len(path))
  /\ \A k \in 1..Len(a) : a[k] # Stars => SegmentMatches(a[k], path[cut[k]])

LEMMA SegmentRead ==
  ASSUME NEW S, NEW s \in Seq(S), NEW w
  PROVE  SegmentMatches(s, w) <=> \E cut : Reading(cut, s, w)
<1>1. DOMAIN s = 1..Len(s)
  OBVIOUS
<1> QED BY <1>1 DEF SegmentMatches, Reads, Reading, Cuts

LEMMA PatternRead ==
  ASSUME NEW S, "*" \in S, NEW p \in Seq(Seq(S)), NEW w
  PROVE  /\ Segments(p) \in Seq(Seq(S))
         /\ Matches(p, w) <=> \E cut : PathReading(cut, Segments(p), w)
<1> DEFINE a == Segments(p)
<1>1. a \in Seq(Seq(S))
  <2>1. Stars \in Seq(S)
    BY DEF Stars
  <2> QED BY <2>1, SegmentsTyped
<1>2. Matches(p, w) <=>
        \E cut \in [0..Len(a) -> 0..Len(w)] :
          /\ cut[0] = 0 /\ cut[Len(a)] = Len(w)
          /\ \A k \in DOMAIN a :
               IF a[k] = Stars THEN cut[k - 1] <= cut[k]
               ELSE cut[k] = cut[k - 1] + 1 /\ SegmentMatches(a[k], w[cut[k]])
  BY DEF Matches, Reads
<1> HIDE DEF a
<1>3. DOMAIN a = 1..Len(a)
  BY <1>1
<1>4. Matches(p, w) <=> \E cut : PathReading(cut, a, w)
  BY <1>2, <1>3 DEF PathReading, Cuts
<1> QED BY <1>1, <1>4 DEF a

LEMMA SegmentsMeet ==
  ASSUME NEW S, NEW W, NEW s \in Seq(S), NEW t \in Seq(S), NEW w \in Seq(W),
         SegmentMatches(s, w), SegmentMatches(t, w)
  PROVE  SegmentsOverlap(s, t)
<1> DEFINE compatible ==
      {k \in (DOMAIN s) \X (DOMAIN t) : {s[k[1]], t[k[2]]} \cap Wild # {} \/ s[k[1]] = t[k[2]]}
<1> PICK cutA : Reading(cutA, s, w)
  BY SegmentRead
<1> PICK cutB : Reading(cutB, t, w)
  BY SegmentRead
<1>1. /\ Cuts(cutA, s, "*", Len(s), Len(w))
      /\ \A k \in 1..Len(s) : s[k] # "*" => s[k] \in {"?", w[cutA[k]]}
  BY DEF Reading
<1>2. /\ Cuts(cutB, t, "*", Len(t), Len(w))
      /\ \A k \in 1..Len(t) : t[k] # "*" => t[k] \in {"?", w[cutB[k]]}
  BY DEF Reading
<1>3. ASSUME NEW k \in 1..Len(s), NEW l \in 1..Len(t),
             s[k] = "*" \/ t[l] = "*" \/ cutA[k] = cutB[l]
      PROVE  <<k, l>> \in compatible
  <2>1. <<k, l>> \in (DOMAIN s) \X (DOMAIN t) /\ <<k, l>>[1] = k /\ <<k, l>>[2] = l
    OBVIOUS
  <2>2. {s[k], t[l]} \cap Wild # {} \/ s[k] = t[l]
    BY <1>1, <1>2, <1>3 DEF Wild
  <2> QED BY <2>1, <2>2
<1> HIDE DEF compatible
<1>4. Agreeing(s, t, "*", compatible, Len(s), Len(t), Len(w), cutA, cutB)
  <2>1. Len(s) \in Nat /\ Len(t) \in Nat /\ Len(w) \in Nat
    OBVIOUS
  <2> QED BY <1>1, <1>2, <1>3, <2>1 DEF Agreeing
<1>5. LanguagesMeet(s, t, "*", compatible)
  BY <1>4, MeetsFound
<1> QED BY <1>5 DEF SegmentsOverlap, compatible

\* Two patterns a path matches are found to overlap.
LEMMA OverlapFound ==
  ASSUME NEW S, NEW W, NEW p \in Seq(Seq(S)), NEW q \in Seq(Seq(S)), NEW path \in Seq(Seq(W)),
         "*" \in S, Matches(p, path), Matches(q, path)
  PROVE  CanOverlap(p, q)
<1> DEFINE a == Segments(p)
           b == Segments(q)
           compatible == {k \in (DOMAIN a) \X (DOMAIN b) :
             Stars \in {a[k[1]], b[k[2]]} \/ SegmentsOverlap(a[k[1]], b[k[2]])}
<1>0. a \in Seq(Seq(S)) /\ b \in Seq(Seq(S))
  BY PatternRead
<1> PICK cutA : PathReading(cutA, a, path)
  BY PatternRead
<1> PICK cutB : PathReading(cutB, b, path)
  BY PatternRead
<1>1. /\ Cuts(cutA, a, Stars, Len(a), Len(path))
      /\ \A k \in 1..Len(a) : a[k] # Stars => SegmentMatches(a[k], path[cutA[k]])
  BY DEF PathReading
<1>2. /\ Cuts(cutB, b, Stars, Len(b), Len(path))
      /\ \A k \in 1..Len(b) : b[k] # Stars => SegmentMatches(b[k], path[cutB[k]])
  BY DEF PathReading
<1> HIDE DEF a, b
<1>3. ASSUME NEW k \in 1..Len(a), NEW l \in 1..Len(b),
             a[k] = Stars \/ b[l] = Stars \/ cutA[k] = cutB[l]
      PROVE  <<k, l>> \in compatible
  <2>1. <<k, l>> \in (DOMAIN a) \X (DOMAIN b) /\ <<k, l>>[1] = k /\ <<k, l>>[2] = l
    BY <1>0
  <2>2. CASE a[k] # Stars /\ b[l] # Stars
    <3>1. SegmentMatches(a[k], path[cutA[k]]) /\ SegmentMatches(b[l], path[cutA[k]])
      BY <1>1, <1>2, <1>3, <2>2
    <3>2. a[k] \in Seq(S) /\ b[l] \in Seq(S)
      BY <1>0
    <3>3. path[cutA[k]] \in Seq(W)
      <4>1. /\ Len(a) \in Nat /\ Len(path) \in Nat /\ k \in 0..Len(a) /\ k - 1 \in 0..Len(a)
        BY <1>0
      <4>2. cutA[k] \in 0..Len(path) /\ cutA[k - 1] \in 0..Len(path) /\ cutA[k] = cutA[k - 1] + 1
        BY <1>1, <2>2, <4>1 DEF Cuts
      <4>3. cutA[k] \in 1..Len(path)
        BY <4>1, <4>2
      <4> QED BY <4>3
    <3>4. SegmentsOverlap(a[k], b[l])
      BY <3>1, <3>2, <3>3, SegmentsMeet
    <3> QED BY <2>1, <3>4
  <2>3. CASE a[k] = Stars \/ b[l] = Stars
    BY <2>1, <2>3
  <2> QED BY <2>2, <2>3
<1> HIDE DEF compatible
<1>4. Agreeing(a, b, Stars, compatible, Len(a), Len(b), Len(path), cutA, cutB)
  <2>1. Len(a) \in Nat /\ Len(b) \in Nat /\ Len(path) \in Nat
    BY <1>0
  <2> QED BY <1>1, <1>2, <1>3, <2>1 DEF Agreeing
<1>5. LanguagesMeet(a, b, Stars, compatible)
  BY <1>4, MeetsFound
<1> QED BY <1>5 DEF CanOverlap, compatible, a, b

-----------------------------------------------------------------------------
(* Containment of segments: the pairs of position sets that are searched.  *)

Pairs(s, t) == (SUBSET (0..Len(s))) \X (SUBSET (0..Len(t)))
Steps(s, t, letters, reached) ==
  {<<Advance(s, pair[1], c), Advance(t, pair[2], c)>> : pair \in reached, c \in letters}
More(s, t, letters, reached) == {pair \in Steps(s, t, letters, reached) : pair[1] # {}} \ reached
GrownIs(grown, s, t, letters) ==
  grown = [reached \in SUBSET Pairs(s, t) |->
             IF More(s, t, letters, reached) = {} THEN reached
             ELSE grown[reached \cup More(s, t, letters, reached)]]

LEMMA AdvanceWithin ==
  ASSUME NEW s, Len(s) \in Nat, NEW X \in SUBSET (0..Len(s)), NEW c
  PROVE  Closure(s, X) \in SUBSET (0..Len(s)) /\ Advance(s, X, c) \in SUBSET (0..Len(s))
<1> DEFINE P == 0..Len(s)
<1>1. \A p \in P : p \in Nat /\ (p < Len(s) => p + 1 \in P)
  OBVIOUS
<1>2. 1..Len(s) \subseteq P
  OBVIOUS
<1> HIDE DEF P
<1>3. ASSUME NEW Y \in SUBSET P PROVE Closure(s, Y) \in SUBSET P
  BY <1>2 DEF Closure
<1>4. {p \in X : p < Len(s) /\ s[p + 1] = "*"}
        \cup {p + 1 : p \in {q \in X : q < Len(s) /\ s[q + 1] \in {"?", c}}} \in SUBSET P
  BY <1>1 DEF P
<1> QED BY <1>3, <1>4 DEF Advance, P

LEMMA MoreWithin ==
  ASSUME NEW s, NEW t, Len(s) \in Nat, Len(t) \in Nat, NEW letters, NEW r \in SUBSET Pairs(s, t)
  PROVE  More(s, t, letters, r) \in SUBSET Pairs(s, t)
<1>1. ASSUME NEW pair \in r, NEW c \in letters
      PROVE  <<Advance(s, pair[1], c), Advance(t, pair[2], c)>> \in Pairs(s, t)
  <2>1. pair[1] \in SUBSET (0..Len(s)) /\ pair[2] \in SUBSET (0..Len(t))
    BY DEF Pairs
  <2> QED BY <2>1, AdvanceWithin DEF Pairs
<1> QED BY <1>1 DEF More, Steps

\* A set of pairs that the search is done with.
Done(s, t, letters, r) == More(s, t, letters, r) = {}

\* The search is well defined: it finds the least set it is done with.
LEMMA GrownExists ==
  ASSUME NEW s, NEW t, Len(s) \in Nat, Len(t) \in Nat, NEW letters
  PROVE  \E grown : GrownIs(grown, s, t, letters)
<1> DEFINE P == Pairs(s, t)
           M(r) == More(s, t, letters, r)
           Over(r) == {X \in SUBSET P : r \subseteq X /\ M(X) = {}}
           Least(r) == {x \in P : \A X \in Over(r) : x \in X}
           grown == [r \in SUBSET P |-> Least(r)]
<1>1. ASSUME NEW r \in SUBSET P, M(r) = {} PROVE Least(r) = r
  <2>1. r \in Over(r)
    BY <1>1
  <2> QED BY <2>1
<1>2. ASSUME NEW r \in SUBSET P, NEW X \in Over(r) PROVE M(r) \subseteq X
  BY <1>2 DEF More, Steps
<1>3. ASSUME NEW r \in SUBSET P PROVE M(r) \in SUBSET P
  BY MoreWithin
<1> HIDE DEF M, P
<1>4. ASSUME NEW r \in SUBSET P PROVE Over(r \cup M(r)) = Over(r)
  BY <1>2
<1>5. ASSUME NEW r \in SUBSET P PROVE Least(r \cup M(r)) = Least(r)
  BY <1>4
<1>6. ASSUME NEW r \in SUBSET P
      PROVE  grown[r] = IF M(r) = {} THEN r ELSE grown[r \cup M(r)]
  <2>1. r \cup M(r) \in SUBSET P
    BY <1>3
  <2>2. grown[r] = Least(r) /\ grown[r \cup M(r)] = Least(r \cup M(r))
    BY <2>1
  <2> HIDE DEF grown, Least
  <2> QED BY <1>1, <1>5, <2>2
<1>7. grown = [r \in SUBSET P |-> IF M(r) = {} THEN r ELSE grown[r \cup M(r)]]
  <2>1. grown = [r \in SUBSET P |-> grown[r]]
    OBVIOUS
  <2> HIDE DEF grown
  <2> QED BY <1>6, <2>1
<1> HIDE DEF grown
<1> QED BY <1>7 DEF GrownIs, M, P

\* However it is defined, it ends with a set it is done with.
LEMMA GrownDone ==
  ASSUME NEW s, NEW t, Len(s) \in Nat, Len(t) \in Nat, NEW letters,
         NEW grown, GrownIs(grown, s, t, letters), NEW r \in SUBSET Pairs(s, t)
  PROVE  r \subseteq grown[r] /\ Done(s, t, letters, grown[r])
<1> DEFINE P == Pairs(s, t)
           M(x) == More(s, t, letters, x)
           Good(x) == x \subseteq grown[x] /\ M(grown[x]) = {}
           Left(x) == Cardinality(P \ x)
           T == {n \in Nat : \E x \in SUBSET P : ~Good(x) /\ n = Left(x)}
<1>1. IsFiniteSet(P)
  <2>1. IsFiniteSet(0..Len(s)) /\ IsFiniteSet(0..Len(t))
    BY FS_Interval
  <2>2. IsFiniteSet(SUBSET (0..Len(s))) /\ IsFiniteSet(SUBSET (0..Len(t)))
    BY <2>1, FS_SUBSET
  <2> QED BY <2>2, FS_Product DEF Pairs
<1>2. ASSUME NEW x \in SUBSET P PROVE M(x) \in SUBSET P
  BY MoreWithin
<1>3. ASSUME NEW x \in SUBSET P PROVE grown[x] = IF M(x) = {} THEN x ELSE grown[x \cup M(x)]
  BY DEF GrownIs
<1>4. ASSUME NEW x PROVE M(x) \cap x = {}
  BY DEF More
<1>5. r \in SUBSET P
  OBVIOUS
<1> HIDE DEF P, M
<1>6. ASSUME NEW x \in SUBSET P PROVE Left(x) \in Nat
  <2>1. P \ x \in SUBSET P
    OBVIOUS
  <2> QED BY <1>1, <2>1, FS_Subset, FS_CardinalityType
<1>7. ASSUME NEW x \in SUBSET P, M(x) # {} PROVE Left(x \cup M(x)) < Left(x)
  <2>1. IsFiniteSet(P \ x)
    <3>1. P \ x \in SUBSET P
      OBVIOUS
    <3> QED BY <1>1, <3>1, FS_Subset
  <2>2. P \ (x \cup M(x)) \in SUBSET (P \ x) /\ P \ (x \cup M(x)) # P \ x
    BY <1>2, <1>4, <1>7
  <2>3. Left(x \cup M(x)) <= Left(x) /\ Left(x) # Left(x \cup M(x))
    BY <2>1, <2>2, FS_Subset
  <2>4. Left(x) \in Nat /\ Left(x \cup M(x)) \in Nat
    BY <1>2, <1>6
  <2> HIDE DEF Left
  <2> QED BY <2>3, <2>4
<1>8. T = {}
  <2>1. SUFFICES ASSUME T # {} PROVE FALSE
    OBVIOUS
  <2>2. PICK n \in T : \A k \in T : n <= k
    <3>1. T \subseteq Nat
      OBVIOUS
    <3> HIDE DEF T
    <3> QED BY <2>1, <3>1, LeastNumber
  <2>3. PICK x \in SUBSET P : ~Good(x) /\ n = Left(x)
    BY <2>2
  <2>4. M(x) # {}
    BY <1>3, <2>3
  <2>5. x \cup M(x) \in SUBSET P /\ grown[x] = grown[x \cup M(x)]
    BY <1>2, <1>3, <2>4
  <2>6. ~Good(x \cup M(x))
    BY <2>3, <2>5
  <2>7. Left(x \cup M(x)) \in T
    <3>1. Left(x \cup M(x)) \in Nat
      BY <1>6, <2>5
    <3> HIDE DEF Left, Good
    <3> QED BY <2>5, <2>6, <3>1
  <2>8. Left(x \cup M(x)) < Left(x) /\ Left(x) \in Nat /\ Left(x \cup M(x)) \in Nat
    BY <1>6, <1>7, <2>4, <2>5
  <2> HIDE DEF T, Left
  <2> QED BY <2>2, <2>3, <2>7, <2>8
<1>9. Good(r)
  <2>1. Left(r) \in Nat
    BY <1>5, <1>6
  <2> HIDE DEF Good, Left
  <2> QED BY <1>5, <1>8, <2>1
<1> QED BY <1>9 DEF Done, M

-----------------------------------------------------------------------------
(* Containment of segments: a name the candidate reads, the container      *)
(* reads.                                                                  *)

\* The first j tokens of t read the first q letters of w.
Prefix(cut, t, w, j, q) ==
  /\ Cuts(cut, t, "*", j, q)
  /\ \A k \in 1..j : t[k] # "*" => t[k] \in {"?", w[cut[k]]}

\* They read the first p letters, but for what a star behind them is reading.
Partly(t, w, j, p) ==
  /\ j \in 0..Len(t)
  /\ \E q \in 0..p : \E cut : Prefix(cut, t, w, j, q) /\ (q = p \/ (j < Len(t) /\ t[j + 1] = "*"))

\* Behind a place there may be stars that read nothing.
LEMMA PartlyClosed ==
  ASSUME NEW t, Len(t) \in Nat, NEW w, NEW p \in Nat, NEW x, Partly(t, w, x, p),
         NEW j \in 1..Len(t), x < j, \A k \in (x + 1)..j : t[k] = "*"
  PROVE  Partly(t, w, j, p)
<1>1. x \in 0..Len(t)
  BY DEF Partly
<1>2. PICK q \in 0..p : \E cut : Prefix(cut, t, w, x, q)
  BY DEF Partly
<1> PICK cut : Prefix(cut, t, w, x, q)
  BY <1>2
<1> DEFINE next == [k \in 0..j |-> IF k <= x THEN cut[k] ELSE p]
<1>3. cut \in [0..x -> 0..q] /\ cut[0] = 0 /\ cut[x] = q
  BY DEF Prefix, Cuts
<1>4. next \in [0..j -> 0..p]
  BY <1>1, <1>3
<1>5. next[0] = 0 /\ next[j] = p
  BY <1>1, <1>3
<1>6. ASSUME NEW k \in 1..j
      PROVE  /\ IF t[k] = "*" THEN next[k - 1] <= next[k] ELSE next[k] = next[k - 1] + 1
             /\ t[k] # "*" => t[k] \in {"?", w[next[k]]}
  <2>1. CASE k <= x
    <3>1. k \in 1..x /\ next[k] = cut[k] /\ next[k - 1] = cut[k - 1]
      BY <1>1, <2>1
    <3> QED BY <3>1 DEF Prefix, Cuts
  <2>2. CASE ~(k <= x)
    <3>1. t[k] = "*"
      BY <1>1, <2>2
    <3>2. k - 1 \in 0..j /\ k \in 0..j
      OBVIOUS
    <3>3. next[k] = p /\ next[k - 1] \in 0..p
      BY <1>4, <2>2, <3>2
    <3> QED BY <3>1, <3>3
  <2> QED BY <2>1, <2>2
<1>7. Prefix(next, t, w, j, p)
  BY <1>4, <1>5, <1>6 DEF Prefix, Cuts
<1> QED BY <1>7 DEF Partly

\* Every place of a closure is read that far, if every place of the set is.
LEMMA ClosurePartly ==
  ASSUME NEW t, Len(t) \in Nat, NEW w, NEW p \in Nat, NEW X, \A x \in X : Partly(t, w, x, p),
         NEW j \in Closure(t, X)
  PROVE  Partly(t, w, j, p)
<1>1. CASE j \in X
  BY <1>1
<1>2. CASE j \notin X
  <2>1. PICK x \in X : j \in 1..Len(t) /\ x < j /\ \A k \in (x + 1)..j : t[k] = "*"
    BY <1>2 DEF Closure
  <2> QED BY <2>1, PartlyClosed
<1> QED BY <1>1, <1>2

\* One more letter, of which the search knows that it is c.
LEMMA AdvancePartly ==
  ASSUME NEW t, Len(t) \in Nat, NEW w, NEW p \in Nat, NEW X, \A x \in X : Partly(t, w, x, p),
         NEW c, c = w[p + 1] \/ \A k \in 1..Len(t) : t[k] # c,
         NEW j \in Advance(t, X, c)
  PROVE  Partly(t, w, j, p + 1)
<1> DEFINE Y == {x \in X : x < Len(t) /\ t[x + 1] = "*"}
                  \cup {x + 1 : x \in {y \in X : y < Len(t) /\ t[y + 1] \in {"?", c}}}
<1>1. ASSUME NEW x \in X, x < Len(t), t[x + 1] = "*" PROVE Partly(t, w, x, p + 1)
  BY <1>1 DEF Partly
<1>2. ASSUME NEW x \in X, x < Len(t), t[x + 1] \in {"?", c} PROVE Partly(t, w, x + 1, p + 1)
  <2>1. x \in 0..Len(t) /\ x + 1 \in 1..Len(t)
    BY <1>2 DEF Partly
  <2>2. CASE t[x + 1] = "*"
    <3>1. Partly(t, w, x, p + 1)
      BY <1>1, <1>2, <2>2
    <3>2. \A k \in (x + 1)..(x + 1) : t[k] = "*"
      BY <2>1, <2>2
    <3> QED BY <2>1, <3>1, <3>2, PartlyClosed
  <2>3. CASE t[x + 1] # "*"
    <3>1. PICK cut : Prefix(cut, t, w, x, p)
      BY <2>3 DEF Partly
    <3> DEFINE next == [k \in 0..(x + 1) |-> IF k <= x THEN cut[k] ELSE p + 1]
    <3>2. cut \in [0..x -> 0..p] /\ cut[0] = 0 /\ cut[x] = p
      BY <3>1 DEF Prefix, Cuts
    <3>3. next \in [0..(x + 1) -> 0..(p + 1)] /\ next[0] = 0 /\ next[x + 1] = p + 1 /\ next[x] = p
      BY <2>1, <3>2
    <3>4. t[x + 1] \in {"?", w[p + 1]}
      BY <1>2, <2>1
    <3>5. ASSUME NEW k \in 1..(x + 1)
          PROVE  /\ IF t[k] = "*" THEN next[k - 1] <= next[k] ELSE next[k] = next[k - 1] + 1
                 /\ t[k] # "*" => t[k] \in {"?", w[next[k]]}
      <4>1. CASE k <= x
        <5>1. k \in 1..x /\ next[k] = cut[k] /\ next[k - 1] = cut[k - 1]
          BY <2>1, <4>1
        <5> QED BY <3>1, <5>1 DEF Prefix, Cuts
      <4>2. CASE k = x + 1
        <5>1. k - 1 = x
          BY <2>1, <4>2
        <5> HIDE DEF next
        <5> QED BY <2>3, <3>3, <3>4, <4>2, <5>1
      <4> QED BY <2>1, <4>1, <4>2
    <3>6. Prefix(next, t, w, x + 1, p + 1)
      BY <3>3, <3>5 DEF Prefix, Cuts
    <3> QED BY <2>1, <3>6 DEF Partly
  <2> QED BY <2>2, <2>3
<1>3. \A y \in Y : Partly(t, w, y, p + 1)
  BY <1>1, <1>2
<1>4. j \in Closure(t, Y) /\ p + 1 \in Nat
  BY DEF Advance
<1> HIDE DEF Y
<1> QED BY <1>3, <1>4, ClosurePartly

\* Where a reading is after p letters, the search is.
LEMMA StartReached ==
  ASSUME NEW s, Len(s) \in Nat, NEW w, Len(w) \in Nat, NEW cut, Reading(cut, s, w),
         NEW i, Reached(cut, s, "*", Len(s), i, 0)
  PROVE  i \in Closure(s, {0})
<1>1. /\ Cuts(cut, s, "*", Len(s), Len(w)) /\ i \in 0..Len(s)
      /\ \A k \in 0..Len(s) : cut[k] \in Nat
  BY DEF Reading, Reached, Cuts
<1>2. cut[i] = 0
  BY <1>1 DEF Reached
<1>3. ASSUME NEW k \in 1..i PROVE s[k] = "*"
  <2>1. k \in 1..Len(s) /\ k \in 0..Len(s) /\ k - 1 \in 0..Len(s)
    BY <1>1
  <2>2. cut[k] <= cut[i]
    BY <1>1, <2>1, CutsGrow
  <2>3. s[k] # "*" => cut[k] = cut[k - 1] + 1
    BY <1>1, <2>1 DEF Cuts
  <2>4. cut[k] \in Nat /\ cut[k - 1] \in Nat
    BY <1>1, <2>1
  <2> QED BY <1>2, <2>2, <2>3, <2>4
<1>4. i # 0 => i \in 1..Len(s) /\ 0 < i /\ \A k \in (0 + 1)..i : s[k] = "*"
  BY <1>1, <1>3
<1> QED BY <1>4 DEF Closure

LEMMA AdvanceReached ==
  ASSUME NEW s, Len(s) \in Nat, NEW w, Len(w) \in Nat, NEW cut, Reading(cut, s, w),
         NEW p \in Nat, p < Len(w), NEW X,
         \A i : Reached(cut, s, "*", Len(s), i, p) => i \in X,
         NEW c, c = w[p + 1] \/ \A k \in 1..Len(s) : s[k] # w[p + 1] \/ s[k] \in Wild,
         NEW i, Reached(cut, s, "*", Len(s), i, p + 1)
  PROVE  i \in Advance(s, X, c)
<1> DEFINE n == Len(s)
           Y == {x \in X : x < Len(s) /\ s[x + 1] = "*"}
                  \cup {x + 1 : x \in {y \in X : y < Len(s) /\ s[y + 1] \in {"?", c}}}
<1>1. /\ Cuts(cut, s, "*", n, Len(w)) /\ i \in 0..n /\ n \in Nat
      /\ \A k \in 0..n : cut[k] \in Nat
      /\ \A k \in 1..n : IF s[k] = "*" THEN cut[k - 1] <= cut[k] ELSE cut[k] = cut[k - 1] + 1
  BY DEF Reading, Reached, Cuts
<1>2. cut[0] = 0
  BY DEF Reading, Cuts
<1>3. CASE cut[i] <= p
  <2>1. i < n /\ s[i + 1] = "*" /\ p + 1 <= cut[i + 1] /\ cut[i + 1] \in Nat
    BY <1>1, <1>3 DEF Reached
  <2>2. Reached(cut, s, "*", n, i, p)
    BY <1>1, <1>3, <2>1 DEF Reached
  <2>3. i \in X
    BY <2>2
  <2> QED BY <2>1, <2>3 DEF Advance, Closure
<1>4. CASE ~(cut[i] <= p)
  <2>1. cut[i] = p + 1
    BY <1>1, <1>4 DEF Reached
  <2> DEFINE T == {k \in 0..n : p < cut[k]}
  <2>2. PICK j \in T : \A k \in T : j <= k
    <3>1. T \subseteq Nat /\ i \in T
      BY <1>1, <2>1
    <3> HIDE DEF T
    <3> QED BY <3>1, LeastNumber
  <2>3. j \in 0..n /\ p < cut[j] /\ j <= i
    BY <1>1, <2>1, <2>2
  <2>4. j # 0
    BY <1>2, <2>3
  <2>5. j - 1 \in 0..n /\ j \in 1..n /\ ~(j <= j - 1) /\ (j - 1) + 1 = j /\ j - 1 < n
    BY <1>1, <2>3, <2>4
  <2>6. cut[j - 1] <= p
    <3>1. j - 1 \notin T
      BY <2>2, <2>5
    <3>2. cut[j - 1] \in Nat
      BY <1>1, <2>5
    <3> QED BY <2>5, <3>1, <3>2
  <2> HIDE DEF T
  <2>7. cut[j] = p + 1
    <3>1. cut[j] <= cut[i]
      BY <1>1, <2>3, CutsGrow
    <3>2. cut[j] \in Nat
      BY <1>1, <2>5
    <3> QED BY <2>1, <2>3, <3>1, <3>2
  <2>8. ASSUME NEW k \in (j + 1)..i PROVE s[k] = "*"
    <3>1. k \in 1..n /\ k \in 0..n /\ k - 1 \in 0..n /\ j <= k - 1 /\ k <= i
      BY <1>1, <2>3
    <3>2. cut[j] <= cut[k - 1] /\ cut[k] <= cut[i]
      BY <1>1, <2>3, <3>1, CutsGrow
    <3>3. cut[k] \in Nat /\ cut[k - 1] \in Nat
      BY <1>1, <3>1
    <3>4. s[k] # "*" => cut[k] = cut[k - 1] + 1
      BY <1>1, <3>1
    <3> QED BY <2>1, <2>7, <3>2, <3>3, <3>4
  <2>9. Reached(cut, s, "*", n, j - 1, p)
    <3>1. cut[j - 1] \in Nat
      BY <1>1, <2>5
    <3>2. IF s[j] = "*" THEN cut[j - 1] <= cut[j] ELSE cut[j] = cut[j - 1] + 1
      BY <1>1, <2>5
    <3> QED BY <2>5, <2>6, <2>7, <3>1, <3>2 DEF Reached
  <2>10. j - 1 \in X
    BY <2>9
  <2>11. CASE s[j] = "*"
    <3>1. j - 1 \in Y
      BY <2>5, <2>10, <2>11
    <3>2. \A k \in ((j - 1) + 1)..i : s[k] = "*"
      <4>1. ASSUME NEW k \in ((j - 1) + 1)..i PROVE k = j \/ k \in (j + 1)..i
        BY <1>1, <2>5
      <4> QED BY <2>8, <2>11, <4>1
    <3>3. i \in 1..n /\ j - 1 < i
      BY <1>1, <2>3, <2>5
    <3> HIDE DEF Y
    <3>4. i \in Closure(s, Y)
      BY <3>1, <3>2, <3>3 DEF Closure
    <3> QED BY <3>4 DEF Advance, Y
  <2>12. CASE s[j] # "*"
    <3>1. s[j] \in {"?", w[p + 1]}
      BY <2>5, <2>7, <2>12 DEF Reading
    <3>2. s[j] \in {"?", c}
      BY <2>5, <2>12, <3>1 DEF Wild
    <3>3. j \in Y
      BY <2>5, <2>10, <3>2
    <3>4. i = j \/ (i \in 1..n /\ j < i)
      BY <1>1, <2>3, <2>5
    <3> HIDE DEF Y
    <3>5. i \in Closure(s, Y)
      BY <2>8, <3>3, <3>4 DEF Closure
    <3> QED BY <3>5 DEF Advance, Y
  <2> QED BY <2>11, <2>12
<1> QED BY <1>3, <1>4

\* A reading is somewhere after each letter.
LEMMA SomewhereReached ==
  ASSUME NEW s, Len(s) \in Nat, NEW w, Len(w) \in Nat, NEW cut, Reading(cut, s, w),
         NEW p \in 0..Len(w)
  PROVE  \E i : Reached(cut, s, "*", Len(s), i, p)
<1> DEFINE n == Len(s)
           T == {k \in 0..n : p <= cut[k]}
<1>1. /\ n \in Nat /\ cut[0] = 0 /\ cut[n] = Len(w)
      /\ \A k \in 0..n : cut[k] \in Nat
      /\ \A k \in 1..n : IF s[k] = "*" THEN cut[k - 1] <= cut[k] ELSE cut[k] = cut[k - 1] + 1
  BY DEF Reading, Cuts
<1>2. PICK j \in T : \A k \in T : j <= k
  <2>1. T \subseteq Nat /\ n \in T
    BY <1>1
  <2> HIDE DEF T
  <2> QED BY <2>1, LeastNumber
<1>3. j \in 0..n /\ p <= cut[j]
  OBVIOUS
<1>4. CASE j = 0
  <2>1. cut[j] = p
    BY <1>1, <1>3, <1>4
  <2> QED BY <1>3, <2>1 DEF Reached
<1>5. CASE j # 0
  <2>1. j - 1 \in 0..n /\ j \in 1..n /\ ~(j <= j - 1) /\ (j - 1) + 1 = j /\ j - 1 < n
    BY <1>1, <1>3, <1>5
  <2>2. cut[j - 1] \in Nat /\ cut[j] \in Nat
    BY <1>1, <2>1
  <2>3. cut[j - 1] < p
    <3>1. j - 1 \notin T
      BY <1>2, <2>1
    <3> QED BY <2>1, <2>2, <3>1
  <2>4. CASE s[j] = "*"
    <3>1. Reached(cut, s, "*", n, j - 1, p)
      BY <1>3, <2>1, <2>2, <2>3, <2>4 DEF Reached
    <3> QED BY <3>1
  <2>5. CASE s[j] # "*"
    <3>1. cut[j] = cut[j - 1] + 1
      BY <1>1, <2>1, <2>5
    <3>2. cut[j] = p
      BY <1>3, <2>2, <2>3, <3>1
    <3>3. Reached(cut, s, "*", n, j, p)
      BY <1>3, <3>2 DEF Reached
    <3> QED BY <3>3
  <2> QED BY <2>4, <2>5
<1> QED BY <1>4, <1>5

\* What is contained reads nothing that its container does not.
LEMMA SegmentContained ==
  ASSUME NEW S, NEW W, NEW s \in Seq(S), NEW t \in Seq(S), NEW w \in Seq(W), Other \notin S,
         SegmentWithin(s, t), SegmentMatches(s, w)
  PROVE  SegmentMatches(t, w)
<1> DEFINE letters == (Range(s) \cup Range(t) \cup {Other}) \ Wild
           grown == CHOOSE g : GrownIs(g, s, t, letters)
           start == {<<Closure(s, {0}), Closure(t, {0})>>}
           R == grown[start]
<1>0. /\ Len(s) \in Nat /\ Len(t) \in Nat /\ Len(w) \in Nat
      /\ \A k \in 1..Len(s) : s[k] \in S /\ s[k] \in Range(s)
      /\ \A k \in 1..Len(t) : t[k] \in S /\ t[k] \in Range(t)
  BY DEF Range
<1>1. CASE s = t
  BY <1>1
<1>2. CASE s # t
  <2>1. GrownIs(grown, s, t, letters)
    BY <1>0, GrownExists
  <2>2. \A pair \in R : Len(s) \in pair[1] => Len(t) \in pair[2]
    <3>1. SegmentWithin(s, t) <=> s = t \/ \A pair \in R : Len(s) \in pair[1] => Len(t) \in pair[2]
      BY DEF SegmentWithin, GrownIs, More, Steps, Pairs
    <3> QED BY <1>2, <3>1
  <2>3. start \in SUBSET Pairs(s, t)
    <3>1. {0} \in SUBSET (0..Len(s)) /\ {0} \in SUBSET (0..Len(t))
      BY <1>0
    <3>2. Closure(s, {0}) \in SUBSET (0..Len(s)) /\ Closure(t, {0}) \in SUBSET (0..Len(t))
      BY <1>0, <3>1, AdvanceWithin
    <3> QED BY <3>2 DEF Pairs
  <2> HIDE DEF grown
  <2>4. start \subseteq R /\ Done(s, t, letters, R)
    <3> HIDE DEF start, letters
    <3> QED BY <1>0, <2>1, <2>3, GrownDone
  <2> HIDE DEF R
  <2>5. PICK cut : Reading(cut, s, w)
    BY SegmentRead
  <2> DEFINE Follows(pair, p) ==
               /\ \A i : Reached(cut, s, "*", Len(s), i, p) => i \in pair[1]
               /\ \A j \in pair[2] : Partly(t, w, j, p)
             T == {p \in 0..Len(w) : ~\E pair \in R : Follows(pair, p)}
  <2>6. \E pair \in R : Follows(pair, 0)
    <3> DEFINE first == <<Closure(s, {0}), Closure(t, {0})>>
    <3>1. first \in R
      BY <2>4
    <3>2. \A i : Reached(cut, s, "*", Len(s), i, 0) => i \in first[1]
      BY <1>0, <2>5, StartReached
    <3>3. Partly(t, w, 0, 0)
      <4> DEFINE none == [k \in 0..0 |-> 0]
      <4>1. Prefix(none, t, w, 0, 0)
        BY DEF Prefix, Cuts
      <4> QED BY <1>0, <4>1 DEF Partly
    <3>4. \A j \in first[2] : Partly(t, w, j, 0)
      BY <1>0, <3>3, ClosurePartly
    <3> QED BY <3>1, <3>2, <3>4
  <2>7. ASSUME NEW p \in Nat, p < Len(w), NEW pair \in R, Follows(pair, p)
        PROVE  \E next \in R : Follows(next, p + 1)
    <3> DEFINE c == IF w[p + 1] \in letters THEN w[p + 1] ELSE Other
               next == <<Advance(s, pair[1], c), Advance(t, pair[2], c)>>
    <3>1. c \in letters
      BY DEF Wild, Other
    <3>2. c = w[p + 1] \/ \A k \in 1..Len(s) : s[k] # w[p + 1] \/ s[k] \in Wild
      BY <1>0
    <3>3. c = w[p + 1] \/ \A k \in 1..Len(t) : t[k] # c
      BY <1>0
    <3> HIDE DEF c, letters
    <3>4. \A i : Reached(cut, s, "*", Len(s), i, p + 1) => i \in next[1]
      <4>1. \A i : Reached(cut, s, "*", Len(s), i, p) => i \in pair[1]
        BY <2>7
      <4>2. ASSUME NEW i, Reached(cut, s, "*", Len(s), i, p + 1)
            PROVE  i \in Advance(s, pair[1], c)
        BY <1>0, <2>5, <2>7, <3>2, <4>1, <4>2, AdvanceReached
      <4> QED BY <4>2
    <3>5. \A j \in next[2] : Partly(t, w, j, p + 1)
      <4>1. \A x \in pair[2] : Partly(t, w, x, p)
        BY <2>7
      <4>2. ASSUME NEW j \in Advance(t, pair[2], c) PROVE Partly(t, w, j, p + 1)
        BY <1>0, <3>3, <4>1, AdvancePartly
      <4> QED BY <4>2
    <3>6. next[1] # {}
      <4>1. p + 1 \in 0..Len(w)
        BY <1>0, <2>7
      <4>2. PICK i : Reached(cut, s, "*", Len(s), i, p + 1)
        BY <1>0, <2>5, <4>1, SomewhereReached
      <4> QED BY <3>4, <4>2
    <3>7. next \in R
      BY <2>4, <2>7, <3>1, <3>6 DEF Done, More, Steps
    <3> QED BY <3>4, <3>5, <3>7
  <2>8. T = {}
    <3>1. SUFFICES ASSUME T # {} PROVE FALSE
      OBVIOUS
    <3>2. PICK p \in T : \A k \in T : p <= k
      <4>1. T \subseteq Nat
        BY <1>0
      <4> HIDE DEF T
      <4> QED BY <3>1, <4>1, LeastNumber
    <3>3. p \in 0..Len(w) /\ ~\E pair \in R : Follows(pair, p)
      OBVIOUS
    <3> HIDE DEF Follows
    <3>4. p # 0
      BY <2>6, <3>3
    <3>5. p - 1 \in Nat /\ p - 1 \in 0..Len(w) /\ p - 1 < Len(w) /\ (p - 1) + 1 = p /\ ~(p <= p - 1)
      BY <1>0, <3>3, <3>4
    <3>6. \E pair \in R : Follows(pair, p - 1)
      BY <3>2, <3>5
    <3> QED BY <2>7, <3>3, <3>5, <3>6
  <2>9. PICK pair \in R : Follows(pair, Len(w))
    <3>1. Len(w) \in 0..Len(w)
      BY <1>0
    <3> HIDE DEF Follows
    <3> QED BY <2>8, <3>1
  <2>10. Len(s) \in pair[1]
    <3>1. Reached(cut, s, "*", Len(s), Len(s), Len(w))
      BY <1>0, <2>5 DEF Reached, Reading, Cuts
    <3> QED BY <2>9, <3>1
  <2>11. Partly(t, w, Len(t), Len(w))
    BY <2>2, <2>9, <2>10
  <2>12. PICK last : Prefix(last, t, w, Len(t), Len(w))
    BY <1>0, <2>11 DEF Partly
  <2>13. Reading(last, t, w)
    BY <2>12 DEF Prefix, Reading
  <2> QED BY <2>13, SegmentRead
<1> QED BY <1>1, <1>2

-----------------------------------------------------------------------------
(* Containment of patterns.                                                *)

\* Without a "**" among the first of its segments, a pattern reads one name
\* with each.
Plain(a, m) == \A k \in 1..m : a[k] # Stars
Straight(cut, m) == \A k \in 0..m : cut[k] = k
LEMMA PlainCuts ==
  ASSUME NEW a, NEW n \in Nat, NEW len \in Nat, NEW cut, Cuts(cut, a, Stars, n, len),
         NEW m \in 0..n, Plain(a, m)
  PROVE  Straight(cut, m)
<1> DEFINE T == {k \in 0..m : cut[k] # k}
<1>1. SUFFICES ASSUME T # {} PROVE FALSE
  BY DEF Straight
<1>2. PICK k \in T : \A l \in T : k <= l
  <2>1. T \subseteq Nat
    OBVIOUS
  <2> HIDE DEF T
  <2> QED BY <1>1, <2>1, LeastNumber
<1>3. k \in 0..m /\ cut[k] # k
  OBVIOUS
<1>4. k # 0
  BY <1>3 DEF Cuts
<1>5. k - 1 \in 0..m /\ k \in 1..m /\ k \in 1..n /\ ~(k <= k - 1)
  BY <1>3, <1>4
<1>6. k - 1 \notin T
  BY <1>2, <1>5
<1>7. cut[k - 1] = k - 1
  BY <1>5, <1>6
<1>8. cut[k] = cut[k - 1] + 1
  BY <1>5 DEF Cuts, Plain
<1> HIDE DEF T
<1> QED BY <1>3, <1>7, <1>8

LEMMA PatternContained ==
  ASSUME NEW S, NEW W, NEW p \in Seq(Seq(S)), NEW q \in Seq(Seq(S)), NEW path \in Seq(Seq(W)),
         "*" \in S, Other \notin S,
         PatternWithin(p, q), Matches(p, path)
  PROVE  Matches(q, path)
<1> DEFINE a == Segments(p)
           b == Segments(q)
           least == Min({Len(a), Len(b)})
           stops == {k \in 1..least : b[k] = Stars \/ a[k] = Stars \/ ~SegmentWithin(a[k], b[k])}
<1>1. a \in Seq(Seq(S)) /\ b \in Seq(Seq(S))
  BY PatternRead
<1> PICK cut : PathReading(cut, a, path)
  BY PatternRead
<1>2. /\ Cuts(cut, a, Stars, Len(a), Len(path))
      /\ \A k \in 1..Len(a) : a[k] # Stars => SegmentMatches(a[k], path[cut[k]])
  BY DEF PathReading
<1>3. \/ p = q
      \/ stops # {} /\ b[Min(stops)] = Stars /\ Min(stops) = Len(b)
      \/ /\ stops = {} /\ Len(a) <= Len(b)
         /\ \A k \in (Len(a) + 1)..Len(b) : b[k] = Stars
  BY DEF PatternWithin
<1>4. ASSUME NEW next, Cuts(next, b, Stars, Len(b), Len(path)),
             \A k \in 1..Len(b) : b[k] # Stars => SegmentMatches(b[k], path[next[k]])
      PROVE  Matches(q, path)
  <2>1. PathReading(next, b, path)
    BY <1>4 DEF PathReading
  <2> QED BY <2>1, PatternRead
<1> HIDE DEF a, b
<1>5. Len(a) \in Nat /\ Len(b) \in Nat /\ Len(path) \in Nat
  BY <1>1
<1>6. least \in {Len(a), Len(b)} /\ least <= Len(a) /\ least <= Len(b)
  <2>1. \E n \in {Len(a), Len(b)} : \A k \in {Len(a), Len(b)} : n <= k
    BY <1>5
  <2> QED BY <2>1 DEF Min
\* Where nothing stops the comparison, a name is read by both.
<1>7. ASSUME NEW k \in 1..least, k \notin stops, cut[k] = k, k \in 1..Len(path)
      PROVE  b[k] # Stars /\ SegmentMatches(b[k], path[k])
  <2>1. a[k] # Stars /\ b[k] # Stars /\ SegmentWithin(a[k], b[k])
    BY <1>7
  <2>2. k \in 1..Len(a) /\ k \in 1..Len(b)
    BY <1>5, <1>6
  <2>3. a[k] \in Seq(S) /\ b[k] \in Seq(S) /\ path[k] \in Seq(W)
    BY <1>1, <1>7, <2>2
  <2>4. SegmentMatches(a[k], path[k])
    BY <1>2, <1>7, <2>1, <2>2
  <2> QED BY <2>1, <2>3, <2>4, SegmentContained
<1>8. \A k \in 0..Len(a) : cut[k] \in 0..Len(path)
  BY <1>2 DEF Cuts
<1>9. CASE stops # {} /\ b[Min(stops)] = Stars /\ Min(stops) = Len(b)
  <2> DEFINE n == Min(stops)
             next == [k \in 0..Len(b) |-> IF k < n THEN k ELSE Len(path)]
  <2>1. n \in stops /\ \A k \in stops : n <= k
    <3>1. stops \subseteq Nat
      BY <1>5, <1>6
    <3>2. \E x \in stops : \A y \in stops : x <= y
      <4> HIDE DEF stops
      <4> QED BY <1>9, <3>1, LeastNumber
    <3> HIDE DEF stops
    <3> QED BY <3>2 DEF Min
  <2>2. n = Len(b) /\ b[n] = Stars /\ n \in 1..least
    BY <1>9, <2>1
  <2> HIDE DEF n
  <2>3. ASSUME NEW k \in 1..(n - 1) PROVE k \in 1..least /\ k \notin stops
    <3>1. k \in 1..least /\ ~(n <= k)
      BY <1>5, <1>6, <2>2
    <3> QED BY <2>1, <3>1
  <2>4. n - 1 \in 0..Len(a)
    BY <1>5, <1>6, <2>2
  <2>5. \A k \in 0..(n - 1) : cut[k] = k
    <3>1. Plain(a, n - 1)
      BY <2>3 DEF Plain
    <3>2. Straight(cut, n - 1)
      BY <1>2, <1>5, <2>4, <3>1, PlainCuts
    <3> QED BY <3>2 DEF Straight
  <2>6. n - 1 \in 0..Len(path)
    <3>1. n - 1 \in 0..(n - 1)
      BY <2>4
    <3> QED BY <1>8, <2>4, <2>5, <3>1
  <2>7. next \in [0..Len(b) -> 0..Len(path)]
    <3>1. ASSUME NEW k \in 0..Len(b) PROVE (IF k < n THEN k ELSE Len(path)) \in 0..Len(path)
      BY <1>5, <2>2, <2>6
    <3> QED BY <3>1
  <2>8. next[0] = 0 /\ next[Len(b)] = Len(path)
    BY <1>5, <2>2, <1>6
  <2>9. ASSUME NEW k \in 1..Len(b)
        PROVE  /\ IF b[k] = Stars THEN next[k - 1] <= next[k] ELSE next[k] = next[k - 1] + 1
               /\ b[k] # Stars => SegmentMatches(b[k], path[next[k]])
    <3>1. k - 1 \in 0..Len(b) /\ k \in 0..Len(b) /\ k - 1 < n
      BY <1>5, <2>2
    <3>2. next[k - 1] = k - 1
      BY <3>1
    <3>3. CASE k = n
      <4>1. next[k] = Len(path)
        BY <3>1, <3>3
      <4> HIDE DEF next
      <4> QED BY <1>5, <2>2, <2>6, <3>2, <3>3, <4>1
    <3>4. CASE k # n
      <4>1. k \in 1..(n - 1) /\ k \in 0..(n - 1) /\ k < n
        BY <1>5, <2>2, <3>4
      <4>2. next[k] = k
        BY <3>1, <4>1
      <4>3. cut[k] = k /\ k \in 1..Len(path)
        BY <2>5, <2>6, <4>1
      <4>4. b[k] # Stars /\ SegmentMatches(b[k], path[k])
        BY <1>7, <2>3, <4>1, <4>3
      <4> HIDE DEF next
      <4> QED BY <3>2, <4>2, <4>4
    <3> QED BY <3>3, <3>4
  <2>10. Cuts(next, b, Stars, Len(b), Len(path))
    BY <2>7, <2>8, <2>9 DEF Cuts
  <2> HIDE DEF next
  <2> QED BY <1>4, <2>9, <2>10
<1>10. CASE /\ stops = {} /\ Len(a) <= Len(b)
            /\ \A k \in (Len(a) + 1)..Len(b) : b[k] = Stars
  <2> DEFINE next == [k \in 0..Len(b) |-> IF k <= Len(a) THEN k ELSE Len(path)]
  <2>1. least = Len(a)
    BY <1>5, <1>6, <1>10
  <2>2. ASSUME NEW k \in 1..Len(a) PROVE k \in 1..least /\ k \notin stops /\ a[k] # Stars
    BY <1>10, <2>1
  <2>3. \A k \in 0..Len(a) : cut[k] = k
    <3>1. Len(a) \in 0..Len(a)
      BY <1>5
    <3>2. Plain(a, Len(a))
      BY <2>2 DEF Plain
    <3> HIDE DEF least, stops
    <3>3. Straight(cut, Len(a))
      BY <1>2, <1>5, <3>1, <3>2, PlainCuts
    <3> QED BY <3>3 DEF Straight
  <2>4. Len(path) = Len(a)
    <3>1. cut[Len(a)] = Len(path) /\ Len(a) \in 0..Len(a)
      BY <1>2, <1>5 DEF Cuts
    <3> QED BY <2>3, <3>1
  <2>5. next \in [0..Len(b) -> 0..Len(path)]
    BY <1>5, <2>4
  <2>6. next[0] = 0 /\ next[Len(b)] = Len(path)
    BY <1>5, <1>10, <2>4
  <2>7. ASSUME NEW k \in 1..Len(b)
        PROVE  /\ IF b[k] = Stars THEN next[k - 1] <= next[k] ELSE next[k] = next[k - 1] + 1
               /\ b[k] # Stars => SegmentMatches(b[k], path[next[k]])
    <3>1. k - 1 \in 0..Len(b) /\ k \in 0..Len(b)
      BY <1>5
    <3>2. CASE k <= Len(a)
      <4>1. k \in 1..Len(a) /\ k \in 0..Len(a) /\ k - 1 <= Len(a)
        BY <1>5, <3>2
      <4>2. next[k] = k /\ next[k - 1] = k - 1
        BY <3>1, <3>2, <4>1
      <4>3. b[k] # Stars /\ SegmentMatches(b[k], path[k])
        BY <1>7, <2>2, <2>3, <2>4, <4>1
      <4> HIDE DEF next
      <4> QED BY <4>2, <4>3
    <3>3. CASE ~(k <= Len(a))
      <4>1. b[k] = Stars
        BY <1>5, <1>10, <3>3
      <4>2. next[k] = Len(path) /\ next[k - 1] \in 0..Len(path)
        BY <2>5, <3>1, <3>3
      <4> HIDE DEF next
      <4> QED BY <1>5, <4>1, <4>2
    <3> QED BY <3>2, <3>3
  <2>8. Cuts(next, b, Stars, Len(b), Len(path))
    BY <2>5, <2>6, <2>7 DEF Cuts
  <2> HIDE DEF next
  <2> QED BY <1>4, <2>7, <2>8
<1>11. CASE p = q
  BY <1>11
<1> QED BY <1>3, <1>9, <1>10, <1>11

\* A path is matched by itself, if it is read as it is written.
LEMMA PathMatchesItself ==
  ASSUME NEW S, "*" \in S, NEW path \in Seq(Seq(S)), Segments(path) = path
  PROVE  Matches(path, path)
<1> DEFINE cut == [k \in 0..Len(path) |-> k]
<1>1. Len(path) \in Nat
  OBVIOUS
<1>2. cut \in [0..Len(path) -> 0..Len(path)] /\ Cuts(cut, path, Stars, Len(path), Len(path))
  BY <1>1 DEF Cuts
<1>3. ASSUME NEW k \in 1..Len(path) PROVE SegmentMatches(path[k], path[cut[k]])
  <2> DEFINE name == path[k]
             own == [l \in 0..Len(name) |-> l]
  <2>1. name \in Seq(S) /\ cut[k] = k
    BY <1>1
  <2>2. Len(name) \in Nat
    BY <2>1
  <2> HIDE DEF name
  <2>3. own \in [0..Len(name) -> 0..Len(name)] /\ Cuts(own, name, "*", Len(name), Len(name))
    BY <2>2 DEF Cuts
  <2>4. \A l \in 1..Len(name) : name[l] # "*" => name[l] \in {"?", name[own[l]]}
    BY <2>2
  <2>5. SegmentMatches(name, name)
    <3>1. Reading(own, name, name)
      BY <2>3, <2>4 DEF Reading
    <3> HIDE DEF own
    <3> QED BY <2>1, <3>1, SegmentRead DEF name
  <2> QED BY <2>1, <2>5 DEF name
<1> HIDE DEF cut
<1>4. PathReading(cut, path, path)
  BY <1>2, <1>3 DEF PathReading
<1> QED BY <1>4, PatternRead

-----------------------------------------------------------------------------
(* What a manifest lets an agent write.                                    *)

\* A manifest narrows the descriptor, pattern by pattern.
Narrowed(m) ==
  /\ m.allowed \cup m.protected \subseteq Patterns
  /\ \A a \in m.allowed : \E r \in Range(project.allowed) : PatternWithin(a, r)
  /\ \A r \in Range(project.protected) : \E p \in m.protected : PatternWithin(r, p)
  /\ \A a \in m.allowed, p \in m.protected : ~CanOverlap(a, p)
  /\ \A r \in FixedRunners : \A a \in m.allowed : ~CoversPath(a, r)

\* A generation knows its plan until it has derived, and what it derived then.
PolicyInv ==
  /\ project \in Projects
  /\ job.step \in {"receipts", "specs"} => \E plan \in Plans : job = [step |-> job.step, plan |-> plan]
  /\ job.step \in {"bridges", "derive"} => job.plan \in Plans
  /\ job.step \in {"validate", "write"} => Narrowed(job.manifest)
  /\ manifest # None => Narrowed(manifest)

LEMMA DerivedNarrowed ==
  ASSUME project \in Projects, NEW plan \in Plans, NEW read, Derivable(plan, read)
  PROVE  Narrowed(Derived(plan, read))
<1> DEFINE m == Derived(plan, read)
<1>1. m.allowed = Range(plan.allowed) /\ m.protected = Range(plan.protected)
  BY DEF Derived
<1>2. WritePolicyDerives(plan) /\ Narrows(plan)
  BY DEF Derivable, WritePolicyDerives
<1>3. m.allowed \cup m.protected \subseteq Patterns
  BY <1>1, PatternAssumption
<1> HIDE DEF m
<1>4. \A a \in m.allowed : \E r \in Range(project.allowed) : PatternWithin(a, r)
  BY <1>1, <1>2 DEF Narrows
<1>5. \A r \in Range(project.protected) : \E p \in m.protected : PatternWithin(r, p)
  BY <1>1, <1>2 DEF Narrows
<1>6. /\ \A a \in m.allowed, p \in m.protected : ~CanOverlap(a, p)
      /\ \A r \in FixedRunners : \A a \in m.allowed : ~CoversPath(a, r)
  BY <1>1, <1>2 DEF WritePolicyDerives
<1> QED BY <1>3, <1>4, <1>5, <1>6 DEF Narrowed, m

\* What is narrowed pattern by pattern is narrowed path by path.
LEMMA NarrowedWrites ==
  ASSUME project \in Projects, NEW m, Narrowed(m),
         NEW path \in Paths, NEW a \in m.allowed, Matches(a, path)
  PROVE  /\ \E r \in Range(project.allowed) : Matches(r, path)
         /\ \A r \in Range(project.protected) : ~Matches(r, path)
         /\ path \notin FixedRunners
<1> DEFINE L == STRING \ {Other}
           S == L \cup {"*"}
<1>1. "*" \in S /\ Other \notin S
  BY DEF Other
<1>2. /\ \A p \in m.allowed \cup m.protected : p \in Seq(Seq(S))
      /\ \A p \in Range(project.allowed) \cup Range(project.protected) : p \in Seq(Seq(S))
      /\ \A r \in FixedRunners : r \in Seq(Seq(S)) /\ Segments(r) = r
      /\ path \in Seq(Seq(STRING))
  <2>1. Seq(Seq(L)) \subseteq Seq(Seq(S))
    <3>1. Seq(L) \subseteq Seq(S)
      OBVIOUS
    <3> HIDE DEF L, S
    <3> QED BY <3>1
  <2> HIDE DEF S
  <2> QED BY <2>1, PatternAssumption DEF Narrowed, Patterns
<1> HIDE DEF S, L
<1>3. \E r \in Range(project.allowed) : Matches(r, path)
  <2>1. PICK r \in Range(project.allowed) : PatternWithin(a, r)
    BY DEF Narrowed
  <2> QED BY <1>1, <1>2, <2>1, PatternContained
<1>4. ASSUME NEW r \in Range(project.protected), Matches(r, path) PROVE FALSE
  <2>1. PICK p \in m.protected : PatternWithin(r, p)
    BY DEF Narrowed
  <2>2. Matches(p, path)
    BY <1>1, <1>2, <1>4, <2>1, PatternContained
  <2>3. CanOverlap(a, p)
    BY <1>1, <1>2, <2>2, OverlapFound
  <2> QED BY <2>3 DEF Narrowed
<1>5. ASSUME path \in FixedRunners PROVE FALSE
  <2>1. Matches(path, path)
    BY <1>1, <1>2, <1>5, PathMatchesItself
  <2>2. CanOverlap(a, path)
    BY <1>1, <1>2, <1>5, <2>1, OverlapFound
  <2> QED BY <1>5, <2>2 DEF Narrowed, CoversPath
<1> QED BY <1>3, <1>4, <1>5

LEMMA NextPolicy == IInv /\ PolicyInv /\ [Next]_vars => PolicyInv'
<1> SUFFICES ASSUME IInv, PolicyInv, [Next]_vars PROVE PolicyInv'
  OBVIOUS
<1>1. ASSUME project' = project PROVE \A m : Narrowed(m) => Narrowed(m)'
  BY <1>1 DEF Narrowed
<1>2. ASSUME NEW plan \in Plans, GenStart(plan) PROVE PolicyInv'
  BY <1>1, <1>2 DEF GenStart, PolicyInv, Narrowed
<1>3. ASSUME ReadReceipts PROVE PolicyInv'
  <2>1. PICK plan \in Plans : job = [step |-> "receipts", plan |-> plan]
    BY <1>3 DEF PolicyInv, ReadReceipts
  <2>2. job' = Idle \/ job' = [step |-> "specs", plan |-> plan]
    BY <1>3, <2>1 DEF ReadReceipts, Pass
  <2> QED BY <1>1, <1>3, <2>2 DEF PolicyInv, ReadReceipts, Idle, Narrowed
<1>4. ASSUME LoadInteractions PROVE PolicyInv'
  <2>1. job.plan \in Plans
    BY <1>4 DEF PolicyInv, LoadInteractions
  <2>2. job'.step = "bridges" /\ job'.plan = job.plan
    BY <1>4 DEF LoadInteractions
  <2> QED BY <1>1, <1>4, <2>1, <2>2 DEF PolicyInv, LoadInteractions, Narrowed
<1>5. ASSUME LoadBridges PROVE PolicyInv'
  <2>1. \E plan, read, since : job = Loaded("bridges", plan, read, since)
    BY <1>5 DEF IInv, LoadedInv, LoadBridges
  <2>2. job'.step = "derive" /\ job'.plan = job.plan
    BY <1>5, <2>1 DEF LoadBridges, Loaded
  <2> QED BY <1>1, <1>5, <2>2 DEF PolicyInv, LoadBridges, Narrowed
<1>6. ASSUME Derive PROVE PolicyInv'
  <2>1. job'.step = "idle" \/ (job'.step = "validate" /\ Narrowed(job'.manifest))
    <3>1. CASE Derivable(job.plan, job.read)
      <4>1. job'.step = "validate" /\ job'.manifest = Derived(job.plan, job.read)
        BY <1>6, <3>1 DEF Derive
      <4>2. Narrowed(Derived(job.plan, job.read))
        BY <1>6, <3>1, DerivedNarrowed DEF PolicyInv, Derive
      <4> QED BY <4>1, <4>2
    <3>2. CASE ~Derivable(job.plan, job.read)
      BY <1>6, <3>2 DEF Derive, Idle
    <3> QED BY <3>1, <3>2
  <2> QED BY <1>1, <1>6, <2>1 DEF PolicyInv, Derive, Narrowed
<1>7. ASSUME Validate PROVE PolicyInv'
  <2>1. job'.step = "idle" \/ (job'.step = "write" /\ job'.manifest = job.manifest)
    BY <1>7 DEF Validate, Pass, Idle
  <2> QED BY <1>1, <1>7, <2>1 DEF PolicyInv, Validate, Narrowed
<1>8. ASSUME Write PROVE PolicyInv'
  BY <1>1, <1>8 DEF PolicyInv, Write, Idle, Narrowed
<1>9. CASE (\E e \in Editable : Edit(e[1], e[2])) \/ UNCHANGED vars
  <2>1. project' = project /\ job' = job /\ manifest' = manifest
    BY <1>9 DEF Edit, vars
  <2> QED BY <2>1 DEF PolicyInv, Narrowed
<1> QED BY <1>2, <1>3, <1>4, <1>5, <1>6, <1>7, <1>8, <1>9 DEF Next

\* Whatever the descriptor, the plan and their patterns are: a path an agent
\* may write under a manifest it may write under the descriptor, and it is
\* neither protected nor a witness renderer (_derive_write_policy decides on
\* patterns, _pattern_is_subset and _patterns_can_overlap).
THEOREM WritesStayWithin == Spec => []WritesWithinDescriptor
<1>1. Init => PolicyInv
  BY DEF Init, PolicyInv, Idle
<1>2. PolicyInv => WritesWithinDescriptor
  BY NarrowedWrites DEF PolicyInv, WritesWithinDescriptor
<1> QED BY <1>1, <1>2, InitIInv, NextIInv, NextPolicy, PTL DEF Spec
=============================================================================

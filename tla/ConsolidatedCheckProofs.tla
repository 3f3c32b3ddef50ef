------------------------ MODULE ConsolidatedCheckProofs ------------------------
(***************************************************************************)
(* For any workspace, any edits of it and any agent that follows the loop: *)
(* what exit code 0 of a check means.  The exit code is the fold of the    *)
(* findings of every gate, and holds until somebody acts (CheckedInv); what  *)
(* it says of the workspace is told in terms of the files.                 *)
(*                                                                         *)
(* The last part is about promote-evidence, which promotes the drafts the  *)
(* check looks at: for any number of promotions, failing and dying at any  *)
(* step, that what is promoted validated; and for one at a time, that the  *)
(* trail has its lines.                                                    *)
(***************************************************************************)
EXTENDS ConsolidatedCheck, EvidencePromotion, AuditLogProofs, FiniteSetTheorems, TLAPS

\* The exit code last reported is that of the workspace as it is.
CheckedInv ==
  outcome.exit # None => outcome.exit = ExitCode(Blocked) /\ outcome.ran = Executed

ReportInv == report # None => IsReport(report)

BridgeInv == DOMAIN checks = BridgeIds /\ ChecksWereMade(checks, passed)

ReceiptInv == \A a \in DOMAIN artifacts : IsReceiptList(artifacts[a].receipts)

IInv == CheckedInv /\ ReportInv /\ BridgeInv /\ ReceiptInv

-----------------------------------------------------------------------------
(* What a clean check has found of each gate.                              *)

\* An exit code of 0 is one of a loaded workspace in which no gate that ran
\* has anything to say.
LEMMA NothingFound ==
  ASSUME ExitCode(Blocked) = 0
  PROVE  Pinned /\ Loaded /\ ~Blocking /\ ~Awaited
  BY DEF ExitCode

\* A call in a clean report is settled.
LEMMA CallsSettled ==
  ASSUME ReportInv, ExitCode(Blocked) = 0, "r1-g16" \in Executed
  PROVE  /\ report # None /\ ReportValid
         /\ \A id \in DOMAIN report.calls :
              LET r == report.calls[id] IN
              IF Unresolved(r) THEN r.tier = "low"
              ELSE r.id[1][1] = r.callee[1] \/ Edge(r) \in DOMAIN declared \/ r.shape = "inquiry"
<1>1. report # None
  BY DEF Executed
<1>2. ReportValid
  BY <1>1, NothingFound DEF Blocking
<1>3. ASSUME NEW id \in DOMAIN report.calls
      PROVE  FindingsOf(report.calls[id]) \subseteq CallFindings
  <2>1. report.calls[id] \in Range(report.calls)
    BY DEF Range
  <2> QED BY <1>2, <2>1 DEF CallFindings, R1G16Findings, Reconcile
<1>4. \A f \in CallFindings : f.severity \notin {"error", "decision"}
  BY NothingFound DEF Blocking, Awaited
<1>5. ASSUME NEW id \in DOMAIN report.calls, Unresolved(report.calls[id])
      PROVE  report.calls[id].tier = "low"
  <2> DEFINE r == report.calls[id]
             f == [severity |-> TierSeverity(r.tier), worded |-> FALSE]
  <2>1. f \in CallFindings
    BY <1>3, <1>5 DEF FindingsOf, UnresolvedFindings, R1
  <2>2. TierSeverity(r.tier) \notin {"error", "decision"}
    BY <1>4, <2>1
  <2>3. r.tier \in {"low", "medium", "high", "critical"}
    BY <1>1, <1>5, TiersAssumption DEF ReportInv, IsReport
  <2> QED BY <2>2, <2>3 DEF TierSeverity
<1>6. ASSUME NEW id \in DOMAIN report.calls, ~Unresolved(report.calls[id]),
             report.calls[id].id[1][1] # report.calls[id].callee[1],
             Edge(report.calls[id]) \notin DOMAIN declared
      PROVE  report.calls[id].shape = "inquiry"
  <2> DEFINE r == report.calls[id]
             s == IF r.shape = "inquiry" THEN "warn" ELSE "error"
             f == [severity |-> s, worded |-> TRUE]
  <2>1. f \in CallFindings
    BY <1>3, <1>6 DEF FindingsOf, DirectFindings, R1
  <2> QED BY <1>4, <2>1
<1> QED BY <1>1, <1>2, <1>5, <1>6

\* A feature that requires a witness has one home, and its rendering.
LEMMA OneHome ==
  ASSUME NEW f \in Features, required[f] > 0, G18Clean
  PROVE  /\ f \in rendered
         /\ \E c \in Crates : \A d \in Crates :
              (specs[<<d, f>>] # None /\ specs[<<d, f>>].valid) <=> d = c
<1>1. Covered(f)
  BY DEF G18Clean
<1>2. Homes(f) \subseteq Crates /\ IsFiniteSet(Homes(f))
  BY WorkspaceAssumption, FS_Subset DEF Homes
<1>3. PICK c : Homes(f) = {c}
  BY <1>1, <1>2, FS_Singleton DEF Covered
<1>4. \A d \in Crates : d \in Homes(f) <=> specs[<<d, f>>] # None /\ specs[<<d, f>>].valid
  BY DEF Homes, Valid
<1> QED BY <1>1, <1>2, <1>3, <1>4 DEF Covered

-----------------------------------------------------------------------------
(* The properties, of any state in which the invariant holds.              *)

LEMMA CleanFollows == ASSUME IInv PROVE CleanMeansClean
<1> SUFFICES ASSUME Clean PROVE CleanMeansClean!2
  BY DEF CleanMeansClean
<1>1. outcome.exit # None /\ ExitCode(Blocked) = 0 /\ outcome.ran = Executed
  BY WorkspaceAssumption DEF Clean, IInv, CheckedInv
<1>2. Pinned /\ Loaded /\ ~Blocking /\ ~Awaited
  BY <1>1, NothingFound
<1>3. setup.descriptor = "valid" /\ setup.policy # None /\ setup.policy \notin Unversioned
  BY <1>2 DEF Loaded, Blocking, P0
<1>4. ASSUME NEW g \in Gates, pins[g].declared
      PROVE  pins[g].text # None /\ pins[g].text = pins[g].recorded
  BY <1>2, <1>4 DEF Pinned, DeclaredPins
<1>5. ASSUME NEW a \in DOMAIN artifacts, artifacts[a].text # None, artifacts[a].receipts # <<>>
      PROVE  artifacts[a].text \in Range(artifacts[a].receipts)
  <2> DEFINE rs == artifacts[a].receipts
  <2>1. artifacts[a].text = Last(rs)
    BY <1>2, <1>5 DEF Blocking, Drifted
  <2>2. rs \in Seq(Range(rs))
    BY DEF IInv, ReceiptInv, IsReceiptList
  <2>3. Last(rs) \in Range(rs)
    BY <1>5, <2>2 DEF Last
  <2> QED BY <2>1, <2>3
<1>6. ASSUME NEW f \in tree, f.dir = "artifacts", f.holds = "other", f.name \in roots.protected
      PROVE  f.name \in roots.allowed \cup managed \/ <<issue, f.name>> \in grants
  <2>1. ProtectedWrites = {}
    BY <1>2 DEF Blocking, WriteSetClean
  <2> QED BY <1>6, <2>1 DEF ProtectedWrites, Audited, InPort, Vouched, Recognised, Granted
<1>7. ASSUME "g18" \in outcome.ran, NEW f \in Features, required[f] > 0
      PROVE  /\ f \in rendered
             /\ \E c \in Crates : \A d \in Crates :
                  (specs[<<d, f>>] # None /\ specs[<<d, f>>].valid) <=> d = c
  <2>1. G18Clean
    BY <1>1, <1>2, <1>7 DEF Blocking
  <2> QED BY <1>7, <2>1, OneHome
<1>8. ASSUME "g19" \in outcome.ran, NEW at \in Crates \X Features,
             specs[at] # None, specs[at].valid
      PROVE  regenerates[specs[at].id].hash = specs[at].hash
  <2>1. G19Clean
    BY <1>1, <1>2, <1>8 DEF Blocking
  <2> QED BY <1>8, <2>1 DEF G19Clean, Valid, Reproduced
<1>9. ASSUME "r1-g16" \in outcome.ran, NEW r \in Range(report.calls)
      PROVE  IF Unresolved(r) THEN r.tier = "low"
             ELSE r.id[1][1] = r.callee[1] \/ Edge(r) \in DOMAIN declared \/ r.shape = "inquiry"
  BY <1>1, <1>9, CallsSettled DEF IInv, Range
<1> QED BY <1>3, <1>4, <1>5, <1>6, <1>7, <1>8, <1>9

LEMMA InquiryFollows == ASSUME IInv PROVE InquiryIsCurrent
<1> SUFFICES ASSUME Clean, "r1-g16" \in outcome.ran, NEW r \in Range(report.calls),
                    ~Unresolved(r), r.id[1][1] # r.callee[1], Edge(r) \notin DOMAIN declared
             PROVE  /\ r.callee \in DOMAIN source /\ source[r.callee] = r.pinned
                    /\ r.pinned.bool /\ r.pinned.calls = <<>> /\ r.pinned.quiet
  BY DEF InquiryIsCurrent
<1>1. outcome.exit # None /\ ExitCode(Blocked) = 0 /\ "r1-g16" \in Executed
  BY WorkspaceAssumption DEF Clean, IInv, CheckedInv
<1>2. ReportValid /\ r.shape = "inquiry"
  BY <1>1, CallsSettled DEF IInv, Range
<1>3. ShapeRederived(r)
  BY <1>2 DEF ReportValid
<1> QED BY <1>2, <1>3 DEF ShapeRederived, Shape, Inquiry

LEMMA BridgesFollow == ASSUME IInv PROVE BridgesWerePassed
<1> SUFFICES ASSUME Clean, "g9" \in outcome.ran, NEW b \in BridgeIds, bridges[b] # None
             PROVE  <<b, Source(b)>> \in passed
  BY DEF BridgesWerePassed, Source, Owner
<1>1. outcome.exit # None /\ ExitCode(Blocked) = 0 /\ "g9" \in Executed
  BY WorkspaceAssumption DEF Clean, IInv, CheckedInv
<1>2. G9Clean
  BY <1>1, NothingFound DEF Blocking
<1>3. RecordStands(b)
  BY <1>2 DEF G9Clean, Promoted
<1> QED BY <1>3 DEF RecordStands, IInv, BridgeInv, ChecksWereMade

-----------------------------------------------------------------------------
(* The invariant is kept.                                                  *)

LEMMA Starting == Init => IInv
<1> SUFFICES ASSUME Init PROVE IInv
  OBVIOUS
<1>1. PICK w \in Starts :
        report = w.report /\ checks = w.checks /\ passed = w.passed /\ artifacts = w.artifacts
  BY DEF Init
<1>2. outcome.exit = None
  BY DEF Init, Unread
<1> QED BY <1>1, <1>2, WorkspaceAssumption
        DEF IInv, CheckedInv, ReportInv, BridgeInv, ReceiptInv

\* A refreshed report is one.
LEMMA ReportKept ==
  ASSUME ReportInv, NEW config, ExtractCStatic(config)
  PROVE  ReportInv'
<1> DEFINE calls == Extracted(source, Previous)
<1>1. report' = [config |-> config, calls |-> calls]
  BY DEF ExtractCStatic
<1>2. ASSUME NEW id \in DOMAIN calls, Unresolved(calls[id])
      PROVE  LET r == calls[id] IN
             /\ r = [id |-> id, class |-> r.class, call |-> r.call, tier |-> r.tier, by |-> r.by]
             /\ r.tier \in Tiers \cup {"medium"}
             /\ r.by \in {"human", "extractor"}
             /\ r.by = "extractor" => r.tier = "medium"
  <2> DEFINE call == CallsIn(source, id[1])[id[2]]
             carried == {r \in Previous : ByHuman(r) /\ r.id = id}
  <2>1. calls[id] = TieredRecord(source, id, call, Previous)
    BY <1>2 DEF Extracted, DirectRecord, Unresolved
  <2>2. CASE carried = {}
    BY <2>1, <2>2 DEF TieredRecord
  <2>3. CASE carried # {}
    <3> DEFINE r == CHOOSE x \in carried : TRUE
    <3>1. r \in carried
      BY <2>3
    <3>2. PICK x \in DOMAIN report.calls : report # None /\ r = report.calls[x]
      BY <3>1 DEF Previous, Range
    <3>4. r.tier \in Tiers \cup {"medium"}
      BY <3>1, <3>2 DEF ReportInv, IsReport, ByHuman
    <3>3. calls[id] = [id |-> id, class |-> calls[id].class, call |-> call, tier |-> r.tier,
                       by |-> "human"]
      BY <2>1, <2>3 DEF TieredRecord
    <3> QED BY <3>3, <3>4
  <2> QED BY <2>2, <2>3
<1>3. \A id \in DOMAIN calls : calls[id].id = id
  BY DEF Extracted, DirectRecord, TieredRecord
<1>4. calls = [id \in DOMAIN calls |-> calls[id]]
  BY DEF Extracted
<1> QED BY <1>1, <1>2, <1>3, <1>4 DEF ReportInv, IsReport

LEMMA ChecksKept == ASSUME BridgeInv, CheckBridges PROVE BridgeInv'
  BY DEF BridgeInv, ChecksWereMade, CheckBridges

\* A record with another tier and author.
Retier(r, t, h) == [r EXCEPT !.tier = t, !.by = h]

LEMMA Retiered ==
  ASSUME NEW id, NEW t, NEW h, NEW r,
         r = [id |-> id, class |-> r.class, call |-> r.call, tier |-> r.tier, by |-> r.by]
  PROVE  Retier(r, t, h)
           = [id |-> id, class |-> r.class, call |-> r.call, tier |-> t, by |-> h]
<1> DEFINE new == Retier(r, t, h)
           q == [id |-> id, class |-> r.class, call |-> r.call, tier |-> t, by |-> h]
           names == {"id", "class", "call", "tier", "by"}
<1>1. DOMAIN r = names
  OBVIOUS
<1>2. new.id = id /\ new.class = r.class /\ new.call = r.call /\ new.tier = t /\ new.by = h
  BY <1>1 DEF Retier
<1>3. q.id = id /\ q.class = r.class /\ q.call = r.call /\ q.tier = t /\ q.by = h
  OBVIOUS
<1>4. new = [x \in DOMAIN r |-> new[x]] /\ q = [x \in names |-> q[x]]
  BY DEF Retier
<1>5. \A x \in names : new[x] = q[x]
  BY <1>2, <1>3
<1> QED BY <1>1, <1>4, <1>5

\* What people judge stays a report.
LEMMA JudgedKept == ASSUME ReportInv, Judge PROVE ReportInv'
<1>1. PICK id \in DOMAIN report.calls, t \in Tiers :
        /\ Unresolved(report.calls[id])
        /\ report' = [report EXCEPT !.calls[id].tier = t, !.calls[id].by = "human"]
  BY DEF Judge
<1>2. IsReport(report)
  BY DEF Judge, ReportInv
<1> DEFINE r == report.calls[id]
           q == [id |-> id, class |-> r.class, call |-> r.call, tier |-> t, by |-> "human"]
<1>3. r = [id |-> id, class |-> r.class, call |-> r.call, tier |-> r.tier, by |-> r.by]
  BY <1>1, <1>2 DEF IsReport
<1>4. Retier(r, t, "human") = q
  BY <1>3, Retiered
<1>5. report'.calls = [x \in DOMAIN report.calls |-> IF x = id THEN q ELSE report.calls[x]]
  BY <1>1, <1>2, <1>4 DEF IsReport, Retier
<1>6. report' = [config |-> report.config, calls |-> report'.calls]
  BY <1>1, <1>2 DEF IsReport
<1>7. ASSUME NEW x \in DOMAIN report'.calls
      PROVE  LET c == report'.calls[x] IN
             /\ c.id = x
             /\ Unresolved(c) =>
                  /\ c = [id |-> x, class |-> c.class, call |-> c.call, tier |-> c.tier, by |-> c.by]
                  /\ c.tier \in Tiers \cup {"medium"}
                  /\ c.by \in {"human", "extractor"}
                  /\ c.by = "extractor" => c.tier = "medium"
  <2>1. CASE x = id
    BY <1>5, <2>1
  <2>2. CASE x # id
    BY <1>2, <1>5, <1>7, <2>2 DEF IsReport
  <2> QED BY <2>1, <2>2
<1>8. report'.calls = [x \in DOMAIN report'.calls |-> report'.calls[x]]
  BY <1>5
<1>9. report' # None => IsReport(report')
  BY <1>6, <1>7, <1>8 DEF IsReport
<1> QED BY <1>9 DEF ReportInv

-----------------------------------------------------------------------------
(* What is not touched is found as it was.                                 *)

LEMMA SameCalls ==
  ASSUME UNCHANGED callVars
  PROVE  ReportValid' = ReportValid /\ R1G16Findings' = R1G16Findings
<1>1. ReportValid' = ReportValid
  BY DEF callVars, ReportValid, Range, ShapeRederived, Shape, Inquiry, Unresolved
<1>2. \A r : FindingsOf(r)' = FindingsOf(r)
  BY DEF callVars, FindingsOf, Unresolved, UnresolvedFindings, DirectFindings, ConfigFindings,
         Edge, R1, TierSeverity
<1>3. Realized' = Realized
  BY DEF callVars, Realized, Range, Edge, Unresolved
<1>4. Reconcile' = Reconcile
  BY <1>2, <1>3 DEF callVars, Reconcile, Range, R1
<1> QED BY <1>1, <1>4 DEF R1G16Findings, R1

LEMMA SameBridges ==
  ASSUME UNCHANGED bridgeVars
  PROVE  G9Clean' = G9Clean /\ Promoted' = Promoted /\ Checked' = Checked
<1>1. \A b : Owner(b)' = Owner(b)
  BY DEF bridgeVars, Owner
<1>2. \A b : Source(b)' = Source(b) /\ Compiled(b)' = Compiled(b)
  BY <1>1 DEF bridgeVars, Source, Compiled
<1>3. \A b : RecordStands(b)' = RecordStands(b) /\ ReportsAgree(b)' = ReportsAgree(b)
  BY <1>1, <1>2 DEF bridgeVars, RecordStands, ReportsAgree
<1>4. Promoted' = Promoted /\ Checked' = Checked
  BY DEF bridgeVars, Promoted, Checked
<1> QED BY <1>1, <1>2, <1>3, <1>4 DEF G9Clean, bridgeVars

LEMMA SameWitnesses ==
  ASSUME UNCHANGED witnessVars
  PROVE  /\ G18Clean' = G18Clean /\ G19Clean' = G19Clean /\ G20Clean' = G20Clean
         /\ HasWitnesses' = HasWitnesses
<1>1. Valid' = Valid /\ HasWitnesses' = HasWitnesses
  BY DEF witnessVars, Valid, HasWitnesses
<1>2. \A f : Homes(f)' = Homes(f)
  BY <1>1 DEF Homes
<1>3. \A id : Declaring(id)' = Declaring(id)
  BY <1>1 DEF Declaring, witnessVars
<1>4. \A at : Reproduced(at)' = Reproduced(at)
  BY DEF Reproduced, SameIdentity, witnessVars
<1>5. \A f : Covered(f)' = Covered(f)
  BY <1>2 DEF Covered, witnessVars
<1> QED BY <1>1, <1>3, <1>4, <1>5 DEF G18Clean, G19Clean, G20Clean, witnessVars

LEMMA SameTree ==
  ASSUME UNCHANGED writeVars
  PROVE  WriteSetClean' = WriteSetClean
<1>1. ProtectedWrites' = ProtectedWrites /\ OutOfSet' = OutOfSet
  BY DEF writeVars, ProtectedWrites, OutOfSet, Audited, InPort, Vouched, Recognised, Granted
<1> QED BY <1>1 DEF WriteSetClean, writeVars

LEMMA SameVerdict ==
  ASSUME UNCHANGED <<callVars, bridgeVars, witnessVars, writeVars, deskVars>>
  PROVE  ExitCode(Blocked)' = ExitCode(Blocked) /\ Executed' = Executed
<1>1. Loaded' = Loaded /\ P0' = P0 /\ PolicyDrifted' = PolicyDrifted
  BY DEF deskVars, Loaded, P0, PolicyDrifted
<1>2. Pinned' = Pinned
  BY <1>1 DEF deskVars, Pinned, DeclaredPins
<1>3. Executed' = Executed
  BY <1>1, SameBridges, SameWitnesses DEF callVars, witnessVars, deskVars, Executed
<1>4. Blocked' = Blocked
  BY <1>1, <1>3, SameBridges, SameWitnesses DEF Blocked
<1>5. CallFindings' = CallFindings
  BY <1>3, SameCalls DEF CallFindings
<1>6. Blocking' = Blocking
  <2>1. \A a : Drifted(a)' = Drifted(a)
    BY DEF deskVars, Drifted
  <2> QED BY <1>1, <1>2, <1>3, <1>5, <2>1, SameCalls, SameBridges, SameWitnesses, SameTree
          DEF callVars, deskVars, Blocking
<1>7. Awaited' = Awaited
  BY <1>5 DEF deskVars, Awaited
<1> QED BY <1>1, <1>2, <1>3, <1>4, <1>6, <1>7 DEF ExitCode

-----------------------------------------------------------------------------
\* Whoever acts takes the exit code away, and leaves reports, checks and
\* receipts of their shapes.
LEMMA NextKeeps == ASSUME IInv, Next PROVE IInv'
<1> USE DEF IInv
<1>1. CASE Check
  <2>1. outcome'.exit = ExitCode(Blocked) /\ outcome'.ran = Executed
    BY <1>1 DEF Check
  <2>2. UNCHANGED <<callVars, bridgeVars, witnessVars, writeVars, deskVars>>
    BY <1>1 DEF Check
  <2>3. CheckedInv'
    BY <2>1, <2>2, SameVerdict DEF CheckedInv
  <2> QED BY <2>2, <2>3 DEF callVars, bridgeVars, deskVars, ReportInv, BridgeInv, ChecksWereMade,
             ReceiptInv
<1>2. CASE Act \/ People
  <2>1. outcome'.exit = None
    <3>1. ASSUME Act PROVE outcome' = Unread
      BY <3>1 DEF Act, RefreshCStatic, RefreshBridgeChecks, RefreshWitness, PromoteEvidence,
         AuthorInteraction, Perform
    <3>2. ASSUME People PROVE Someone
      <4>1. Judge => Someone
        BY DEF Judge
      <4>2. Approve => Someone
        BY DEF Approve
      <4>3. EditCalls => Someone
        BY DEF EditCalls
      <4>4. EditBridges => Someone
        BY DEF EditBridges
      <4>5. EditWitnesses => Someone
        BY DEF EditWitnesses
      <4>6. EditTree => Someone
        BY DEF EditTree
      <4>7. EditDesk => Someone
        BY DEF EditDesk
      <4> QED BY <3>2, <4>1, <4>2, <4>3, <4>4, <4>5, <4>6, <4>7 DEF People
    <3> QED BY <1>2, <3>1, <3>2 DEF Someone, Unread
  <2>2. ReportInv'
    <3>1. CASE \E c \in Configs : ExtractCStatic(c)
      BY <3>1, ReportKept
    <3>2. CASE Judge
      BY <3>2, JudgedKept
    <3>3. CASE UNCHANGED report
      BY <3>3 DEF ReportInv
    <3> QED BY <1>2, <3>1, <3>2, <3>3
            DEF Act, RefreshCStatic, RefreshBridgeChecks, RefreshWitness, PromoteEvidence,
                AuthorInteraction, People, Approve, EditCalls, EditBridges, EditWitnesses,
                EditTree, EditDesk, callVars
  <2>3. BridgeInv'
    <3>1. CASE CheckBridges
      BY <3>1, ChecksKept
    <3>2. CASE UNCHANGED <<checks, passed>>
      BY <3>2 DEF BridgeInv, ChecksWereMade
    <3>3. CASE \E b \in BridgeIds : checks' = [checks EXCEPT ![b] = None] /\ passed' = passed
      BY <3>3 DEF BridgeInv, ChecksWereMade
    <3> QED BY <1>2, <3>1, <3>2, <3>3
            DEF Act, RefreshCStatic, RefreshBridgeChecks, RefreshWitness, PromoteEvidence,
                AuthorInteraction, People, Judge, Approve, EditCalls, EditBridges, EditWitnesses,
                EditTree, EditDesk, bridgeVars
  <2>4. ReceiptInv'
    <3>1. CASE UNCHANGED artifacts
      BY <3>1 DEF ReceiptInv
    <3>2. CASE \E a \in DOMAIN artifacts, x \in Edits.artifact :
                 artifacts' = [artifacts EXCEPT ![a] = x]
      BY <3>2, WorkspaceAssumption DEF ReceiptInv
    <3> QED BY <1>2, <3>1, <3>2
            DEF Act, RefreshCStatic, RefreshBridgeChecks, RefreshWitness, PromoteEvidence,
                AuthorInteraction, People, Judge, Approve, EditCalls, EditBridges, EditWitnesses,
                EditTree, EditDesk, deskVars
  <2> QED BY <2>1, <2>2, <2>3, <2>4 DEF CheckedInv
<1> QED BY <1>1, <1>2 DEF Next

LEMMA StutterKeeps == ASSUME IInv, UNCHANGED vars PROVE IInv'
<1>1. UNCHANGED <<callVars, bridgeVars, witnessVars, writeVars, deskVars>> /\ outcome' = outcome
  BY DEF vars
<1>2. CheckedInv'
  BY <1>1, SameVerdict DEF IInv, CheckedInv
<1> QED BY <1>1, <1>2 DEF IInv, callVars, bridgeVars, deskVars, ReportInv, BridgeInv,
        ChecksWereMade, ReceiptInv

LEMMA Inductive == Spec => []IInv
<1>1. IInv /\ [Next]_vars => IInv'
  BY NextKeeps, StutterKeeps
<1> QED BY Starting, <1>1, PTL DEF Spec

-----------------------------------------------------------------------------
(* A refresh and the tiers humans set.                                     *)

\* What is carried over to a call is what the report had for its id.
LEMMA CarriedOver ==
  ASSUME ReportInv, NEW id
  PROVE  LET carried == {r \in Previous : ByHuman(r) /\ r.id = id} IN
         IF report # None /\ id \in DOMAIN report.calls /\ ByHuman(report.calls[id])
         THEN carried = {report.calls[id]} ELSE carried = {}
<1>1. report # None => \A x \in DOMAIN report.calls : report.calls[x].id = x
  BY DEF ReportInv, IsReport
<1> QED BY <1>1 DEF Previous, Range

\* A refreshed tier that bears a human's name was that human's.
LEMMA NoTierInvented ==
  ASSUME ReportInv, NEW config, ExtractCStatic(config),
         NEW id \in DOMAIN report'.calls, ByHuman(report'.calls[id])
  PROVE  /\ report # None /\ id \in DOMAIN report.calls /\ ByHuman(report.calls[id])
         /\ report'.calls[id].tier = report.calls[id].tier
<1> DEFINE call == CallsIn(source, id[1])[id[2]]
           new == TieredRecord(source, id, call, Previous)
<1>1. report'.calls[id] = new
  BY DEF ExtractCStatic, Extracted, DirectRecord, ByHuman, Unresolved
<1>2. new.by = "human"
  BY <1>1 DEF ByHuman
<1>3. report # None /\ id \in DOMAIN report.calls /\ ByHuman(report.calls[id])
  BY <1>2, CarriedOver DEF TieredRecord
<1>4. new.tier = report.calls[id].tier
  BY <1>3, CarriedOver DEF TieredRecord
<1> QED BY <1>1, <1>3, <1>4

\* A call of a source that has not changed keeps its record.
LEMMA SameRecords ==
  ASSUME ReportInv, report # None, Untiered(report.calls) = Extracted(source, {})
  PROVE  Extracted(source, Previous) = report.calls
<1> DEFINE old == report.calls
           new == Extracted(source, Previous)
           bare == Extracted(source, {})
<1>1. DOMAIN old = CallIds(source) /\ DOMAIN new = CallIds(source)
  BY DEF Untiered, Extracted
<1>2. old = [id \in CallIds(source) |-> old[id]] /\ new = [id \in CallIds(source) |-> new[id]]
  BY <1>1 DEF ReportInv, IsReport, Extracted
<1>3. ASSUME NEW id \in CallIds(source)
      PROVE  new[id] = old[id]
  <2> DEFINE call == CallsIn(source, id[1])[id[2]]
             direct == Direct(source, id[1], call)
             carried == {r \in Previous : ByHuman(r) /\ r.id = id}
  <2>1. bare[id] = IF Unresolved(old[id]) THEN [old[id] EXCEPT !.tier = "medium", !.by = "extractor"]
                   ELSE old[id]
    BY <1>1 DEF Untiered
  <2>2. bare[id] = IF direct THEN DirectRecord(source, id, call)
                   ELSE TieredRecord(source, id, call, {})
    BY DEF Extracted
  <2>3. new[id] = IF direct THEN DirectRecord(source, id, call)
                  ELSE TieredRecord(source, id, call, Previous)
    BY DEF Extracted
  <2>4. ASSUME Unresolved(old[id])
        PROVE  /\ old[id] = [id |-> id, class |-> old[id].class, call |-> old[id].call,
                             tier |-> old[id].tier, by |-> old[id].by]
               /\ old[id].by \in {"human", "extractor"}
               /\ old[id].by = "extractor" => old[id].tier = "medium"
    BY <1>1, <2>4 DEF ReportInv, IsReport
  <2>5. ASSUME Unresolved(old[id])
        PROVE  bare[id] = [id |-> id, class |-> old[id].class, call |-> old[id].call,
                           tier |-> "medium", by |-> "extractor"]
    <3> DEFINE r == old[id]
    <3>1. r = [id |-> id, class |-> r.class, call |-> r.call, tier |-> r.tier, by |-> r.by]
      BY <2>4, <2>5
    <3>2. bare[id] = Retier(r, "medium", "extractor")
      BY <2>1, <2>5 DEF Retier
    <3>3. bare[id] = [id |-> id, class |-> r.class, call |-> r.call, tier |-> "medium",
                      by |-> "extractor"]
      BY <3>1, <3>2, Retiered
    <3> QED BY <3>3
  <2>6. CASE direct
    <3>1. bare[id].class = "direct"
      BY <2>2, <2>6 DEF DirectRecord
    <3>2. ~Unresolved(old[id])
      BY <2>5, <3>1 DEF Unresolved
    <3> QED BY <2>1, <2>2, <2>3, <2>6, <3>2
  <2>7. CASE ~direct
    <3>1. bare[id].class # "direct"
      BY <2>2, <2>7 DEF TieredRecord
    <3>2. Unresolved(old[id])
      BY <2>1, <3>1 DEF Unresolved
    <3>3. bare[id] = [id |-> id,
                      class |-> IF Dispatch(source, id[1], call) THEN "dispatch" ELSE "indirect",
                      call |-> call, tier |-> "medium", by |-> "extractor"]
      BY <2>2, <2>7 DEF TieredRecord
    <3>4. /\ old[id].class = IF Dispatch(source, id[1], call) THEN "dispatch" ELSE "indirect"
          /\ old[id].call = call
      BY <2>5, <3>2, <3>3
    <3>5. CASE ByHuman(old[id])
      <4>1. carried = {old[id]}
        BY <1>1, <3>5, CarriedOver
      <4> QED BY <2>3, <2>4, <2>7, <3>2, <3>4, <3>5, <4>1 DEF TieredRecord, ByHuman
    <3>6. CASE ~ByHuman(old[id])
      <4>1. carried = {}
        BY <1>1, <3>6, CarriedOver
      <4>2. old[id].by = "extractor"
        BY <2>4, <3>2, <3>6 DEF ByHuman
      <4> QED BY <2>3, <2>4, <2>7, <3>2, <3>4, <4>1, <4>2 DEF TieredRecord
    <3> QED BY <3>5, <3>6
  <2> QED BY <2>6, <2>7
<1> QED BY <1>2, <1>3

-----------------------------------------------------------------------------
\* Exit code 0 of `check` says of any workspace, whatever was done to it
\* before, what a reader takes it to say (project_state.py, exit_codes.py):
\* none of the findings that make it is lost on the way.
THEOREM CheckIsHonest == Spec => []CleanMeansClean
  BY Inductive, CleanFollows, PTL

\* A refresh keeps what humans said of each call of an unchanged source, and
\* invents nothing in a human's name (_human_tiers, extract_c_static.py).
THEOREM TiersStay == Spec => TiersSurvive
<1>1. ASSUME IInv, NEW c \in Configs, ExtractCStatic(c)
      PROVE  /\ report # None /\ Untiered(report.calls) = Extracted(source, {}) =>
                  report'.calls = report.calls
             /\ \A id \in DOMAIN report'.calls : ByHuman(report'.calls[id]) =>
                  /\ report # None /\ id \in DOMAIN report.calls /\ ByHuman(report.calls[id])
                  /\ report'.calls[id].tier = report.calls[id].tier
  <2>1. ReportInv
    BY <1>1 DEF IInv
  <2>2. report'.calls = Extracted(source, Previous)
    BY <1>1 DEF ExtractCStatic
  <2>3. ASSUME report # None, Untiered(report.calls) = Extracted(source, {})
        PROVE  report'.calls = report.calls
    BY <2>1, <2>2, <2>3, SameRecords
  <2>4. ASSUME NEW id \in DOMAIN report'.calls, ByHuman(report'.calls[id])
        PROVE  /\ report # None /\ id \in DOMAIN report.calls /\ ByHuman(report.calls[id])
               /\ report'.calls[id].tier = report.calls[id].tier
    BY <1>1, <2>1, <2>4, NoTierInvented
  <2> QED BY <2>3, <2>4
<1>2. IInv =>
        ((\E c \in Configs : ExtractCStatic(c)) =>
           /\ report # None /\ Untiered(report.calls) = Extracted(source, {}) =>
                report'.calls = report.calls
           /\ \A id \in DOMAIN report'.calls : ByHuman(report'.calls[id]) =>
                /\ report # None /\ id \in DOMAIN report.calls /\ ByHuman(report.calls[id])
                /\ report'.calls[id].tier = report.calls[id].tier)
  BY <1>1
<1> QED BY <1>2, Inductive, PTL DEF TiersSurvive

\* The undeclared call that a clean check lets pass goes to a method that is
\* an inquiry in the source as it is (validate_callsites.py, gate_r1_g16.py).
THEOREM InquiryStaysCurrent == Spec => []InquiryIsCurrent
  BY Inductive, InquiryFollows, PTL

\* Behind each bridge of a clean check is a pass of its present harness by its
\* present owner (gate_g9.py), however bridges, owners, backends and records
\* were edited in between.
THEOREM BridgesStayPassed == Spec => []BridgesWerePassed
  BY Inductive, BridgesFollow, PTL

-----------------------------------------------------------------------------
(* promote-evidence.                                                       *)

\* One command runs at a time.
OneCommand == \A a, b \in Actors : a = b

\* What a running promotion has read passed its validator, unless it was staged
\* again since.
StillChecked(a) ==
  pc[a] # "idle" =>
    /\ job[a].id \in Ids
    /\ draft[job[a].id] \in ValidTexts \cup {None} \/ job[a].id \in restaged

\* With the types it takes, and what RecordsValid states.
EvidenceInv ==
  /\ DOMAIN draft = Ids /\ DOMAIN record = Ids
  /\ DOMAIN pc = Actors /\ job \in [Actors -> [id : Ids \cup {None}, mark : Nat]]
  /\ \A i \in Ids : record[i] \in ValidTexts \cup {None} \/ i \in restaged
  /\ trail \in Seq(Ids \cup {Fragment, Damaged})
  /\ \A a \in Actors : StillChecked(a)

LEMMA EvidenceStarts == EvidenceInit => EvidenceInv
<1>1. EvidenceInit => trail \in Seq(Ids \cup {Fragment, Damaged})
  BY DEF EvidenceInit
<1> QED BY <1>1 DEF EvidenceInit, EvidenceInv, StillChecked, NoJob

\* A step that leaves the files alone, of a process that knows what it promotes.
LEMMA PromotionMoves ==
  ASSUME EvidenceInv, NEW a \in Actors, UNCHANGED <<draft, record, restaged>>,
         trail' \in Seq(Ids \cup {Fragment, Damaged}),
         NEW STATE step, pc' = [pc EXCEPT ![a] = step],
         NEW STATE own, own \in [id : Ids \cup {None}, mark : Nat], job' = [job EXCEPT ![a] = own],
         step # "idle" => own.id \in Ids /\ (draft[own.id] \in ValidTexts \cup {None} \/ own.id \in restaged)
  PROVE  EvidenceInv'
<1>1. \A b \in Actors : StillChecked(b)'
  BY DEF EvidenceInv, StillChecked
<1> QED BY <1>1 DEF EvidenceInv

LEMMA EvidenceKept == EvidenceInv /\ [EvidenceNext]_evidenceVars => EvidenceInv'
<1> SUFFICES ASSUME EvidenceInv, [EvidenceNext]_evidenceVars PROVE EvidenceInv'
  OBVIOUS
<1> DEFINE Lines == Ids \cup {Fragment, Damaged}
<1>0. /\ trail \in Seq(Lines) /\ Len(trail) \in Nat
      /\ \A a \in Actors : job[a] \in [id : Ids \cup {None}, mark : Nat]
  BY DEF EvidenceInv
<1>1. ASSUME NEW i \in Ids, NEW text \in Texts, Stage(i, text) PROVE EvidenceInv'
  <2>1. \A b \in Actors : StillChecked(b)'
    BY <1>1 DEF Stage, EvidenceInv, StillChecked
  <2> QED BY <1>1, <2>1 DEF Stage, EvidenceInv
<1>2. ASSUME NEW a \in Actors, NEW i \in Ids, PromoteRead(a, i) PROVE EvidenceInv'
  <2> DEFINE own == [job[a] EXCEPT !.id = i]
  <2>1. own \in [id : Ids \cup {None}, mark : Nat] /\ own.id = i
    BY <1>0
  <2>2. job' = [job EXCEPT ![a] = own] /\ pc' = [pc EXCEPT ![a] = "mark"]
    BY <1>2 DEF PromoteRead, Goto, EvidenceInv
  <2> HIDE DEF own
  <2> QED BY <1>2, <2>1, <2>2, PromotionMoves DEF PromoteRead, EvidenceInv
<1>3. ASSUME NEW a \in Actors, PromoteMark(a) PROVE EvidenceInv'
  <2> DEFINE own == [job[a] EXCEPT !.mark = Len(trail)]
  <2>1. own \in [id : Ids \cup {None}, mark : Nat] /\ own.id = job[a].id
    BY <1>0
  <2>2. job' = [job EXCEPT ![a] = own] /\ pc' = [pc EXCEPT ![a] = "append"]
    BY <1>3 DEF PromoteMark, Goto, EvidenceInv
  <2> HIDE DEF own
  <2> QED BY <1>3, <2>1, <2>2, PromotionMoves DEF PromoteMark, EvidenceInv, StillChecked
<1>4. ASSUME NEW a \in Actors, PromoteAppend(a) PROVE EvidenceInv'
  <2>1. job[a].id \in Ids
    BY <1>4 DEF PromoteAppend, EvidenceInv, StillChecked
  <2>2. Appended(trail, <<job[a].id>>) \in Seq(Lines)
    <3>1. <<job[a].id>> \in Seq(Lines) /\ <<job[a].id>> # <<>> /\ Damaged \in Lines
      BY <2>1
    <3> HIDE DEF Lines
    <3> QED BY <1>0, <3>1, AppendedKeeps
  <2>3. job' = [job EXCEPT ![a] = job[a]]
    BY <1>4 DEF PromoteAppend, EvidenceInv
  <2> QED BY <1>0, <1>4, <2>1, <2>2, <2>3, PromotionMoves DEF PromoteAppend, Goto, EvidenceInv, StillChecked
<1>5. NoJob \in [id : Ids \cup {None}, mark : Nat]
  BY DEF NoJob
<1>6. ASSUME NEW a \in Actors PROVE TruncatedTo(trail, job[a].mark) \in Seq(Lines)
  <2>1. job[a].mark \in Nat /\ Fragment \in Lines
    BY <1>0
  <2> HIDE DEF Lines
  <2> QED BY <1>0, <2>1, TruncatedType
<1>7. ASSUME NEW a \in Actors, PromoteAppendFails(a) PROVE EvidenceInv'
  BY <1>0, <1>5, <1>6, <1>7, PromotionMoves DEF PromoteAppendFails, End
<1>8. ASSUME NEW a \in Actors, PromoteReplace(a) PROVE EvidenceInv'
  <2>1. job[a].id \in Ids /\ (draft[job[a].id] \in ValidTexts \cup {None} \/ job[a].id \in restaged)
    BY <1>8 DEF PromoteReplace, EvidenceInv, StillChecked
  <2>2. CASE draft[job[a].id] # None
    <3>1. /\ record' = [record EXCEPT ![job[a].id] = draft[job[a].id]]
          /\ draft' = [draft EXCEPT ![job[a].id] = None]
          /\ pc' = [pc EXCEPT ![a] = "idle"] /\ job' = [job EXCEPT ![a] = NoJob]
          /\ UNCHANGED <<trail, restaged>>
      BY <1>8, <2>2 DEF PromoteReplace, End
    <3>2. \A b \in Actors : StillChecked(b)'
      BY <3>1 DEF EvidenceInv, StillChecked
    <3>3. \A i \in Ids : record'[i] \in ValidTexts \cup {None} \/ i \in restaged
      BY <2>1, <2>2, <3>1 DEF EvidenceInv
    <3> QED BY <1>5, <3>1, <3>2, <3>3 DEF EvidenceInv
  <2>3. CASE draft[job[a].id] = None
    <3>1. job' = [job EXCEPT ![a] = job[a]]
      BY <1>8, <2>3 DEF PromoteReplace, EvidenceInv
    <3> QED BY <1>0, <1>8, <2>1, <2>3, <3>1, PromotionMoves DEF PromoteReplace, Goto
  <2> QED BY <2>2, <2>3
<1>9. ASSUME NEW a \in Actors, PromoteReplaceFails(a) PROVE EvidenceInv'
  <2>1. job' = [job EXCEPT ![a] = job[a]]
    BY <1>9 DEF PromoteReplaceFails, EvidenceInv
  <2> QED BY <1>0, <1>9, <2>1, PromotionMoves DEF PromoteReplaceFails, Goto, EvidenceInv, StillChecked
<1>10. ASSUME NEW a \in Actors, PromoteTruncate(a) PROVE EvidenceInv'
  BY <1>5, <1>6, <1>10, PromotionMoves DEF PromoteTruncate, End
<1>11. ASSUME NEW a \in Actors, Crash(a) PROVE EvidenceInv'
  <2>1. Append(trail, Fragment) \in Seq(Lines)
    BY <1>0
  <2> QED BY <1>0, <1>5, <1>11, <2>1, PromotionMoves DEF Crash, End
<1>12. CASE UNCHANGED evidenceVars
  BY <1>12 DEF evidenceVars, EvidenceInv, StillChecked
<1> QED BY <1>1, <1>2, <1>3, <1>4, <1>7, <1>8, <1>9, <1>10, <1>11, <1>12 DEF EvidenceNext, Promote

\* However many promotions run and die: a promoted record passes its validator,
\* unless its draft was staged again under a promotion of it.
THEOREM RecordsStayValid == EvidenceSpec => []RecordsValid
<1>1. EvidenceInv => RecordsValid
  BY DEF EvidenceInv, RecordsValid
<1> QED BY <1>1, EvidenceStarts, EvidenceKept, PTL DEF EvidenceSpec
-----------------------------------------------------------------------------
\* How many of the first n lines of a trail name i.
Below(lines, n, i) == Cardinality({k \in 1..n : lines[k] = i})

LEMMA BelowGrows ==
  ASSUME NEW lines, NEW n \in Nat, NEW i
  PROVE  /\ Below(lines, n, i) \in Nat
         /\ Below(lines, n + 1, i) = Below(lines, n, i) + (IF lines[n + 1] = i THEN 1 ELSE 0)
<1> DEFINE S == {k \in 1..n : lines[k] = i}
           T == {k \in 1..(n + 1) : lines[k] = i}
<1>1. IsFiniteSet(S) /\ Cardinality(S) \in Nat
  <2>1. IsFiniteSet(1..n) /\ S \in SUBSET (1..n)
    BY FS_Interval
  <2> HIDE DEF S
  <2> QED BY <2>1, FS_Subset, FS_CardinalityType
<1>2. CASE lines[n + 1] = i
  <2>1. T = S \cup {n + 1} /\ n + 1 \notin S
    BY <1>2
  <2> HIDE DEF S, T
  <2>2. Cardinality(T) = Cardinality(S) + 1
    BY <1>1, <2>1, FS_AddElement
  <2> QED BY <1>1, <1>2, <2>2 DEF Below, S, T
<1>3. CASE lines[n + 1] # i
  <2>1. T = S
    BY <1>3
  <2> QED BY <1>1, <1>3, <2>1 DEF Below
<1> QED BY <1>2, <1>3

LEMMA BelowSame ==
  ASSUME NEW lines, NEW other, NEW n \in Nat, \A k \in 1..n : other[k] = lines[k], NEW i
  PROVE  Below(other, n, i) = Below(lines, n, i)
<1>1. {k \in 1..n : other[k] = i} = {k \in 1..n : lines[k] = i}
  OBVIOUS
<1> QED BY <1>1 DEF Below

\* The line written behind a fragment.
LEMMA Glued ==
  ASSUME NEW line PROVE [<<line>> EXCEPT ![1] = Damaged] = <<Damaged>>
OBVIOUS

\* The first n lines number the promotions and those that died.
Counted(lines, n) ==
  \A i \in Ids :
    /\ (\A k \in 1..n : lines[k] \notin {Fragment, Damaged}) => promoted[i] <= Below(lines, n, i)
    /\ Below(lines, n, i) <= promoted[i] + died[i]

\* A promotion past its append has one line behind n, its own unless it was
\* glued to a fragment.
Behind(a, n) ==
  /\ pc[a] \in {"replace", "truncate"} =>
       /\ job[a].mark = n /\ Len(trail) = n + 1
       /\ trail[n + 1] \in {job[a].id, Damaged}
       /\ (\A k \in 1..n : trail[k] \notin {Fragment, Damaged}) => trail[n + 1] = job[a].id
  /\ pc[a] = "append" => job[a].mark = Len(trail)
  /\ pc[a] \notin {"replace", "truncate"} => n = Len(trail)

\* Some n lines are counted, and what is behind them belongs to the promotions
\* past their append; nothing does between commands.
LinesInv ==
  /\ promoted \in [Ids -> Nat] /\ died \in [Ids -> Nat]
  /\ \E n \in Nat : /\ n <= Len(trail) /\ Counted(trail, n)
                    /\ \A a \in Actors : Behind(a, n)
                    /\ AtRest => n = Len(trail)

LEMMA LinesStart == EvidenceInit => LinesInv
<1> SUFFICES ASSUME EvidenceInit PROVE LinesInv
  OBVIOUS
<1>1. trail = <<>> /\ Len(trail) = 0
  BY DEF EvidenceInit
<1>2. ASSUME NEW i PROVE Below(trail, 0, i) = 0
  <2>1. {k \in 1..0 : trail[k] = i} = {}
    OBVIOUS
  <2> QED BY <2>1, FS_EmptySet DEF Below
<1>3. promoted \in [Ids -> Nat] /\ died \in [Ids -> Nat] /\ \A i \in Ids : promoted[i] = 0 /\ died[i] = 0
  BY DEF EvidenceInit
<1>4. Counted(trail, 0)
  BY <1>2, <1>3 DEF Counted
<1>5. \A a \in Actors : Behind(a, 0)
  BY <1>1 DEF EvidenceInit, Behind
<1> QED BY <1>1, <1>3, <1>4, <1>5 DEF LinesInv

\* A step of the one command, past which n lines are counted.
LEMMA LinesMove ==
  ASSUME OneCommand, NEW a \in Actors, NEW n \in Nat, n <= Len(trail'),
         promoted' \in [Ids -> Nat], died' \in [Ids -> Nat],
         Counted(trail, n)', Behind(a, n)'
  PROVE  LinesInv'
<1>1. \A b \in Actors : b = a
  BY DEF OneCommand
<1>2. \A b \in Actors : Behind(b, n)'
  BY <1>1
<1>3. AtRest' => n = Len(trail')
  BY DEF AtRest, Behind
<1>4. /\ n <= Len(trail)' /\ Counted(trail, n)' /\ (AtRest' => n = Len(trail)')
      /\ \A b \in Actors : Behind(b, n)'
  BY <1>2, <1>3
<1> QED BY <1>4 DEF LinesInv

\* One more line is counted.
LEMMA CountedGrows ==
  ASSUME NEW n \in Nat, Counted(trail, n), NEW i \in Ids, NEW p \in Nat, NEW d \in Nat,
         promoted \in [Ids -> Nat], died \in [Ids -> Nat],
         (\A k \in 1..(n + 1) : trail[k] \notin {Fragment, Damaged}) =>
           p <= promoted[i] + (IF trail[n + 1] = i THEN 1 ELSE 0),
         promoted[i] + died[i] + (IF trail[n + 1] = i THEN 1 ELSE 0) <= p + d
  PROVE  /\ (\A k \in 1..(n + 1) : trail[k] \notin {Fragment, Damaged}) => p <= Below(trail, n + 1, i)
         /\ Below(trail, n + 1, i) <= p + d
<1>1. /\ Below(trail, n, i) \in Nat /\ promoted[i] \in Nat /\ died[i] \in Nat
      /\ Below(trail, n + 1, i) = Below(trail, n, i) + (IF trail[n + 1] = i THEN 1 ELSE 0)
  BY BelowGrows
<1>2. Below(trail, n, i) <= promoted[i] + died[i]
  BY DEF Counted
<1>3. (\A k \in 1..(n + 1) : trail[k] \notin {Fragment, Damaged}) => promoted[i] <= Below(trail, n, i)
  <2>1. \A k \in 1..n : k \in 1..(n + 1)
    OBVIOUS
  <2> QED BY <2>1 DEF Counted
<1> QED BY <1>1, <1>2, <1>3

LEMMA LinesKept == OneCommand /\ EvidenceInv /\ LinesInv /\ [EvidenceNext]_evidenceVars => LinesInv'
<1> SUFFICES ASSUME OneCommand, EvidenceInv, LinesInv, [EvidenceNext]_evidenceVars PROVE LinesInv'
  OBVIOUS
<1> DEFINE Lines == Ids \cup {Fragment, Damaged}
<1>0. /\ trail \in Seq(Lines) /\ Len(trail) \in Nat
      /\ promoted \in [Ids -> Nat] /\ died \in [Ids -> Nat]
      /\ \A a \in Actors : job[a] \in [id : Ids \cup {None}, mark : Nat]
      /\ DOMAIN pc = Actors /\ DOMAIN job = Actors
  BY DEF EvidenceInv, LinesInv
<1> PICK n \in Nat : /\ n <= Len(trail) /\ Counted(trail, n)
                     /\ \A a \in Actors : Behind(a, n)
                     /\ AtRest => n = Len(trail)
  BY DEF LinesInv
<1>n. n \in Nat /\ n <= Len(trail)
  OBVIOUS
<1>1. Fragment \notin Ids /\ Damaged \notin Ids
  BY EvidenceAssumption
\* The trail and what was promoted stay, and so does n.
<1>2. ASSUME NEW a \in Actors, UNCHANGED <<trail, promoted, died>>, Behind(a, n)' PROVE LinesInv'
  <2>1. Counted(trail, n)'
    BY <1>2 DEF Counted
  <2> QED BY <1>0, <1>2, <2>1, LinesMove
\* A promotion past its append is done with, or dies there.
<1>3. ASSUME NEW a \in Actors, pc[a] \in {"replace", "truncate"}, trail' = trail, pc'[a] = "idle",
             promoted' \in [Ids -> Nat], died' \in [Ids -> Nat],
             \A i \in Ids : promoted[i] <= promoted'[i] /\ promoted'[i] <= promoted[i] + (IF i = job[a].id THEN 1 ELSE 0),
             \A i \in Ids : promoted'[i] + died'[i] = promoted[i] + died[i] + (IF i = job[a].id THEN 1 ELSE 0)
      PROVE  LinesInv'
  <2>1. /\ Len(trail) = n + 1 /\ trail[n + 1] \in {job[a].id, Damaged}
        /\ (\A k \in 1..n : trail[k] \notin {Fragment, Damaged}) => trail[n + 1] = job[a].id
    BY <1>3 DEF Behind
  <2>2. ASSUME NEW i \in Ids
        PROVE  /\ (\A k \in 1..(n + 1) : trail[k] \notin {Fragment, Damaged}) => promoted'[i] <= Below(trail, n + 1, i)
               /\ Below(trail, n + 1, i) <= promoted'[i] + died'[i]
    <3> DEFINE p == promoted'[i]
               d == died'[i]
    <3>1. p \in Nat /\ d \in Nat /\ promoted[i] \in Nat /\ died[i] \in Nat
      BY <1>0, <1>3
    <3>2. (\A k \in 1..(n + 1) : trail[k] \notin {Fragment, Damaged}) =>
            p <= promoted[i] + (IF trail[n + 1] = i THEN 1 ELSE 0)
      <4>1. (\A k \in 1..(n + 1) : trail[k] \notin {Fragment, Damaged}) => trail[n + 1] = job[a].id
        BY <2>1
      <4> QED BY <1>3, <4>1
    <3>3. promoted[i] + died[i] + (IF trail[n + 1] = i THEN 1 ELSE 0) <= p + d
      <4>1. trail[n + 1] = i => i = job[a].id
        BY <1>1, <2>1
      <4>2. p + d = promoted[i] + died[i] + (IF i = job[a].id THEN 1 ELSE 0)
        BY <1>3
      <4> HIDE DEF p, d
      <4> QED BY <3>1, <4>1, <4>2
    <3> HIDE DEF p, d
    <3>4. /\ (\A k \in 1..(n + 1) : trail[k] \notin {Fragment, Damaged}) => p <= Below(trail, n + 1, i)
          /\ Below(trail, n + 1, i) <= p + d
      BY <1>0, <3>1, <3>2, <3>3, CountedGrows
    <3> QED BY <3>4 DEF p, d
  <2>3. Counted(trail, n + 1)'
    BY <1>3, <2>2 DEF Counted
  <2>4. Behind(a, n + 1)'
    BY <1>3, <2>1 DEF Behind
  <2>5. n + 1 \in Nat /\ n + 1 <= Len(trail')
    BY <1>3, <2>1
  <2> QED BY <1>3, <2>3, <2>4, <2>5, LinesMove
<1>4. ASSUME NEW i \in Ids, NEW text \in Texts, Stage(i, text) PROVE LinesInv'
  <2>1. UNCHANGED <<trail, pc, job, promoted, died>>
    BY <1>4 DEF Stage
  <2> QED BY <2>1 DEF LinesInv, Counted, Behind, AtRest
<1>5. ASSUME NEW a \in Actors, NEW i \in Ids, PromoteRead(a, i) PROVE LinesInv'
  <2>1. Behind(a, n)'
    BY <1>0, <1>5 DEF PromoteRead, Goto, Behind
  <2> QED BY <1>2, <1>5, <2>1 DEF PromoteRead
<1>6. ASSUME NEW a \in Actors, PromoteMark(a) PROVE LinesInv'
  <2>1. Behind(a, n)'
    BY <1>0, <1>6 DEF PromoteMark, Goto, Behind
  <2> QED BY <1>2, <1>6, <2>1 DEF PromoteMark
<1>7. ASSUME NEW a \in Actors, PromoteAppend(a) PROVE LinesInv'
  <2> DEFINE new == <<job[a].id>>
  <2>1. /\ job[a].id \in Ids /\ n = Len(trail) /\ job[a].mark = n
        /\ pc'[a] = "replace" /\ job' = job /\ UNCHANGED <<promoted, died>>
    BY <1>0, <1>7 DEF PromoteAppend, Goto, Behind, EvidenceInv, StillChecked
  <2>2. trail' = Appended(trail, new)
    BY <1>7 DEF PromoteAppend
  <2>3. /\ Appended(trail, new) \in Seq(Lines)
        /\ Len(Appended(trail, new)) = Len(trail) + Len(new)
        /\ \A k \in DOMAIN trail : Appended(trail, new)[k] = trail[k]
    <3>1. new \in Seq(Lines) /\ new # <<>> /\ Damaged \in Lines
      BY <2>1
    <3> HIDE DEF Lines, new
    <3> QED BY <1>0, <3>1, AppendedKeeps
  <2>4. Len(trail') = n + 1 /\ \A k \in 1..n : trail'[k] = trail[k]
    <3>1. Len(new) = 1
      OBVIOUS
    <3>2. DOMAIN trail = 1..n
      BY <1>0, <2>1
    <3> HIDE DEF new, Lines
    <3> QED BY <2>1, <2>2, <2>3, <3>1, <3>2
  <2>5. Counted(trail, n)'
    <3>1. \A i \in Ids : Below(trail', n, i) = Below(trail, n, i)
      <4>1. \A k \in 1..n : trail'[k] = trail[k]
        BY <2>4
      <4> HIDE DEF new, Lines
      <4> QED BY <1>n, <4>1, BelowSame
    <3> QED BY <2>1, <2>4, <3>1 DEF Counted
  <2>6. /\ trail'[n + 1] \in {job[a].id, Damaged}
        /\ (\A k \in 1..n : trail[k] \notin {Fragment, Damaged}) => trail'[n + 1] = job[a].id
    <3>1. CASE trail # <<>> /\ trail[Len(trail)] = Fragment
      <4> DEFINE glued == <<Damaged>>
      <4>1. glued \in Seq(Lines) /\ Len(glued) = 1 /\ glued[1] = Damaged
        OBVIOUS
      <4>2. trail' = trail \o glued
        BY <2>2, <3>1, Glued DEF Appended
      <4>3. 1 \in 1..Len(glued)
        BY <4>1
      <4> HIDE DEF glued, Lines
      <4>4. (trail \o glued)[Len(trail) + 1] = glued[1]
        <5>1. trail \in Seq(Lines) /\ glued \in Seq(Lines)
          BY <1>0, <4>1
        <5> QED BY <4>3, <5>1, ConcatNew
      <4>5. n \in 1..n
        BY <1>0, <2>1, <3>1 DEF Lines
      <4> QED BY <2>1, <3>1, <4>1, <4>2, <4>4, <4>5
    <3>2. CASE ~(trail # <<>> /\ trail[Len(trail)] = Fragment)
      <4>1. trail' = trail \o new
        BY <2>2, <3>2 DEF Appended
      <4>2. new \in Seq(Lines) /\ new[1] = job[a].id /\ 1 \in 1..Len(new)
        BY <2>1
      <4> HIDE DEF new, Lines
      <4>3. (trail \o new)[Len(trail) + 1] = new[1]
        BY <1>0, <4>2, ConcatNew
      <4> QED BY <2>1, <4>1, <4>2, <4>3
    <3> QED BY <3>1, <3>2
  <2>7. Behind(a, n)'
    BY <2>1, <2>4, <2>6 DEF Behind
  <2>8. n <= Len(trail')
    BY <2>4
  <2> QED BY <1>0, <2>1, <2>5, <2>7, <2>8, LinesMove
<1>8. ASSUME NEW a \in Actors, PromoteAppendFails(a) PROVE LinesInv'
  <2>1. n = Len(trail) /\ job[a].mark = n /\ pc'[a] = "idle" /\ UNCHANGED <<promoted, died>>
    BY <1>0, <1>8 DEF PromoteAppendFails, End, Behind
  <2>2. TruncatedTo(trail, n) = trail
    BY <1>0, <2>1 DEF TruncatedTo
  <2>3. trail' = trail
    BY <1>8, <2>1, <2>2 DEF PromoteAppendFails
  <2>4. Behind(a, n)'
    BY <2>1, <2>3 DEF Behind
  <2> QED BY <1>2, <2>1, <2>3, <2>4
<1>9. ASSUME NEW a \in Actors, PromoteReplace(a) PROVE LinesInv'
  <2>1. job[a].id \in Ids
    BY <1>9 DEF PromoteReplace, EvidenceInv, StillChecked
  <2>2. CASE draft[job[a].id] # None
    <3>1. /\ pc[a] = "replace" /\ trail' = trail /\ pc'[a] = "idle" /\ died' = died
          /\ promoted' = [promoted EXCEPT ![job[a].id] = @ + 1]
      BY <1>0, <1>9, <2>2 DEF PromoteReplace, End
    <3>2. /\ promoted' \in [Ids -> Nat]
          /\ \A i \in Ids : promoted'[i] = promoted[i] + (IF i = job[a].id THEN 1 ELSE 0)
      <4>1. promoted \in [Ids -> Nat]
        BY <1>0
      <4> QED BY <2>1, <3>1, <4>1
    <3>3. \A i \in Ids : promoted[i] \in Nat /\ died[i] \in Nat /\ promoted'[i] \in Nat
      BY <1>0, <3>2
    <3>4. ASSUME NEW i \in Ids
          PROVE  /\ promoted[i] <= promoted'[i]
                 /\ promoted'[i] <= promoted[i] + (IF i = job[a].id THEN 1 ELSE 0)
                 /\ promoted'[i] + died'[i] = promoted[i] + died[i] + (IF i = job[a].id THEN 1 ELSE 0)
      BY <3>1, <3>2, <3>3
    <3> QED BY <1>0, <1>3, <3>1, <3>2, <3>4
  <2>3. CASE draft[job[a].id] = None
    <3>1. /\ UNCHANGED <<trail, job, promoted, died>> /\ pc'[a] = "truncate" /\ pc[a] = "replace"
      BY <1>0, <1>9, <2>3 DEF PromoteReplace, Goto
    <3>2. Behind(a, n)'
      BY <3>1 DEF Behind
    <3> QED BY <1>2, <3>1, <3>2
  <2> QED BY <2>2, <2>3
<1>10. ASSUME NEW a \in Actors, PromoteReplaceFails(a) PROVE LinesInv'
  <2>1. UNCHANGED <<trail, job, promoted, died>> /\ pc'[a] = "truncate" /\ pc[a] = "replace"
    BY <1>0, <1>10 DEF PromoteReplaceFails, Goto
  <2>2. Behind(a, n)'
    BY <2>1 DEF Behind
  <2> QED BY <1>2, <2>1, <2>2
<1>11. ASSUME NEW a \in Actors, PromoteTruncate(a) PROVE LinesInv'
  <2>1. Len(trail) = n + 1 /\ job[a].mark = n /\ pc'[a] = "idle" /\ UNCHANGED <<promoted, died>>
    BY <1>0, <1>11 DEF PromoteTruncate, End, Behind
  <2>2. trail' = SubSeq(trail, 1, n)
    BY <1>11, <2>1 DEF PromoteTruncate, TruncatedTo
  <2>3. Len(trail') = n /\ \A k \in 1..n : trail'[k] = trail[k]
    BY <1>0, <2>1, <2>2
  <2>4. Counted(trail, n)'
    <3>1. \A i \in Ids : Below(trail', n, i) = Below(trail, n, i)
      BY <2>3, BelowSame
    <3> QED BY <2>1, <2>3, <3>1 DEF Counted
  <2>5. Behind(a, n)'
    BY <2>1, <2>3 DEF Behind
  <2>6. n <= Len(trail')
    BY <2>3
  <2> QED BY <1>0, <2>1, <2>4, <2>5, <2>6, LinesMove
<1>12. ASSUME NEW a \in Actors, Crash(a) PROVE LinesInv'
  <2>1. pc'[a] = "idle" /\ promoted' = promoted
    BY <1>0, <1>12 DEF Crash, End
  <2>2. CASE pc[a] \in {"replace", "truncate"}
    <3>1. trail' = trail /\ died' = [died EXCEPT ![job[a].id] = @ + 1]
      BY <1>12, <2>2 DEF Crash
    <3>2. job[a].id \in Ids
      BY <2>2 DEF EvidenceInv, StillChecked
    <3>3. /\ died' \in [Ids -> Nat]
          /\ \A i \in Ids : died'[i] = died[i] + (IF i = job[a].id THEN 1 ELSE 0)
      BY <1>0, <3>1, <3>2
    <3>4. \A i \in Ids : promoted[i] \in Nat /\ died[i] \in Nat
      BY <1>0
    <3>5. ASSUME NEW i \in Ids
          PROVE  /\ promoted[i] <= promoted'[i]
                 /\ promoted'[i] <= promoted[i] + (IF i = job[a].id THEN 1 ELSE 0)
                 /\ promoted'[i] + died'[i] = promoted[i] + died[i] + (IF i = job[a].id THEN 1 ELSE 0)
      BY <2>1, <3>3, <3>4
    <3> QED BY <1>0, <1>3, <2>1, <2>2, <3>1, <3>3, <3>5
  <2>3. CASE pc[a] \notin {"replace", "truncate"} /\ trail' = trail
    <3>1. died' = died /\ Behind(a, n)'
      BY <1>12, <2>1, <2>3 DEF Crash, Behind
    <3> QED BY <1>2, <2>1, <2>3, <3>1
  <2>4. CASE pc[a] = "append" /\ trail' = Append(trail, Fragment)
    <3>1. died' = died /\ n = Len(trail)
      BY <1>12, <2>4 DEF Crash, Behind
    <3>2. /\ Len(trail') = n + 1 /\ trail'[n + 1] = Fragment
          /\ \A k \in 1..n : trail'[k] = trail[k]
      BY <1>0, <2>4, <3>1
    <3>3. Counted(trail, n + 1)'
      <4>1. ASSUME NEW i \in Ids PROVE Below(trail', n + 1, i) = Below(trail, n, i)
        <5>1. Below(trail', n, i) = Below(trail, n, i)
          BY <3>2, BelowSame
        <5>2. Below(trail', n, i) \in Nat
          BY BelowGrows
        <5>3. Below(trail', n + 1, i) = Below(trail', n, i) + (IF trail'[n + 1] = i THEN 1 ELSE 0)
          BY BelowGrows
        <5> QED BY <1>1, <3>2, <5>1, <5>2, <5>3
      <4>2. n + 1 \in 1..(n + 1)
        OBVIOUS
      <4> QED BY <2>1, <3>1, <3>2, <4>1, <4>2 DEF Counted
    <3>4. Behind(a, n + 1)'
      BY <2>1, <3>2 DEF Behind
    <3>5. n + 1 \in Nat /\ n + 1 <= Len(trail')
      BY <3>2
    <3> QED BY <1>0, <2>1, <3>1, <3>3, <3>4, <3>5, LinesMove
  <2> QED BY <1>12, <2>2, <2>3, <2>4 DEF Crash
<1>13. CASE UNCHANGED evidenceVars
  <2>1. UNCHANGED <<trail, pc, job, promoted, died>>
    BY <1>13 DEF evidenceVars
  <2> QED BY <2>1 DEF LinesInv, Counted, Behind, AtRest
<1> QED BY <1>4, <1>5, <1>6, <1>7, <1>8, <1>9, <1>10, <1>11, <1>12, <1>13 DEF EvidenceNext, Promote

\* What is counted is what the property states.
LEMMA LinesMatch == EvidenceInv /\ LinesInv => LinesMatchPromotions
<1> SUFFICES ASSUME EvidenceInv, LinesInv, NEW i \in Ids
             PROVE  /\ Readable(trail) => promoted[i] <= Cardinality(LinesOf(i))
                    /\ AtRest => Cardinality(LinesOf(i)) <= promoted[i] + died[i]
  BY DEF LinesMatchPromotions
<1>0. /\ Len(trail) \in Nat /\ DOMAIN trail = 1..Len(trail)
      /\ promoted[i] \in Nat /\ died[i] \in Nat
  BY DEF EvidenceInv, LinesInv
<1> PICK n \in Nat : /\ n <= Len(trail) /\ Counted(trail, n)
                     /\ \A a \in Actors : Behind(a, n)
                     /\ AtRest => n = Len(trail)
  BY DEF LinesInv
<1>n. n \in Nat /\ n <= Len(trail)
  OBVIOUS
<1>k. \A k \in 1..n : k \in 1..Len(trail)
  <2>1. Len(trail) \in Nat
    BY <1>0
  <2> QED BY <1>n, <2>1
<1>1. Cardinality(LinesOf(i)) = Below(trail, Len(trail), i)
  BY <1>0 DEF LinesOf, Below
<1>2. Below(trail, n, i) <= Below(trail, Len(trail), i) /\ Below(trail, n, i) \in Nat
  <2> DEFINE S == {k \in 1..n : trail[k] = i}
             T == {k \in 1..Len(trail) : trail[k] = i}
  <2>1. S \in SUBSET T /\ T \in SUBSET (1..Len(trail)) /\ IsFiniteSet(1..Len(trail))
    <3>1. S \in SUBSET T
      BY <1>k
    <3>2. T \in SUBSET (1..Len(trail))
      OBVIOUS
    <3>3. IsFiniteSet(1..Len(trail))
      <4> DEFINE m == Len(trail)
      <4>1. m \in Nat
        BY <1>0
      <4> HIDE DEF m
      <4>2. IsFiniteSet(1..m)
        BY <4>1, FS_Interval
      <4> QED BY <4>2 DEF m
    <3> QED BY <3>1, <3>2, <3>3
  <2> HIDE DEF S, T
  <2>2. IsFiniteSet(T)
    BY <2>1, FS_Subset
  <2>3. Cardinality(S) <= Cardinality(T)
    BY <2>1, <2>2, FS_Subset
  <2>4. Below(trail, n, i) \in Nat
    BY <1>n, BelowGrows
  <2> QED BY <2>3, <2>4 DEF Below, S, T
<1>3. Below(trail, Len(trail), i) \in Nat
  BY <1>0, BelowGrows
<1>4. Readable(trail) => \A k \in 1..n : trail[k] \notin {Fragment, Damaged}
  <2>1. DOMAIN trail = 1..Len(trail)
    BY <1>0
  <2> QED BY <1>k, <2>1 DEF Readable
<1>5. Readable(trail) => promoted[i] <= Below(trail, n, i)
  BY <1>4 DEF Counted
<1>6. AtRest => Below(trail, Len(trail), i) <= promoted[i] + died[i]
  BY DEF Counted
<1>7. Readable(trail) => promoted[i] <= Below(trail, Len(trail), i)
  <2>1. promoted[i] \in Nat
    BY <1>0
  <2> QED BY <1>2, <1>3, <1>5, <2>1
<1> QED BY <1>1, <1>6, <1>7

\* One promotion at a time, failing or dying anywhere: a readable trail has a
\* line for each promotion, and between commands no more than one more for each
\* that died behind its append.
THEOREM LinesFollowPromotions ==
  ASSUME OneCommand
  PROVE  EvidenceSpec => []LinesMatchPromotions
<1>1. EvidenceInv /\ LinesInv /\ [EvidenceNext]_evidenceVars => LinesInv'
  BY LinesKept
<1> QED BY <1>1, EvidenceStarts, EvidenceKept, LinesStart, LinesMatch, PTL DEF EvidenceSpec
=============================================================================

---------------------------- MODULE RealizedCalls ----------------------------
(***************************************************************************)
(* C_static: the calls extract-c-static reads off the source of one crate, *)
(* the report that holds them, and its reconciliation with the declared    *)
(* interactions (extract_c_static.py, validate_callsites.py,               *)
(* gate_r1_g16.py).  A method is <<concept, name>> and has one body; the   *)
(* hash of a body is the body.                                             *)
(***************************************************************************)
EXTENDS Absent, Naturals, Sequences, FiniteSets, SequencesExt

CONSTANTS
  Tiers  \* risk tiers people give unresolved calls

ASSUME TiersAssumption == Tiers \subseteq {"low", "medium", "high", "critical"}

VARIABLES
  source,    \* [methods -> bodies]
  declared,  \* [edges -> the configuration each was analyzed for]
  report     \* ci/results/c_static/<crate>.json: the calls by their ids

-----------------------------------------------------------------------------
(* Reading the source.  A body is the calls it spells, the names it binds, *)
(* whether it returns bool, and whether it is free of everything else that *)
(* is not an expression over its own data.                                 *)

Names(src) == {m[2] : m \in DOMAIN src}

Named(m, call) == <<IF call.owner = "Self" THEN m[1] ELSE call.owner, call.name>>

Direct(src, m, call) ==
  call.form \in {"path", "self"} /\ Named(m, call) \in DOMAIN src
Dispatch(src, m, call) ==
  call.form \in {"self", "receiver"} /\ ~Direct(src, m, call) /\ call.name \in Names(src)
Indirect(src, m, call) ==
  call.form = "bare" /\ call.name \in src[m].binds \cup Names(src)

\* classify_span: the calls of a method the extractor can say something of.
CallsIn(src, m) ==
  SelectSeq(src[m].calls, LAMBDA c : Direct(src, m, c) \/ Dispatch(src, m, c) \/ Indirect(src, m, c))

\* classify_callee_shape: a value-domain inquiry carries no boundary.
Inquiry(src, m) == src[m].bool /\ src[m].calls = <<>> /\ src[m].quiet
Shape(src, m) == IF Inquiry(src, m) THEN "inquiry" ELSE "general"

-----------------------------------------------------------------------------
(* The report.                                                             *)

Unresolved(r) == r.class # "direct"
ByHuman(r) == Unresolved(r) /\ r.by = "human"

DirectRecord(src, id, call) == LET callee == Named(id[1], call) IN
  [id |-> id, class |-> "direct", call |-> call, callee |-> callee,
   shape |-> Shape(src, callee),
   pinned |-> IF Inquiry(src, callee) THEN src[callee] ELSE None]

\* Mutant: what a human said of a call is asked of the method it is in.
TieredByMethod(src, id, call, prev) ==
  LET carried == {r \in prev : ByHuman(r) /\ r.id[1] = id[1]}
  IN [id |-> id, class |-> IF Dispatch(src, id[1], call) THEN "dispatch" ELSE "indirect",
      call |-> call,
      tier |-> IF carried = {} THEN "medium" ELSE (CHOOSE r \in carried : TRUE).tier,
      by |-> IF carried = {} THEN "extractor" ELSE "human"]

\* _human_tiers: a tier a human set is carried over by the id of the call,
\* its ordinal in its method.
TieredRecord(src, id, call, prev) ==
  LET carried == {r \in prev : ByHuman(r) /\ r.id = id}
  IN [id |-> id, class |-> IF Dispatch(src, id[1], call) THEN "dispatch" ELSE "indirect",
      call |-> call,
      tier |-> IF carried = {} THEN "medium" ELSE (CHOOSE r \in carried : TRUE).tier,
      by |-> IF carried = {} THEN "extractor" ELSE "human"]

Previous == IF report = None THEN {} ELSE Range(report.calls)

\* The id of a call is its method and its ordinal in it.
CallIds(src) == UNION {{m} \X DOMAIN CallsIn(src, m) : m \in DOMAIN src}

Extracted(src, prev) ==
  [id \in CallIds(src) |->
     LET call == CallsIn(src, id[1])[id[2]] IN
     IF Direct(src, id[1], call) THEN DirectRecord(src, id, call)
     ELSE TieredRecord(src, id, call, prev)]

\* extract-c-static, the target and features given on its command line.
ExtractCStatic(config) ==
  /\ report' = [config |-> config, calls |-> Extracted(source, Previous)]
  /\ UNCHANGED <<source, declared>>

\* Mutant: a recorded shape is believed.
ShapeTrusted(r) == TRUE

\* check_computed_callee_shape: the shape of a callee is computed again, the
\* caller's own body is not.
ShapeRederived(r) ==
  IF r.callee \notin DOMAIN source THEN r.shape = "general"
  ELSE /\ r.shape = Shape(source, r.callee)
       /\ r.shape = "inquiry" => r.pinned = source[r.callee]

ReportValid == \A r \in Range(report.calls) : ~Unresolved(r) => ShapeRederived(r)

-----------------------------------------------------------------------------
(* R1 and G16: the findings over the report.  `worded` is whether the text  *)
(* has the word "interaction" in it.                                       *)

R1(severity, worded) == {[severity |-> severity, worded |-> worded]}

TierSeverity(tier) ==
  CASE tier \in {"critical", "high"} -> "error" [] tier = "medium" -> "decision" [] OTHER -> "info"

Edge(r) == <<r.id[1], r.callee>>

ConfigFindings(analyzed) ==
  (IF analyzed.target # report.config.target THEN R1("error", TRUE) ELSE {})
    \cup (IF analyzed.features # report.config.features THEN R1("info", TRUE) ELSE {})

\* Mutant: an undeclared call is drift, whatever its callee is.
DirectFindingsLax(r) ==
  IF Edge(r) \in DOMAIN declared THEN ConfigFindings(declared[Edge(r)])
  ELSE IF r.id[1][1] = r.callee[1] THEN R1("info", FALSE) ELSE R1("warn", TRUE)

DirectFindings(r) ==
  CASE Edge(r) \in DOMAIN declared -> ConfigFindings(declared[Edge(r)])
    [] Edge(r) \notin DOMAIN declared /\ r.id[1][1] = r.callee[1] -> R1("info", FALSE)
    [] OTHER -> R1(IF r.shape = "inquiry" THEN "warn" ELSE "error", TRUE)

\* A dispatch may look like a declared edge; it stays unresolved (G16).
UnresolvedFindings(r) ==
  LET matches == \E e \in DOMAIN declared : e[2][2] = r.call.name
  IN R1(TierSeverity(r.tier), FALSE)
       \cup IF r.class # "dispatch" THEN {}
            ELSE R1(IF matches THEN "info" ELSE TierSeverity(r.tier), FALSE)

FindingsOf(r) == IF Unresolved(r) THEN UnresolvedFindings(r) ELSE DirectFindings(r)

Realized == {Edge(r) : r \in {q \in Range(report.calls) : ~Unresolved(q)}}

\* A declared edge nobody calls is for information.
Reconcile ==
  UNION {FindingsOf(r) : r \in Range(report.calls)}
    \cup IF DOMAIN declared \subseteq Realized THEN {} ELSE R1("info", TRUE)

\* gate_r1_g16.gate_workspace: an invalid report is dropped, and a report
\* directory with nothing valid in it is no pass.
R1G16Findings == IF ReportValid THEN Reconcile ELSE R1("error", FALSE)

=============================================================================
